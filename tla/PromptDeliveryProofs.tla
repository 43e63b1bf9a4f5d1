------------------------ MODULE PromptDeliveryProofs ------------------------
(***************************************************************************)
(* What is proved of PromptDelivery for any number of submissions, keys    *)
(* and upsets: no key the person presses is lost, repeated or overtaken;   *)
(* the submissions take the composer one at a time; a paste meets its      *)
(* Enter untouched; a prompt confirmed was taken; a paste cut short is     *)
(* healed; the draft is what the composer holds; and an Enter sends its    *)
(* prompt, once, and nothing the person had not meant to send.             *)
(***************************************************************************)
EXTENDS PromptDelivery, InductionLemmas, TLAPS

-----------------------------------------------------------------------------
(* Typing *)

(* The inductive invariant: TypingKept over sequences of some set of keys. *)
TypingInv == /\ held \in Seq(UserKeys)
             /\ through \in Seq(UserKeys)
             /\ goingIn \in BOOLEAN
             /\ TypingKept

(* Giving back all that is held, or pressing one more key, keeps the log. *)
LEMMA LogGrows ==
  ASSUME NEW S, NEW a \in Seq(S), NEW b \in Seq(S), NEW k \in S
  PROVE  /\ (a \o b) \o <<>> = a \o b
         /\ a \o b \in Seq(S)
         /\ Append(a \o b, k) = a \o Append(b, k)
         /\ Append(a \o <<>>, k) = Append(a, k) \o <<>>
  OBVIOUS

(* Everything held is given back, and nothing is held any more. *)
LEMMA GivenBack ==
  ASSUME TypingInv, held' = <<>>, through' = through \o held, goingIn' \in BOOLEAN,
         UNCHANGED typed
  PROVE  TypingInv'
<1>1. through \o held \in Seq(UserKeys) /\ (through \o held) \o <<>> = through \o held
  BY LogGrows DEF TypingInv
<1>2. typed = through \o held
  BY DEF TypingInv, TypingKept
<1> QED
  BY <1>1, <1>2 DEF TypingInv, TypingKept

(* A retry gives everything held back, or nothing. *)
LEMMA RetryGivesBack ==
  ASSUME TypingInv, NEW i, Retry(i)
  PROVE  TypingInv'
<1>1. CASE HoldOver(i)
  <2>1. held' = <<>> /\ goingIn' = FALSE /\ through' = through \o held /\ typed' = typed
    BY <1>1 DEF Retry, GivenTyping, TypingInv
  <2> QED BY <2>1, GivenBack
<1>2. CASE ~HoldOver(i)
  <2>1. held' = held /\ goingIn' = goingIn /\ through' = through \o <<>> /\ typed' = typed
    BY <1>2 DEF Retry, GivenTyping, TypingInv
  <2>2. through \o <<>> = through
    BY DEF TypingInv
  <2> QED BY <2>1, <2>2 DEF TypingInv, TypingKept
<1> QED BY <1>1, <1>2

(* A key pressed is held behind those held before it, or written when none is. *)
LEMMA TypeKeeps ==
  ASSUME TypingInv, NEW key \in UserKeys, Type(key)
  PROVE  TypingInv'
<1>1. CASE goingIn
  <2>1. held' = Append(held, key) /\ through' = through /\ goingIn' = TRUE
        /\ typed' = Append(through \o held, key)
    BY <1>1 DEF Type, TypingInv, TypingKept
  <2>2. through \in Seq(UserKeys) /\ held \in Seq(UserKeys)
    BY DEF TypingInv
  <2>3. Append(through \o held, key) = through \o Append(held, key)
    BY <2>2
  <2> QED BY <2>1, <2>2, <2>3 DEF TypingInv, TypingKept
<1>2. CASE ~goingIn
  <2>1. held = <<>> /\ held' = <<>> /\ through' = Append(through, key) /\ goingIn' = goingIn
        /\ typed' = Append(through \o held, key)
    BY <1>2 DEF Type, TypingInv, TypingKept
  <2>2. Append(through \o <<>>, key) = Append(through, key) \o <<>>
    BY LogGrows DEF TypingInv
  <2> QED BY <2>1, <2>2 DEF TypingInv, TypingKept
<1> QED BY <1>1, <1>2

(* The person's next key is one of UserKeys. *)
LEMMA NextKeys ==
  ASSUME TypingInv, Len(typed) < MaxTyped
  PROVE  Word(Len(typed) + 1) \in UserKeys
<1>1. typed \in Seq(UserKeys)
  BY LogGrows DEF TypingInv, TypingKept
<1>2. Len(typed) + 1 \in 1..MaxTyped
  BY <1>1, PromptConstants
<1> QED BY <1>2 DEF UserKeys

(* The steps that neither hold, release nor press keep the log as it is. *)
LEMMA TypingUntouched ==
  ASSUME TypingInv, UNCHANGED <<held, through, typed>>, goingIn' = goingIn \/ goingIn' = TRUE
  PROVE  TypingInv'
  BY DEF TypingInv, TypingKept

LEMMA TypingStep == TypingInv /\ [Next]_vars => TypingInv'
<1> SUFFICES ASSUME TypingInv, [Next]_vars PROVE TypingInv'
  OBVIOUS
<1> USE DEF TypingInv
<1>1. ASSUME NEW i \in Subs, NEW k \in Kinds, Start(i, k) PROVE TypingInv'
  BY <1>1, TypingUntouched DEF Start
<1>2. ASSUME NEW i \in Subs, Begin(i) \/ Left(i) PROVE TypingInv'
  <2>1. CASE Refuse(i)
    BY <2>1, TypingUntouched DEF Refuse
  <2>2. CASE Leave(i)
    BY <2>2, TypingUntouched DEF Leave
  <2>3. CASE GoIn(i)
    BY <2>3, TypingUntouched DEF GoIn
  <2> QED BY <1>2, <2>1, <2>2, <2>3 DEF Begin, Left
<1>3. ASSUME NEW i \in Subs, Settled(i) PROVE TypingInv'
  <2>1. CASE UNCHANGED <<goingIn, held, through, typed>>
    BY <2>1, TypingUntouched
  <2>2. CASE held' = <<>> /\ through' = through \o held /\ goingIn' = FALSE /\ UNCHANGED typed
    BY <2>2, GivenBack
  <2> QED BY <1>3, <2>1, <2>2 DEF Settled, End
<1>4. ASSUME NEW i \in Subs, Looked(i) PROVE TypingInv'
  <2>1. CASE Retry(i)
    BY <2>1, RetryGivesBack
  <2>2. CASE held' = <<>> /\ through' = through \o held /\ goingIn' = FALSE /\ UNCHANGED typed
    BY <2>2, GivenBack
  <2> QED BY <1>4, <2>1, <2>2 DEF Looked, Missing, End
<1>5. ASSUME NEW i \in Subs, Look(i) \/ EditWrites(i) PROVE TypingInv'
  BY <1>5, TypingUntouched DEF Look, EditWrites
<1>6. ASSUME NEW i \in Subs, EditEnds(i) PROVE TypingInv'
  <2>1. held' = <<>> /\ through' = through \o held /\ goingIn' = FALSE /\ UNCHANGED typed
    BY <1>6 DEF EditEnds, End
  <2> QED BY <2>1, GivenBack
<1>7. CASE Type(Word(Len(typed) + 1)) \/ Type(Enter(Person)) \/ Type(Tab)
  <2>1. Len(typed) < MaxTyped
    BY <1>7 DEF Type
  <2>2. Word(Len(typed) + 1) \in UserKeys /\ Enter(Person) \in UserKeys /\ Tab \in UserKeys
    BY <2>1, NextKeys DEF UserKeys
  <2>3. PICK key \in UserKeys : Type(key)
    BY <1>7, <2>2
  <2> QED BY <2>3, TypeKeeps
<1>8. CASE ScreenChanges \/ QueueDrains \/ TurnRecorded
  BY <1>8, TypingUntouched DEF ScreenChanges, QueueDrains, TurnRecorded
<1>9. CASE UNCHANGED vars
  BY <1>9, TypingUntouched DEF vars
<1> QED
  BY <1>1, <1>2, <1>3, <1>4, <1>5, <1>6, <1>7, <1>8, <1>9 DEF Next, Step

(* write_user_input and release: every key the person presses is written once
   and in the order pressed, or still held; nothing is held once the composer
   is theirs again. *)
THEOREM TypingNeverLost == Spec => []TypingKept
<1>1. Init => TypingInv
  <2> SUFFICES ASSUME Init PROVE TypingInv
    OBVIOUS
  <2>1. <<>> \in Seq(UserKeys) /\ <<>> \o <<>> = <<>>
    OBVIOUS
  <2> QED BY <2>1 DEF Init, TypingInv, TypingKept
<1>2. TypingInv => TypingKept
  BY DEF TypingInv
<1> QED
  BY <1>1, <1>2, TypingStep, PTL DEF Spec

-----------------------------------------------------------------------------
(* The lock *)

(* Between asking Esc of a search view and the end of the retries, or of the
   queue edit: the span prompt_submit_lock protects. *)
GoesIn(i) == pc[i] \in {"leaving", "settling", "polling", "looked", "editing"}

(* prompt_submit_lock: one submission at a time has the composer. *)
OneAtATime == \A i, j \in Subs : GoesIn(i) /\ GoesIn(j) => i = j

LockInv == /\ pc \in [Subs -> Phases]
           /\ line \in Seq(Subs)
           /\ \A i \in Subs : GoesIn(i) => Holds(i)

(* Whoever asks for the lock goes to the end of the line. *)
LEMMA AskKeepsHolder ==
  ASSUME NEW q \in Seq(Subs), NEW i \in Subs
  PROVE  /\ Append(q, i) \in Seq(Subs)
         /\ q # <<>> => Append(q, i) # <<>> /\ Head(Append(q, i)) = Head(q)
  OBVIOUS

LEMMA TailOfLine ==
  ASSUME NEW q \in Seq(Subs), q # <<>>
  PROVE  Tail(q) \in Seq(Subs)
  OBVIOUS

(* A step that leaves the line alone may move its holder anywhere. *)
LEMMA HolderMoves ==
  ASSUME LockInv, NEW i \in Subs, NEW p \in Phases, Holds(i),
         pc' = [pc EXCEPT ![i] = p], UNCHANGED line
  PROVE  LockInv'
  BY DEF LockInv, GoesIn, Holds

(* The holder leaves: nobody goes in until the next in line starts. *)
LEMMA HolderLeaves ==
  ASSUME LockInv, NEW i \in Subs, Holds(i),
         pc' = [pc EXCEPT ![i] = "done"], line' = Tail(line)
  PROVE  LockInv'
<1>1. line' \in Seq(Subs)
  BY TailOfLine DEF LockInv, Holds
<1>2. \A j \in Subs : ~GoesIn(j)'
  BY DEF LockInv, GoesIn, Holds
<1>3. pc' \in [Subs -> Phases]
  BY DEF LockInv, Phases
<1> QED BY <1>1, <1>2, <1>3 DEF LockInv

LEMMA LockStep == LockInv /\ [Next]_vars => LockInv'
<1> SUFFICES ASSUME LockInv, [Next]_vars PROVE LockInv'
  OBVIOUS
<1>1. ASSUME NEW i \in Subs, NEW k \in Kinds, Start(i, k) PROVE LockInv'
  <2>1. pc[i] = "idle" /\ pc' = [pc EXCEPT ![i] = "waiting"] /\ line' = Append(line, i)
    BY <1>1 DEF Start
  <2>2. line' \in Seq(Subs) /\ (line # <<>> => line' # <<>> /\ Head(line') = Head(line))
    BY <2>1, AskKeepsHolder DEF LockInv
  <2>3. pc' \in [Subs -> Phases]
    BY <2>1 DEF LockInv, Phases
  <2>4. ASSUME NEW j \in Subs, GoesIn(j)' PROVE Holds(j)'
    <3>1. GoesIn(j)
      BY <2>1, <2>4 DEF GoesIn, LockInv
    <3> QED BY <3>1, <2>2 DEF LockInv, Holds
  <2> QED BY <2>2, <2>3, <2>4 DEF LockInv
<1>2. ASSUME NEW i \in Subs, Begin(i) \/ Left(i) PROVE LockInv'
  <2>1. Holds(i)
    BY <1>2 DEF Begin, Left, LockInv, GoesIn
  <2>2. CASE Refuse(i)
    BY <2>1, <2>2, HolderLeaves DEF Refuse
  <2>3. CASE Leave(i)
    <3>1. pc' = [pc EXCEPT ![i] = "leaving"] /\ UNCHANGED line /\ "leaving" \in Phases
      BY <2>3 DEF Leave, Phases
    <3> QED BY <2>1, <3>1, HolderMoves
  <2>4. CASE GoIn(i)
    <3>1. PICK p \in Phases : pc' = [pc EXCEPT ![i] = p] /\ UNCHANGED line
      BY <2>4 DEF GoIn, Phases
    <3> QED BY <2>1, <3>1, HolderMoves
  <2> QED BY <1>2, <2>2, <2>3, <2>4 DEF Begin, Left
<1>3. ASSUME NEW i \in Subs, Settled(i) \/ Look(i) \/ Looked(i) \/ EditWrites(i) \/ EditEnds(i)
      PROVE  LockInv'
  <2>1. Holds(i)
    BY <1>3 DEF Settled, Look, Looked, EditWrites, EditEnds, LockInv, GoesIn
  <2>2. CASE pc' = [pc EXCEPT ![i] = "done"] /\ line' = Tail(line)
    BY <2>1, <2>2, HolderLeaves
  <2>3. CASE /\ UNCHANGED line
             /\ UNCHANGED pc \/ \E p \in Phases : pc' = [pc EXCEPT ![i] = p]
    <3>1. CASE UNCHANGED <<pc, line>>
      BY <3>1 DEF LockInv, GoesIn, Holds
    <3>2. CASE \E p \in Phases : pc' = [pc EXCEPT ![i] = p]
      <4>1. PICK p \in Phases : pc' = [pc EXCEPT ![i] = p]
        BY <3>2
      <4> QED BY <2>1, <2>3, <4>1, HolderMoves
    <3> QED BY <2>3, <3>1, <3>2
  <2>4. "polling" \in Phases /\ "looked" \in Phases
    BY DEF Phases
  <2>5. Settled(i) \/ Look(i) \/ EditWrites(i) \/ EditEnds(i)
          => \/ pc' = [pc EXCEPT ![i] = "done"] /\ line' = Tail(line)
             \/ UNCHANGED line /\ (UNCHANGED pc \/ \E p \in Phases : pc' = [pc EXCEPT ![i] = p])
    BY <2>4 DEF Settled, Look, EditWrites, EditEnds, End
  <2>6. Looked(i)
          => \/ pc' = [pc EXCEPT ![i] = "done"] /\ line' = Tail(line)
             \/ UNCHANGED line /\ \E p \in Phases : pc' = [pc EXCEPT ![i] = p]
    BY <2>4 DEF Looked, Missing, Retry, End
  <2> QED BY <1>3, <2>2, <2>3, <2>5, <2>6
<1>4. CASE Type(Word(Len(typed) + 1)) \/ Type(Enter(Person)) \/ Type(Tab)
  <2>1. UNCHANGED <<pc, line>>
    BY <1>4 DEF Type
  <2> QED BY <2>1 DEF LockInv, GoesIn, Holds
<1>5. CASE ScreenChanges \/ QueueDrains \/ TurnRecorded
  BY <1>5 DEF ScreenChanges, QueueDrains, TurnRecorded, LockInv, GoesIn, Holds
<1>6. CASE UNCHANGED vars
  BY <1>6 DEF vars, LockInv, GoesIn, Holds
<1> QED
  BY <1>1, <1>2, <1>3, <1>4, <1>5, <1>6 DEF Next, Step

(* prompt_submit_lock: however many requests there are, one at a time has the
   composer, from its first key to the end of its retries. *)
THEOREM PromptsGoInOneAtATime == Spec => []OneAtATime
<1>1. Init => LockInv
  BY DEF Init, LockInv, GoesIn, Phases
<1>2. LockInv => OneAtATime
  BY DEF LockInv, OneAtATime, Holds
<1> QED
  BY <1>1, <1>2, LockStep, PTL DEF Spec

-----------------------------------------------------------------------------
(* The screen *)

Keys == {Wipe, PasteEnd, Tab, Esc, AltUp}
          \cup {Enter(b) : b \in Subs \cup {Person}} \cup {Paste(d) : d \in Texts}
          \cup {Word(n) : n \in 1..MaxTyped}

(* Keys that are nobody's Enter but the person's. *)
Hands == {Wipe, PasteEnd, Tab, Esc, AltUp, Enter(Person)}
           \cup {Paste(d) : d \in Texts} \cup {Word(n) : n \in 1..MaxTyped}

LEMMA HandsAreKeys ==
  /\ Hands \subseteq Keys /\ UserKeys \subseteq Hands
  /\ \A s \in Seq(Hands) : s \in Seq(Keys)
  /\ \A s \in Seq(Seq(Hands)) : s \in Seq(Seq(Keys))
PROOF
  <1>1. Hands \subseteq Keys /\ UserKeys \subseteq Hands
    BY DEF Hands, Keys, UserKeys
  <1>2. Seq(Hands) \subseteq Seq(Keys)
    BY <1>1
  <1>3. Seq(Seq(Hands)) \subseteq Seq(Seq(Keys))
    <2> DEFINE A == Seq(Hands)
               B == Seq(Keys)
    <2>1. A \subseteq B
      BY <1>2
    <2> HIDE DEF A, B
    <2>2. Seq(A) \subseteq Seq(B)
      BY <2>1
    <2> QED BY <2>2 DEF A, B
  <1> QED BY <1>1, <1>2, <1>3

Turns == [by : Subs \cup {Person}, text : Texts]

Screens == [composer : Texts, pasting : BOOLEAN, dialog : BOOLEAN, mode : BOOLEAN, alive : BOOLEAN,
            cut : BOOLEAN, turns : Seq(Turns), queue : Seq(Texts), upsets : 0..MaxUpsets]

(* Nothing went wrong with the screen, or no more than the end of one paste was lost. *)
Calm(t) == t.upsets = 0
Fine(t) == Calm(t) \/ (t.upsets = 1 /\ t.cut)

(* A paste stays open only if its end was lost, and a screen with which nothing
   more went wrong shows its composer. *)
Sound(t) == /\ t.pasting => t.cut
            /\ Calm(t) => ~t.cut
            /\ Fine(t) => t.alive /\ ~Covered(t)

(* What happened on a screen stays so. *)
Later(t, u) == /\ Len(t.turns) <= Len(u.turns) /\ \A n \in 1..Len(t.turns) : u.turns[n] = t.turns[n]
               /\ t.upsets <= u.upsets /\ (t.cut => u.cut)
               /\ u.cut /\ u.upsets = t.upsets => t.cut
               /\ Sound(t) => Sound(u)

LEMMA LaterTwice ==
  ASSUME NEW t \in Screens, NEW u \in Screens, NEW v \in Screens, Later(t, u), Later(u, v)
  PROVE  Later(t, v)
PROOF
  <1>1. Len(t.turns) \in Nat /\ Len(u.turns) \in Nat /\ Len(v.turns) \in Nat
        /\ t.upsets \in Nat /\ u.upsets \in Nat /\ v.upsets \in Nat
    BY PromptConstants DEF Screens
  <1>2. Len(t.turns) <= Len(v.turns) /\ \A n \in 1..Len(t.turns) : v.turns[n] = t.turns[n]
    <2>1. Len(t.turns) <= Len(u.turns) /\ Len(u.turns) <= Len(v.turns)
          /\ (\A n \in 1..Len(t.turns) : u.turns[n] = t.turns[n])
          /\ (\A n \in 1..Len(u.turns) : v.turns[n] = u.turns[n])
      BY DEF Later
    <2> QED BY ONLY <1>1, <2>1
  <1>3. /\ t.upsets <= v.upsets /\ (t.cut => v.cut)
        /\ v.cut /\ v.upsets = t.upsets => t.cut
    <2>1. /\ t.upsets <= u.upsets /\ u.upsets <= v.upsets
          /\ (t.cut => u.cut) /\ (u.cut => v.cut)
          /\ (u.cut /\ u.upsets = t.upsets => t.cut) /\ (v.cut /\ v.upsets = u.upsets => u.cut)
      BY DEF Later
    <2> QED BY ONLY <1>1, <2>1
  <1>4. Sound(t) => Sound(v)
    BY DEF Later
  <1> QED BY <1>2, <1>3, <1>4 DEF Later

LEMMA LaterSame == \A t \in Screens : Later(t, t)
PROOF
  <1>1. \A t \in Screens : Len(t.turns) \in Nat /\ t.upsets \in Nat
    BY PromptConstants DEF Screens
  <1> QED BY <1>1 DEF Later

(* A turn is taken with what the composer holds. *)
LEMMA TakesTurn ==
  ASSUME NEW t \in Screens, NEW b \in Subs \cup {Person}
  PROVE  LET u == [t EXCEPT !.turns = Append(@, Turn(b, t.composer)), !.composer = <<>>]
         IN  u \in Screens /\ Later(t, u)
PROOF
  <1> DEFINE turn == Turn(b, t.composer)
             u == [t EXCEPT !.turns = Append(@, turn), !.composer = <<>>]
  <1>1. t.turns \in Seq(Turns) /\ turn \in Turns
    BY DEF Screens, Turns, Turn
  <1> HIDE DEF turn
  <1>2. /\ Append(t.turns, turn) \in Seq(Turns) /\ Len(Append(t.turns, turn)) = Len(t.turns) + 1
        /\ Len(t.turns) \in Nat
        /\ \A n \in 1..Len(t.turns) : Append(t.turns, turn)[n] = t.turns[n]
    BY <1>1
  <1>3. <<>> \in Texts
    BY DEF Texts
  <1>4. u \in Screens
    BY <1>2, <1>3 DEF Screens
  <1>5. /\ u.turns = Append(t.turns, turn) /\ u.upsets = t.upsets /\ u.cut = t.cut /\ u.pasting = t.pasting
        /\ u.dialog = t.dialog /\ u.mode = t.mode /\ u.alive = t.alive
    BY DEF Screens
  <1>6. t.upsets \in Nat
    BY PromptConstants DEF Screens
  <1> HIDE DEF u
  <1>7. Len(t.turns) <= Len(t.turns) + 1 /\ t.upsets <= t.upsets
    BY <1>2, <1>6
  <1>8. Sound(t) => Sound(u)
    BY <1>5 DEF Sound, Calm, Fine, Covered
  <1> QED BY <1>2, <1>4, <1>5, <1>7, <1>8 DEF Later, turn, u

(* A key that takes no turn and meets no upset; only an Enter at a dialog uncovers and may exit. *)
Quiet(t, u) == /\ u.turns = t.turns /\ u.upsets = t.upsets /\ u.cut = t.cut /\ (u.pasting => t.pasting)
               /\ t.dialog \/ ((t.alive => u.alive) /\ (u.dialog => t.dialog) /\ (u.mode => t.mode))

LEMMA KeepsTurns ==
  ASSUME NEW t \in Screens, NEW u \in Screens, Quiet(t, u)
  PROVE  Later(t, u)
PROOF
  <1>1. Len(t.turns) \in Nat /\ t.upsets \in Nat
    BY PromptConstants DEF Screens
  <1> QED BY <1>1 DEF Later, Sound, Calm, Fine, Covered, Quiet

(* One more upset: the end of a paste is lost, or something else. *)
LEMMA MeetsUpset ==
  ASSUME NEW t \in Screens, NEW u \in Screens, u.turns = t.turns, u.upsets = t.upsets + 1,
         \/ u.cut = t.cut /\ u.pasting = t.pasting
         \/ u.cut /\ u.alive = t.alive /\ u.dialog = t.dialog /\ u.mode = t.mode
  PROVE  Later(t, u)
PROOF
  <1>1. Len(t.turns) \in Nat /\ t.upsets \in Nat
    BY PromptConstants DEF Screens
  <1>2. t.cut \in BOOLEAN /\ u.cut \in BOOLEAN
    BY DEF Screens
  <1>3. t.upsets <= u.upsets /\ u.upsets # t.upsets /\ u.upsets # 0 /\ (u.upsets = 1 => t.upsets = 0)
    BY <1>1
  <1>4. Len(t.turns) <= Len(t.turns)
    BY <1>1
  <1> QED BY <1>2, <1>3, <1>4 DEF Later, Sound, Calm, Fine, Covered

LEMMA OneUpset ==
  ASSUME NEW t \in Screens, NEW name, NEW u \in {v \in {t.upsets + 1} : Upset(t, name)}
  PROVE  u = t.upsets + 1 /\ u \in 0..MaxUpsets /\ t.upsets < u /\ t.upsets \in Nat
BY PromptConstants DEF Screens, Upset

LEMMA EnterGood ==
  ASSUME NEW t \in Screens, NEW b \in Subs \cup {Person}, NEW u \in PressEnter(t, b)
  PROVE  u \in Screens /\ Later(t, u)
PROOF
  <1>1. t.upsets \in Nat /\ t.upsets <= t.upsets
    BY PromptConstants DEF Screens
  <1>2. CASE t.dialog
    <2>1. PICK a \in BOOLEAN : u = [t EXCEPT !.dialog = FALSE, !.alive = a]
      BY <1>2 DEF PressEnter
    <2>2. u \in Screens /\ Quiet(t, u)
      BY <1>2, <2>1 DEF Screens, Quiet
    <2> QED BY <1>1, <2>2, KeepsTurns
  <1>3. CASE ~t.dialog /\ (t.mode \/ t.pasting \/ t.composer = <<>>)
    BY <1>3, LaterSame DEF PressEnter
  <1>4. CASE ~t.dialog /\ ~(t.mode \/ t.pasting \/ t.composer = <<>>)
    <2>1. CASE u = [t EXCEPT !.turns = Append(@, Turn(b, t.composer)), !.composer = <<>>]
      BY <2>1, TakesTurn
    <2>2. CASE \E x \in {v \in {t.upsets + 1} : Upset(t, "absorb")} : u = [t EXCEPT !.upsets = x]
      <3>1. PICK x \in {v \in {t.upsets + 1} : Upset(t, "absorb")} : u = [t EXCEPT !.upsets = x]
        BY <2>2
      <3>2. x \in 0..MaxUpsets /\ x = t.upsets + 1
        BY OneUpset
      <3>3. /\ u \in Screens /\ u.turns = t.turns /\ u.upsets = x
            /\ u.cut = t.cut /\ u.pasting = t.pasting
        BY <3>1, <3>2 DEF Screens
      <3> QED BY <3>2, <3>3, MeetsUpset
    <2> QED BY <1>4, <2>1, <2>2 DEF PressEnter
  <1> QED BY <1>2, <1>3, <1>4

LEMMA PasteGood ==
  ASSUME NEW t \in Screens, NEW d \in Texts, NEW u \in PressPaste(t, d)
  PROVE  u \in Screens /\ Later(t, u)
PROOF
  <1>1. t.upsets \in Nat /\ t.upsets <= t.upsets
    BY PromptConstants DEF Screens
  <1>2. t.composer \o d \in Texts
    BY DEF Screens, Texts
  <1>3. CASE Covered(t)
    BY <1>3, LaterSame DEF PressPaste
  <1>4. CASE ~Covered(t)
    <2>1. CASE u = [t EXCEPT !.composer = @ \o d, !.pasting = FALSE]
      <3>1. u \in Screens /\ Quiet(t, u)
        BY <1>2, <2>1 DEF Screens, Quiet
      <3> QED BY <1>1, <3>1, KeepsTurns
    <2>2. CASE \E x \in {v \in {t.upsets + 1} : Upset(t, "cut")} :
                 u = [t EXCEPT !.composer = @ \o d, !.pasting = TRUE, !.cut = TRUE, !.upsets = x]
      <3>1. PICK x \in {v \in {t.upsets + 1} : Upset(t, "cut")} :
                 u = [t EXCEPT !.composer = @ \o d, !.pasting = TRUE, !.cut = TRUE, !.upsets = x]
        BY <2>2
      <3>2. x \in 0..MaxUpsets /\ x = t.upsets + 1
        BY OneUpset
      <3>3. /\ u \in Screens /\ u.turns = t.turns /\ u.upsets = x
            /\ u.cut /\ u.alive = t.alive /\ u.dialog = t.dialog /\ u.mode = t.mode
        BY <1>2, <3>1, <3>2 DEF Screens
      <3> QED BY <3>2, <3>3, MeetsUpset
    <2> QED BY <1>4, <2>1, <2>2 DEF PressPaste
  <1> QED BY <1>3, <1>4

LEMMA AltUpGood ==
  ASSUME NEW t \in Screens, NEW u \in PressAltUp(t)
  PROVE  u \in Screens /\ Later(t, u)
PROOF
  <1>1. CASE Covered(t) \/ t.queue = <<>>
    BY <1>1, LaterSame DEF PressAltUp
  <1>2. CASE ~(Covered(t) \/ t.queue = <<>>)
    <2>1. u = [t EXCEPT !.composer = Last(t.queue), !.queue = Front(@)]
      BY <1>2 DEF PressAltUp
    <2>2. Last(t.queue) \in Texts /\ Front(t.queue) \in Seq(Texts)
      <3>1. t.queue \in Seq(Texts) /\ t.queue # <<>>
        BY <1>2 DEF Screens
      <3> QED BY <3>1 DEF Last, Front
    <2>3. u \in Screens /\ Quiet(t, u)
      BY <2>1, <2>2 DEF Screens, Quiet
    <2>4. t.upsets <= t.upsets
      BY PromptConstants DEF Screens
    <2> QED BY <2>3, <2>4, KeepsTurns
  <1> QED BY <1>1, <1>2

(* What kinds of keys there are. *)
LEMMA KeyKinds ==
  ASSUME NEW k \in Keys
  PROVE  \/ k = Wipe \/ k = PasteEnd \/ k = Tab \/ k = Esc \/ k = AltUp
         \/ \E b \in Subs \cup {Person} : k = Enter(b)
         \/ \E d \in Texts : k = Paste(d)
         \/ \E n \in 1..MaxTyped : k = Word(n)
BY DEF Keys

(* What a screen does with each of them. *)
LEMMA PressOne ==
  ASSUME NEW t, t.alive
  PROVE  /\ \A u \in Press(t, Wipe) : IF Covered(t) \/ t.pasting THEN u = t ELSE u = [t EXCEPT !.composer = <<>>]
         /\ \A u \in Press(t, PasteEnd) : u = [t EXCEPT !.pasting = FALSE]
         /\ \A u \in Press(t, Tab) : IF Covered(t) \/ t.pasting \/ t.composer = <<>> THEN u = t
                             ELSE u = [t EXCEPT !.queue = Append(@, t.composer), !.composer = <<>>]
         /\ \A u \in Press(t, Esc) : u = [t EXCEPT !.mode = FALSE] \/ u = [t EXCEPT !.mode = t.mode]
         /\ Press(t, AltUp) = PressAltUp(t)
BY DEF Press, Wipe, PasteEnd, Tab, Esc, AltUp

LEMMA PressEnterKey ==
  ASSUME NEW t, t.alive, NEW b
  PROVE  Press(t, Enter(b)) = PressEnter(t, b)
BY DEF Press, Enter

LEMMA PressPasteKey ==
  ASSUME NEW t, t.alive, NEW d
  PROVE  Press(t, Paste(d)) = PressPaste(t, d)
BY DEF Press, Paste

LEMMA PressWordKey ==
  ASSUME NEW t, t.alive, NEW n, NEW u \in Press(t, Word(n))
  PROVE  IF Covered(t) THEN u = t ELSE u = [t EXCEPT !.composer = Append(@, Word(n))]
BY DEF Press, Word

LEMMA PressGood ==
  ASSUME NEW t \in Screens, NEW k \in Keys, NEW u \in Press(t, k)
  PROVE  u \in Screens /\ Later(t, u)
PROOF
  <1>1. CASE ~t.alive
    BY <1>1, LaterSame DEF Press
  <1> SUFFICES ASSUME t.alive PROVE u \in Screens /\ Later(t, u)
    BY <1>1
  <1>2. t.upsets \in Nat /\ t.upsets <= t.upsets /\ t.composer \in Texts /\ <<>> \in Texts
        /\ t.mode \in BOOLEAN
    BY PromptConstants DEF Screens, Texts
  <1>3. CASE k = Wipe
    <2>1. u = t \/ u = [t EXCEPT !.composer = <<>>]
      BY <1>3, PressOne
    <2>2. u \in Screens /\ Quiet(t, u)
      BY <1>2, <2>1 DEF Screens, Quiet
    <2> QED BY <1>2, <2>2, KeepsTurns
  <1>4. CASE k = PasteEnd
    <2>1. u = [t EXCEPT !.pasting = FALSE]
      BY <1>4, PressOne
    <2>2. u \in Screens /\ Quiet(t, u)
      BY <1>2, <2>1 DEF Screens, Quiet
    <2> QED BY <1>2, <2>2, KeepsTurns
  <1>5. CASE k = Tab
    <2>1. u = t \/ u = [t EXCEPT !.queue = Append(@, t.composer), !.composer = <<>>]
      BY <1>5, PressOne
    <2>2. Append(t.queue, t.composer) \in Seq(Texts)
      BY <1>2 DEF Screens
    <2>3. u \in Screens /\ Quiet(t, u)
      BY <1>2, <2>1, <2>2 DEF Screens, Quiet
    <2> QED BY <1>2, <2>3, KeepsTurns
  <1>6. CASE k = Esc
    <2>1. u = [t EXCEPT !.mode = FALSE] \/ u = [t EXCEPT !.mode = t.mode]
      BY <1>6, PressOne
    <2>2. u \in Screens /\ Quiet(t, u)
      BY <1>2, <2>1 DEF Screens, Quiet
    <2> QED BY <1>2, <2>2, KeepsTurns
  <1>7. CASE k = AltUp
    BY <1>7, PressOne, AltUpGood
  <1>8. CASE \E b \in Subs \cup {Person} : k = Enter(b)
    <2>1. PICK b \in Subs \cup {Person} : k = Enter(b)
      BY <1>8
    <2> QED BY <2>1, PressEnterKey, EnterGood
  <1>9. CASE \E d \in Texts : k = Paste(d)
    <2>1. PICK d \in Texts : k = Paste(d)
      BY <1>9
    <2> QED BY <2>1, PressPasteKey, PasteGood
  <1>10. CASE \E n \in 1..MaxTyped : k = Word(n)
    <2>1. PICK n \in 1..MaxTyped : k = Word(n)
      BY <1>10
    <2>2. Append(t.composer, Word(n)) \in Texts
      BY <1>2 DEF Texts, Pieces
    <2>3. u = t \/ u = [t EXCEPT !.composer = Append(@, Word(n))]
      BY <2>1, PressWordKey
    <2>4. u \in Screens /\ Quiet(t, u)
      BY <2>2, <2>3 DEF Screens, Quiet
    <2> QED BY <1>2, <2>4, KeepsTurns
  <1> QED BY <1>3, <1>4, <1>5, <1>6, <1>7, <1>8, <1>9, <1>10, KeyKinds

(* Pressed, key by key. *)
LEMMA PressedSteps ==
  ASSUME tui \in Screens, NEW keys \in Seq(Keys)
  PROVE  \E after \in [0..Len(keys) -> SUBSET Screens] :
           /\ after[0] = {tui} /\ Pressed(keys) = after[Len(keys)]
           /\ \A n \in 1..Len(keys) : after[n] = UNION {Press(t, keys[n]) : t \in after[n - 1]}
PROOF
  <1> DEFINE n == Len(keys)
             F == [p \in (1..n) \X (SUBSET Screens) |-> UNION {Press(t, keys[p[1]]) : t \in p[2]}]
             Runs(g) == g = [i \in 0..n |-> IF i = 0 THEN {tui} ELSE UNION {Press(t, keys[i]) : t \in g[i - 1]}]
  <1>1. n \in Nat /\ \A i \in 1..n : keys[i] \in Keys
    OBVIOUS
  <1>2. F \in [(1..n) \X (SUBSET Screens) -> SUBSET Screens]
    <2> SUFFICES ASSUME NEW i \in 1..n, NEW T \in SUBSET Screens
                 PROVE  UNION {Press(t, keys[i]) : t \in T} \subseteq Screens
      OBVIOUS
    <2> QED BY <1>1, PressGood
  <1>3. {tui} \in SUBSET Screens
    OBVIOUS
  <1>4. PICK g \in [0..n -> SUBSET Screens] : g[0] = {tui} /\ \A i \in 1..n : g[i] = F[<<i, g[i - 1]>>]
    <2> DEFINE D == SUBSET Screens
               d == {tui}
    <2>1. n \in Nat /\ d \in D /\ IsStep(F, n, D)
      BY <1>1, <1>2, <1>3 DEF IsStep
    <2> HIDE DEF n, F, D, d
    <2>2. PICK g : IsRun(g, n, D, d, F)
      BY <2>1, Recursion
    <2> QED BY <2>2 DEF D, d, IsRun
  <1>5. \A i \in 1..n : g[i] = UNION {Press(t, keys[i]) : t \in g[i - 1]}
    <2> SUFFICES ASSUME NEW i \in 1..n PROVE g[i] = UNION {Press(t, keys[i]) : t \in g[i - 1]}
      OBVIOUS
    <2>1. i - 1 \in 0..n
      BY <1>1
    <2>2. g[i - 1] \in SUBSET Screens
      BY <1>4, <2>1
    <2>3. F[<<i, g[i - 1]>>] = UNION {Press(t, keys[i]) : t \in g[i - 1]}
      BY <2>2
    <2> QED BY <1>4, <2>3
  <1>6. Runs(g)
    BY <1>1, <1>4, <1>5
  <1> DEFINE after == CHOOSE h : Runs(h)
  <1>7. Runs(after)
    BY <1>6
  <1>8. Pressed(keys) = after[n]
    BY DEF Pressed
  <1> HIDE DEF after
  <1>9. after = g
    <2>1. after = [i \in 0..n |-> IF i = 0 THEN {tui} ELSE UNION {Press(t, keys[i]) : t \in after[i - 1]}]
      BY <1>7
    <2> HIDE DEF n
    <2>2. 0 \in 0..n /\ \A i \in 1..n : i \in 0..n /\ i # 0
      BY <1>1
    <2>3. after[0] = {tui}
          /\ \A i \in 1..n : after[i] = UNION {Press(t, keys[i]) : t \in after[i - 1]}
      BY <2>1, <2>2
    <2>4. \A i \in 1..n : after[i - 1] = g[i - 1] => after[i] = g[i]
      BY <1>5, <2>3
    <2>5. \A i \in 0..n : after[i] = g[i]
      <3>1. StepAlike(n, after, g)
        BY <1>4, <2>3, <2>4 DEF StepAlike
      <3> QED BY <1>1, <3>1, SameRun
    <2>6. after = [i \in 0..n |-> after[i]]
      BY <2>1
    <2> QED BY <2>5, <2>6, <1>4
  <1> QED BY <1>4, <1>5, <1>8, <1>9

(* What is true of the screen, and kept by every key, is true when all are pressed. *)
LEMMA PressedGood ==
  ASSUME tui \in Screens, NEW keys \in Seq(Keys), NEW u \in Pressed(keys)
  PROVE  u \in Screens /\ Later(tui, u)
PROOF
  <1> DEFINE n == Len(keys)
  <1>1. PICK after \in [0..n -> SUBSET Screens] :
           /\ after[0] = {tui} /\ Pressed(keys) = after[n]
           /\ \A i \in 1..n : after[i] = UNION {Press(t, keys[i]) : t \in after[i - 1]}
    BY PressedSteps
  <1>2. n \in Nat /\ \A i \in 1..n : keys[i] \in Keys
    OBVIOUS
  <1> HIDE DEF n
  <1> DEFINE S == {i \in Nat : i <= n => \A v \in after[i] : Later(tui, v)}
  <1>3. 0 \in S
    BY <1>1, LaterSame
  <1>4. ASSUME NEW i \in Nat, i \in S PROVE i + 1 \in S
    <2> SUFFICES ASSUME i + 1 <= n, NEW v \in after[i + 1] PROVE Later(tui, v)
      BY i + 1 \in Nat
    <2>1. i \in 0..n /\ i + 1 \in 1..n /\ (i + 1) - 1 = i /\ i <= n
      BY <1>2
    <2>2. PICK t \in after[i] : v \in Press(t, keys[i + 1])
      BY <1>1, <2>1
    <2>3. t \in Screens /\ Later(tui, t)
      BY <1>1, <1>4, <2>1
    <2>4. v \in Screens /\ Later(t, v)
      BY <1>2, <2>1, <2>2, <2>3, PressGood
    <2> QED BY <2>3, <2>4, LaterTwice
  <1> HIDE DEF S
  <1>5. Nat \subseteq S
    BY <1>3, <1>4, Induction
  <1>6. n \in 0..n /\ n <= n
    BY <1>2
  <1> QED BY <1>1, <1>2, <1>5, <1>6 DEF S

-----------------------------------------------------------------------------
(* The tracker *)

LEMMA TrackGood ==
  ASSUME NEW d \in Texts, NEW k \in Keys
  PROVE  Track(d, k) \in Texts
PROOF
  <1>1. <<>> \in Texts /\ \A e \in Texts : d \o e \in Texts
    BY DEF Texts
  <1>2. CASE k \in {Wipe, PasteEnd, Tab, Esc, AltUp}
    BY <1>1, <1>2 DEF Track, Wipe, PasteEnd, Tab, Esc, AltUp
  <1>3. CASE \E b \in Subs \cup {Person} : k = Enter(b)
    BY <1>1, <1>3 DEF Track, Enter
  <1>4. CASE \E e \in Texts : k = Paste(e)
    <2>1. PICK e \in Texts : k = Paste(e)
      BY <1>4
    <2>2. Track(d, k) = d \o e
      BY <2>1 DEF Track, Paste
    <2> QED BY <1>1, <2>2
  <1>5. CASE \E n \in 1..MaxTyped : k = Word(n)
    <2>1. PICK n \in 1..MaxTyped : k = Word(n)
      BY <1>5
    <2>2. Track(d, k) = Append(d, k)
      BY <2>1 DEF Track, Word
    <2>3. k \in Pieces
      BY <2>1 DEF Pieces
    <2> QED BY <2>2, <2>3 DEF Texts
  <1> QED BY <1>2, <1>3, <1>4, <1>5, KeyKinds

(* Tracked, key by key. *)
LEMMA TrackedSteps ==
  ASSUME NEW d \in Texts, NEW keys \in Seq(Keys)
  PROVE  \E after \in [0..Len(keys) -> Texts] :
           /\ after[0] = d /\ Tracked(d, keys) = after[Len(keys)]
           /\ \A n \in 1..Len(keys) : after[n] = Track(after[n - 1], keys[n])
PROOF
  <1> DEFINE n == Len(keys)
             F == [p \in (1..n) \X Texts |-> Track(p[2], keys[p[1]])]
             Runs(g) == g = [i \in 0..n |-> IF i = 0 THEN d ELSE Track(g[i - 1], keys[i])]
  <1>1. n \in Nat /\ \A i \in 1..n : keys[i] \in Keys
    OBVIOUS
  <1>2. IsStep(F, n, Texts)
    <2> SUFFICES ASSUME NEW i \in 1..n, NEW e \in Texts PROVE Track(e, keys[i]) \in Texts
      BY DEF IsStep
    <2> QED BY <1>1, TrackGood
  <1>3. PICK g : IsRun(g, n, Texts, d, F)
    <2> HIDE DEF n, F
    <2> QED BY <1>1, <1>2, Recursion
  <1>4. g \in [0..n -> Texts] /\ g[0] = d
    BY <1>3 DEF IsRun
  <1>5. ASSUME NEW i \in 1..n PROVE g[i] = Track(g[i - 1], keys[i])
    <2>1. i - 1 \in 0..n
      BY <1>1
    <2>2. g[i - 1] \in Texts
      BY <1>4, <2>1
    <2>3. F[<<i, g[i - 1]>>] = Track(g[i - 1], keys[i])
      BY <2>2
    <2> QED BY <1>3, <2>3 DEF IsRun
  <1>6. Runs(g)
    BY <1>1, <1>4, <1>5
  <1> DEFINE after == CHOOSE h : Runs(h)
  <1>7. Runs(after)
    BY <1>6
  <1>8. Tracked(d, keys) = after[n]
    BY DEF Tracked
  <1> HIDE DEF after
  <1>9. after = g
    <2>1. after = [i \in 0..n |-> IF i = 0 THEN d ELSE Track(after[i - 1], keys[i])]
      BY <1>7
    <2> HIDE DEF n
    <2>2. 0 \in 0..n /\ \A i \in 1..n : i \in 0..n /\ i # 0
      BY <1>1
    <2>3. after[0] = d /\ \A i \in 1..n : after[i] = Track(after[i - 1], keys[i])
      BY <2>1, <2>2
    <2>4. \A i \in 1..n : after[i - 1] = g[i - 1] => after[i] = g[i]
      BY <1>5, <2>3
    <2>5. \A i \in 0..n : after[i] = g[i]
      <3>1. StepAlike(n, after, g)
        BY <1>4, <2>3, <2>4 DEF StepAlike
      <3> QED BY <1>1, <3>1, SameRun
    <2>6. after = [i \in 0..n |-> after[i]]
      BY <2>1
    <2> QED BY <2>5, <2>6, <1>4
  <1> QED BY <1>4, <1>5, <1>8, <1>9

LEMMA TrackedGood ==
  ASSUME NEW d \in Texts, NEW keys \in Seq(Keys)
  PROVE  Tracked(d, keys) \in Texts
PROOF
  <1>1. PICK after \in [0..Len(keys) -> Texts] : Tracked(d, keys) = after[Len(keys)]
    BY TrackedSteps
  <1> QED BY <1>1

-----------------------------------------------------------------------------
(* Types *)

SubRecs == [kind : SubKinds, text : Nat, kept : Texts, polls : 0..(MaxPolls - 1), presses : Nat, seen : BOOLEAN,
            outcome : Outcomes, rows : Seq(Texts), todo : Seq(Seq(Hands))]

ScreenInv == tui \in Screens /\ recorded \in 0..Len(tui.turns) /\ draft \in Texts

SubInv == /\ sub \in [Subs -> SubRecs]
          /\ \A i \in Subs : /\ sub[i].presses <= sub[i].polls
                             /\ Edits(i) => sub[i].rows # <<>>

TypeInv == TypingInv /\ LockInv /\ ScreenInv /\ SubInv

(* What the person types is keys. *)
LEMMA UserKeysAreKeys ==
  ASSUME NEW s \in Seq(UserKeys)
  PROVE  s \in Seq(Keys)
PROOF
  <1>1. UserKeys \subseteq Keys
    BY DEF UserKeys, Keys
  <1> QED BY <1>1

LEMMA OwnKeys ==
  ASSUME NEW i \in Subs
  PROVE  /\ <<Prompt(i)>> \in Texts
         /\ \A d \in Texts : <<Wipe, Paste(d)>> \in Seq(Keys)
         /\ <<Wipe>> \in Seq(Keys) /\ <<AltUp>> \in Seq(Keys) /\ <<Tab>> \in Seq(Keys) /\ <<Esc>> \in Seq(Keys)
         /\ <<Enter(i)>> \in Seq(Keys) /\ RetryKeys(i) \in Seq(Keys)
PROOF
  <1>1. /\ Wipe \in Keys /\ AltUp \in Keys /\ Tab \in Keys /\ Esc \in Keys /\ PasteEnd \in Keys
        /\ Enter(i) \in Keys /\ \A d \in Texts : Paste(d) \in Keys
    BY DEF Keys
  <1>2. Prompt(i) \in Pieces
    BY DEF Pieces
  <1>3. <<PasteEnd>> \o <<Enter(i)>> \in Seq(Keys) /\ <<>> \o <<Enter(i)>> \in Seq(Keys)
    BY <1>1
  <1> QED BY <1>1, <1>2, <1>3 DEF Texts, RetryKeys

(* What a queue edit is written with. *)
LEMMA OwnHands ==
  /\ \A d \in Texts : <<Wipe, Paste(d)>> \in Seq(Hands)
  /\ <<Wipe>> \in Seq(Hands) /\ <<AltUp>> \in Seq(Hands) /\ <<Tab>> \in Seq(Hands) /\ <<Esc>> \in Seq(Hands)
PROOF
  <1>1. Wipe \in Hands /\ AltUp \in Hands /\ Tab \in Hands /\ Esc \in Hands /\ \A d \in Texts : Paste(d) \in Hands
    BY DEF Hands
  <1> QED BY <1>1

(* A queue edit pops a row, and its last keys leave an empty composer. *)
LEMMA PlanGood ==
  ASSUME SubInv, NEW i \in Subs, Edits(i)
  PROVE  /\ Plan(i) \in Seq(Seq(Hands)) /\ Len(Plan(i)) > 1
         /\ Head(Plan(i)) = <<AltUp>>
         /\ Plan(i)[Len(Plan(i))] \in {<<Wipe>>, <<Tab>>}
PROOF
  <1> DEFINE rows == sub[i].rows
             D == Seq(Hands)
             pops == [r \in DOMAIN rows |-> <<AltUp>>]
             wipe == << <<Wipe>> >>
             new == IF sub[i].kind = "replace" THEN Requeue(<<Prompt(i)>>) ELSE <<>>
             olds == [r \in DOMAIN Tail(rows) |-> Requeue(Tail(rows)[r])]
             back == FlattenSeq(olds)
  <1>1. rows \in Seq(Texts) /\ rows # <<>>
    <2>1. sub[i] \in SubRecs
      BY DEF SubInv
    <2>2. rows # <<>>
      BY DEF SubInv
    <2>3. rows \in Seq(Texts)
      BY <2>1 DEF SubRecs
    <2> QED BY <2>2, <2>3
  <1>2. Plan(i) = pops \o wipe \o new \o back
    BY DEF Plan
  <1>3. ASSUME NEW text \in Texts
        PROVE  Requeue(text) \in Seq(D) /\ Requeue(text) # <<>> /\ Requeue(text)[Len(Requeue(text))] = <<Tab>>
    <2>1. <<Wipe, Paste(text)>> \in D /\ <<Tab>> \in D
      BY OwnHands
    <2> HIDE DEF D
    <2> QED BY <2>1 DEF Requeue
  <1>4. <<AltUp>> \in D /\ <<Wipe>> \in D
    BY OwnHands
  <1> HIDE DEF D
  <1>5. pops \in Seq(D) /\ Len(pops) >= 1 /\ pops[1] = <<AltUp>> /\ wipe \in Seq(D)
    <2>1. Len(rows) \in Nat /\ Len(rows) >= 1 /\ DOMAIN rows = 1..Len(rows)
      BY <1>1
    <2>2. pops \in [1..Len(rows) -> D]
      BY <1>4, <2>1
    <2> QED BY <1>4, <2>1, <2>2
  <1>6. new \in Seq(D) /\ (new # <<>> => new[Len(new)] = <<Tab>>)
    BY <1>3, OwnKeys
  <1>7. olds \in Seq(Seq(D)) /\ \A r \in DOMAIN olds : olds[r] # <<>> /\ olds[r][Len(olds[r])] = <<Tab>>
    <2>1. Tail(rows) \in Seq(Texts)
      BY <1>1
    <2>2. Len(Tail(rows)) \in Nat /\ DOMAIN Tail(rows) = 1..Len(Tail(rows))
          /\ \A r \in 1..Len(Tail(rows)) : Tail(rows)[r] \in Texts
      BY <2>1
    <2>3. olds \in [1..Len(Tail(rows)) -> Seq(D)]
      BY <1>3, <2>2
    <2>4. \A r \in DOMAIN olds : olds[r] = Requeue(Tail(rows)[r]) /\ r \in 1..Len(Tail(rows))
      BY <2>2
    <2> HIDE DEF olds
    <2> QED BY <1>3, <2>2, <2>3, <2>4, SMTT(20)
  <1> HIDE DEF pops, wipe, new, olds
  <1>8. back \in Seq(D) /\ (back # <<>> => back[Len(back)] = <<Tab>>)
    <2>1. CASE olds = <<>>
      <3>1. back = <<>>
        BY <2>1, FlattenEmpty
      <3> HIDE DEF back
      <3> QED BY <3>1
    <2>2. CASE olds # <<>>
      <3> DEFINE last == olds[Len(olds)]
      <3>1. Len(olds) \in DOMAIN olds
        BY <1>7, <2>2
      <3>2. last # <<>> /\ last[Len(last)] = <<Tab>>
        BY <1>7, <3>1
      <3>3. back[Len(back)] = last[Len(last)]
        BY <1>7, <2>2, <3>2, FlattenLast
      <3>4. back \in Seq(D)
        BY <1>7, FlattenTypes
      <3> HIDE DEF back, last
      <3> QED BY <3>2, <3>3, <3>4
    <2> QED BY <2>1, <2>2
  <1> HIDE DEF back
  <1>9. wipe # <<>> /\ wipe[Len(wipe)] = <<Wipe>> /\ Len(wipe) = 1
    BY DEF wipe
  <1>10. pops \o wipe \in Seq(D) /\ (pops \o wipe)[Len(pops \o wipe)] = <<Wipe>>
         /\ Len(pops \o wipe) > 1 /\ (pops \o wipe)[1] = <<AltUp>>
    <2>1. Len(pops) \in Nat /\ pops # <<>>
      BY <1>5
    <2> QED BY <1>5, <1>9, <2>1, JoinEnds
  <1> DEFINE a == pops \o wipe
             b == a \o new
  <1>11. b \in Seq(D) /\ b[Len(b)] \in {<<Wipe>>, <<Tab>>} /\ Len(b) > 1 /\ b[1] = <<AltUp>>
    <2>1. a \in Seq(D) /\ a[Len(a)] = <<Wipe>> /\ Len(a) > 1 /\ a[1] = <<AltUp>>
      BY <1>10
    <2> HIDE DEF a
    <2>2. a # <<>> /\ Len(a) \in Nat /\ Len(new) \in Nat
      BY <1>6, <2>1
    <2>3. CASE new = <<>>
      BY <2>1, <2>3, JoinEnds
    <2>4. CASE new # <<>>
      <3>1. /\ a \o new \in Seq(D) /\ Len(a \o new) = Len(a) + Len(new)
            /\ (a \o new)[1] = a[1] /\ (a \o new)[Len(a \o new)] = new[Len(new)]
        BY <1>6, <2>1, <2>2, <2>4, JoinEnds
      <3>2. b = a \o new /\ new[Len(new)] = <<Tab>> /\ Len(a) + Len(new) > 1
        BY <1>6, <2>1, <2>2, <2>4
      <3> HIDE DEF b
      <3> QED BY <2>1, <3>1, <3>2
    <2> QED BY <2>3, <2>4
  <1> HIDE DEF b
  <1>12. (b \o back) \in Seq(D) /\ Len(b \o back) > 1 /\ (b \o back)[1] = <<AltUp>>
         /\ (b \o back)[Len(b \o back)] \in {<<Wipe>>, <<Tab>>}
    <2>1. b # <<>> /\ Len(b) \in Nat /\ Len(back) \in Nat
      BY <1>8, <1>11
    <2>2. CASE back = <<>>
      BY <1>11, <2>2, JoinEnds
    <2>3. CASE back # <<>>
      BY <1>8, <1>11, <2>1, <2>3, JoinEnds
    <2> QED BY <2>2, <2>3
  <1>13. Plan(i) = b \o back
    BY <1>2 DEF b
  <1> QED BY <1>12, <1>13, SMTT(20) DEF D

(* What is written reaches the screen. *)
LEMMA Writes ==
  ASSUME ScreenInv, NEW keys \in Seq(Keys), WriteAll(keys)
  PROVE  tui' \in Screens /\ Later(tui, tui') /\ recorded \in 0..Len(tui'.turns)
PROOF
  <1>1. tui' \in Screens /\ Later(tui, tui')
    BY PressedGood DEF ScreenInv, WriteAll
  <1>2. Len(tui.turns) \in Nat /\ Len(tui'.turns) \in Nat
    BY <1>1 DEF ScreenInv, Screens
  <1> QED BY <1>1, <1>2 DEF ScreenInv, Later

LEMMA ScreenSame == ScreenInv => Later(tui, tui)
BY LaterSame DEF ScreenInv

(* What End writes after the prompt's own last keys. *)
Back(i, d, landed) == (IF landed THEN PutBack(d, sub[i].kept) ELSE <<>>) \o held

LEMMA BackGood ==
  ASSUME TypeInv, NEW i \in Subs, NEW d, NEW landed \in BOOLEAN
  PROVE  Back(i, d, landed) \in Seq(Keys)
PROOF
  <1>1. held \in Seq(Keys)
    BY UserKeysAreKeys DEF TypeInv, TypingInv
  <1>2. sub[i].kept \in Texts
    <2>1. sub[i] \in SubRecs
      BY DEF TypeInv, SubInv
    <2> QED BY <2>1 DEF SubRecs
  <1>3. PutBack(d, sub[i].kept) \in Seq(Keys)
    <2>1. <<Wipe, Paste(sub[i].kept)>> \in Seq(Keys) /\ <<>> \in Seq(Keys)
      <3>1. Wipe \in Keys /\ Paste(sub[i].kept) \in Keys
        BY <1>2 DEF Keys
      <3> QED BY <3>1
    <2> QED BY <2>1 DEF PutBack
  <1> QED BY <1>1, <1>3 DEF Back

LEMMA EndScreen ==
  ASSUME TypeInv, NEW i \in Subs, NEW written \in Seq(Keys), NEW d \in Texts, NEW landed \in BOOLEAN,
         NEW outcome, End(i, written, d, landed, outcome)
  PROVE  ScreenInv' /\ Later(tui, tui')
PROOF
  <1> DEFINE back == Back(i, d, landed)
  <1>1. back \in Seq(Keys)
    BY BackGood
  <1>2. WriteAll(written \o back) /\ draft' = Tracked(d, back) /\ recorded' = recorded
    BY DEF End, Back
  <1> HIDE DEF back
  <1>3. written \o back \in Seq(Keys)
    BY <1>1
  <1>4. tui' \in Screens /\ Later(tui, tui') /\ recorded \in 0..Len(tui'.turns)
    BY <1>2, <1>3, Writes DEF TypeInv
  <1>5. draft' \in Texts
    BY <1>1, <1>2, TrackedGood
  <1> QED BY <1>2, <1>4, <1>5 DEF ScreenInv

LEMMA GoInScreen ==
  ASSUME TypeInv, NEW i \in Subs, GoIn(i)
  PROVE  ScreenInv' /\ Later(tui, tui')
PROOF
  <1> DEFINE keys == IF Edits(i) THEN Head(Plan(i)) ELSE <<Wipe, Paste(<<Prompt(i)>>)>>
  <1>1. keys \in Seq(Keys)
    <2>1. CASE Edits(i)
      BY <2>1, PlanGood, OwnKeys DEF TypeInv
    <2>2. CASE ~Edits(i)
      BY <2>2, OwnKeys
    <2> QED BY <2>1, <2>2
  <1>2. WriteAll(keys) /\ draft' = Tracked(draft, keys) /\ recorded' = recorded
    BY DEF GoIn
  <1> HIDE DEF keys
  <1>3. tui' \in Screens /\ Later(tui, tui') /\ recorded \in 0..Len(tui'.turns)
    BY <1>1, <1>2, Writes DEF TypeInv
  <1>4. draft' \in Texts
    BY <1>1, <1>2, TrackedGood DEF TypeInv, ScreenInv
  <1> QED BY <1>2, <1>3, <1>4 DEF ScreenInv

LEMMA RetryScreen ==
  ASSUME TypeInv, NEW i \in Subs, Retry(i)
  PROVE  ScreenInv' /\ Later(tui, tui')
PROOF
  <1> DEFINE given == GivenTyping(i)
             d == Tracked(draft, given)
             press == MayPress(i, d)
             own == IF press THEN RetryKeys(i) ELSE <<>>
  <1>1. given \in Seq(Keys)
    BY UserKeysAreKeys DEF TypeInv, TypingInv, GivenTyping
  <1>2. own \in Seq(Keys) /\ <<Prompt(i)>> \in Texts /\ <<>> \in Texts
    BY OwnKeys DEF Texts
  <1>3. d \in Texts
    BY <1>1, TrackedGood DEF TypeInv, ScreenInv
  <1>4. WriteAll(given \o own) /\ recorded' = recorded
    BY DEF Retry
  <1>5. draft' \in {<<>>, d} \/ \E s \in BOOLEAN : draft' \in {Restored(i, <<>>, s), Restored(i, d, s)}
    BY DEF Retry
  <1> HIDE DEF given, own, d
  <1>6. given \o own \in Seq(Keys)
    BY <1>1, <1>2
  <1>7. tui' \in Screens /\ Later(tui, tui') /\ recorded \in 0..Len(tui'.turns)
    BY <1>4, <1>6, Writes DEF TypeInv
  <1>8. draft' \in Texts
    BY <1>2, <1>3, <1>5 DEF Restored
  <1> QED BY <1>4, <1>7, <1>8 DEF ScreenInv

LEMMA TypeScreen ==
  ASSUME TypeInv, NEW key \in UserKeys, Type(key)
  PROVE  ScreenInv' /\ Later(tui, tui')
PROOF
  <1>1. CASE goingIn
    <2>1. UNCHANGED <<tui, draft, recorded>>
      BY <1>1 DEF Type
    <2> QED BY <2>1, ScreenSame DEF TypeInv, ScreenInv
  <1>2. CASE ~goingIn
    <2>1. WriteAll(<<key>>) /\ draft' = Track(draft, key) /\ recorded' = recorded
      BY <1>2 DEF Type
    <2>2. key \in Keys /\ <<key>> \in Seq(Keys)
      BY DEF UserKeys, Keys
    <2>3. tui' \in Screens /\ Later(tui, tui') /\ recorded \in 0..Len(tui'.turns)
      BY <2>1, <2>2, Writes DEF TypeInv
    <2>4. draft' \in Texts
      BY <2>1, <2>2, TrackGood DEF TypeInv, ScreenInv
    <2> QED BY <2>1, <2>3, <2>4 DEF ScreenInv
  <1> QED BY <1>1, <1>2

LEMMA AgentScreen ==
  ASSUME TypeInv, ScreenChanges \/ QueueDrains \/ TurnRecorded
  PROVE  ScreenInv' /\ Later(tui, tui')
PROOF
  <1> USE DEF TypeInv
  <1>1. /\ tui \in Screens /\ tui.upsets \in Nat /\ Len(tui.turns) \in Nat
        /\ recorded \in 0..Len(tui.turns) /\ draft \in Texts
    BY PromptConstants DEF ScreenInv, Screens
  <1>2. CASE ScreenChanges
    <2>1. PICK name : Upset(tui, name)
      BY <1>2 DEF ScreenChanges
    <2>2. tui.upsets + 1 \in 0..MaxUpsets
      BY <1>1, <2>1, PromptConstants DEF Upset
    <2>3. /\ tui' \in Screens /\ tui'.turns = tui.turns /\ tui'.upsets = tui.upsets + 1
          /\ tui'.cut = tui.cut /\ tui'.pasting = tui.pasting
      BY <1>1, <1>2, <2>2 DEF ScreenChanges, Screens
    <2>4. Later(tui, tui')
      BY <1>1, <2>3, MeetsUpset
    <2> QED BY <1>1, <1>2, <2>3, <2>4 DEF ScreenInv, ScreenChanges
  <1>3. CASE QueueDrains
    <2> DEFINE turn == Turn(Person, Head(tui.queue))
    <2>1. tui' = [tui EXCEPT !.turns = Append(@, turn), !.queue = Tail(@)]
      BY <1>3 DEF QueueDrains
    <2>2. tui.queue \in Seq(Texts) /\ tui.queue # <<>>
      BY <1>1, <1>3 DEF QueueDrains, Screens
    <2>3. turn \in Turns /\ Tail(tui.queue) \in Seq(Texts)
      BY <2>2 DEF Turn, Turns
    <2> HIDE DEF turn
    <2>4. /\ Append(tui.turns, turn) \in Seq(Turns) /\ Len(Append(tui.turns, turn)) = Len(tui.turns) + 1
          /\ \A n \in 1..Len(tui.turns) : Append(tui.turns, turn)[n] = tui.turns[n]
      BY <1>1, <2>3 DEF Screens
    <2>5. /\ tui' \in Screens /\ tui'.turns = Append(tui.turns, turn)
          /\ tui'.upsets = tui.upsets /\ tui'.cut = tui.cut /\ tui'.pasting = tui.pasting
          /\ tui'.dialog = tui.dialog /\ tui'.mode = tui.mode /\ tui'.alive = tui.alive
      BY <1>1, <2>1, <2>3, <2>4 DEF Screens
    <2>6. Sound(tui) => Sound(tui')
      BY <2>5 DEF Sound, Calm, Fine, Covered
    <2>7. Len(tui.turns) <= Len(tui.turns) + 1 /\ tui.upsets <= tui.upsets
      BY <1>1
    <2>8. Later(tui, tui')
      BY <2>4, <2>5, <2>6, <2>7 DEF Later
    <2>9. recorded \in 0..Len(tui'.turns)
      BY <1>1, <2>4, <2>5
    <2> QED BY <1>1, <1>3, <2>5, <2>8, <2>9 DEF ScreenInv, QueueDrains
  <1>4. CASE TurnRecorded
    BY <1>1, <1>4, ScreenSame DEF ScreenInv, TurnRecorded
  <1> QED BY <1>2, <1>3, <1>4

(* Every step of the terminal leaves the screen later than it was. *)
LEMMA ScreenStep == TypeInv /\ [Next]_vars => ScreenInv' /\ Later(tui, tui')
PROOF
  <1> SUFFICES ASSUME TypeInv, [Next]_vars PROVE ScreenInv' /\ Later(tui, tui')
    OBVIOUS
  <1>1. CASE UNCHANGED <<tui, recorded, draft>>
    BY <1>1, ScreenSame DEF TypeInv, ScreenInv
  <1>2. ASSUME NEW i \in Subs, NEW k \in Kinds, Start(i, k) PROVE UNCHANGED <<tui, recorded, draft>>
    BY <1>2 DEF Start
  <1>3. ASSUME NEW i \in Subs, Begin(i) \/ Left(i) PROVE ScreenInv' /\ Later(tui, tui')
    <2>1. CASE Refuse(i)
      BY <1>1, <2>1 DEF Refuse
    <2>2. CASE Leave(i)
      <3>1. WriteAll(<<Esc>>) /\ UNCHANGED <<recorded, draft>> /\ <<Esc>> \in Seq(Keys)
        BY <2>2, OwnKeys DEF Leave
      <3> QED BY <3>1, Writes DEF TypeInv, ScreenInv
    <2>3. CASE GoIn(i)
      BY <2>3, GoInScreen
    <2> QED BY <1>3, <2>1, <2>2, <2>3 DEF Begin, Left
  <1>4. ASSUME NEW i \in Subs, Settled(i) PROVE ScreenInv' /\ Later(tui, tui')
    <2>1. <<>> \in Seq(Keys) /\ <<Tab>> \in Seq(Keys) /\ <<Enter(i)>> \in Seq(Keys) /\ <<>> \in Texts
      BY OwnKeys DEF Texts
    <2>2. sub[i].kept \in Texts
      <3>1. sub[i] \in SubRecs
        BY DEF TypeInv, SubInv
      <3> QED BY <3>1 DEF SubRecs
    <2>3. CASE \E written \in Seq(Keys), d \in Texts, landed \in BOOLEAN, outcome \in Outcomes :
                 End(i, written, d, landed, outcome)
      BY <2>3, EndScreen
    <2>4. CASE WriteAll(<<Enter(i)>>) /\ draft' = <<>> /\ recorded' = recorded
      BY <2>1, <2>4, Writes DEF TypeInv, ScreenInv
    <2>5. End(i, <<>>, sub[i].kept, FALSE, "failed") \/ End(i, <<Tab>>, <<>>, TRUE, "unconfirmed")
            \/ End(i, <<Enter(i)>>, <<>>, TRUE, "unconfirmed")
            => \E written \in Seq(Keys), d \in Texts, landed \in BOOLEAN, outcome \in Outcomes :
                 End(i, written, d, landed, outcome)
      <3>1. "failed" \in Outcomes /\ "unconfirmed" \in Outcomes
        BY DEF Outcomes
      <3> QED BY <2>1, <2>2, <3>1
    <2> QED BY <1>4, <2>3, <2>4, <2>5 DEF Settled
  <1>5. ASSUME NEW i \in Subs, Looked(i) PROVE ScreenInv' /\ Later(tui, tui')
    <2>1. <<>> \in Seq(Keys) /\ draft \in Texts /\ \A s : Restored(i, draft, s) \in Texts
      BY OwnKeys DEF Restored, TypeInv, ScreenInv
    <2>2. CASE End(i, <<>>, draft, TRUE, "confirmed")
      BY <2>1, <2>2, EndScreen
    <2>3. CASE End(i, <<>>, draft, FALSE, "failed")
      BY <2>1, <2>3, EndScreen
    <2>4. CASE Missing(i, <<>>, draft)
      <3>1. PICK s \in BOOLEAN : End(i, <<>>, Restored(i, draft, s), FALSE, "unconfirmed")
        BY <2>4 DEF Missing
      <3> QED BY <2>1, <3>1, EndScreen
    <2>5. CASE Retry(i)
      BY <2>5, RetryScreen
    <2> QED BY <1>5, <2>2, <2>3, <2>4, <2>5 DEF Looked
  <1>6. ASSUME NEW i \in Subs, Look(i) PROVE UNCHANGED <<tui, recorded, draft>>
    BY <1>6 DEF Look
  <1>7. ASSUME NEW i \in Subs, EditWrites(i) PROVE ScreenInv' /\ Later(tui, tui')
    <2> DEFINE keys == Head(sub[i].todo)
    <2>1. sub[i] \in SubRecs
      BY DEF TypeInv, SubInv
    <2>2. sub[i].todo \in Seq(Seq(Keys)) /\ sub[i].todo # <<>>
      BY <1>7, <2>1, HandsAreKeys DEF SubRecs, EditWrites
    <2>3. keys \in Seq(Keys)
      BY <2>2
    <2>4. WriteAll(keys) /\ draft' = Tracked(draft, keys) /\ recorded' = recorded
      BY <1>7 DEF EditWrites
    <2> HIDE DEF keys
    <2>5. tui' \in Screens /\ Later(tui, tui') /\ recorded \in 0..Len(tui'.turns)
      BY <2>3, <2>4, Writes DEF TypeInv
    <2>6. draft' \in Texts
      BY <2>3, <2>4, TrackedGood DEF TypeInv, ScreenInv
    <2> QED BY <2>4, <2>5, <2>6 DEF ScreenInv
  <1>8. ASSUME NEW i \in Subs, EditEnds(i) PROVE ScreenInv' /\ Later(tui, tui')
    <2>1. <<>> \in Seq(Keys) /\ <<>> \in Texts
      BY DEF Texts
    <2> QED BY <1>8, <2>1, EndScreen DEF EditEnds
  <1>9. CASE Type(Word(Len(typed) + 1)) \/ Type(Enter(Person)) \/ Type(Tab)
    <2>1. Len(typed) < MaxTyped
      BY <1>9 DEF Type
    <2>2. Word(Len(typed) + 1) \in UserKeys /\ Enter(Person) \in UserKeys /\ Tab \in UserKeys
      BY <2>1, NextKeys DEF UserKeys, TypeInv
    <2> QED BY <1>9, <2>2, TypeScreen
  <1>10. CASE UNCHANGED vars
    BY <1>1, <1>10 DEF vars
  <1> QED
    BY <1>1, <1>2, <1>3, <1>4, <1>5, <1>6, <1>7, <1>8, <1>9, <1>10, AgentScreen DEF Next, Step

(* A submission learns something. *)
LEMMA SubMoves ==
  ASSUME SubInv, NEW i \in Subs, NEW r \in SubRecs, sub' = [sub EXCEPT ![i] = r],
         r.presses <= r.polls, r.kind \in {"replace", "remove"} => r.rows # <<>>
  PROVE  SubInv'
PROOF
  <1>1. sub' \in [Subs -> SubRecs] /\ sub'[i] = r /\ \A j \in Subs \ {i} : sub'[j] = sub[j]
    BY DEF SubInv
  <1> QED BY <1>1 DEF SubInv, Edits

(* The rest of what it knows stays as it is when it ends. *)
LEMMA EndSub ==
  ASSUME SubInv, NEW i \in Subs, NEW outcome \in Outcomes, sub' = [sub EXCEPT ![i].outcome = outcome]
  PROVE  SubInv'
PROOF
  <1> DEFINE r == [sub[i] EXCEPT !.outcome = outcome]
  <1>1. sub[i] \in SubRecs /\ sub[i].presses <= sub[i].polls /\ (Edits(i) => sub[i].rows # <<>>)
    BY DEF SubInv
  <1>2. r \in SubRecs /\ r.presses = sub[i].presses /\ r.polls = sub[i].polls
        /\ r.kind = sub[i].kind /\ r.rows = sub[i].rows
    BY <1>1 DEF SubRecs
  <1>3. sub' = [sub EXCEPT ![i] = r]
    OBVIOUS
  <1> HIDE DEF r
  <1> QED BY <1>1, <1>2, <1>3, SubMoves DEF Edits

LEMMA SubStep == TypeInv /\ [Next]_vars => SubInv'
PROOF
  <1> SUFFICES ASSUME TypeInv, [Next]_vars PROVE SubInv'
    OBVIOUS
  <1> USE DEF TypeInv
  <1>1. CASE UNCHANGED sub
    BY <1>1 DEF SubInv, Edits
  <1>2. ASSUME NEW i \in Subs PROVE sub[i] \in SubRecs /\ sub[i].presses <= sub[i].polls
                                   /\ (Edits(i) => sub[i].rows # <<>>)
    BY DEF SubInv
  <1>3. Outcomes = {"none", "confirmed", "unconfirmed", "failed"}
    BY DEF Outcomes
  <1>4. ASSUME NEW i \in Subs, NEW k \in Kinds, Start(i, k) PROVE SubInv'
    <2> DEFINE rows == IF k \in {"replace", "remove"} THEN tui.queue ELSE <<>>
               r == [sub[i] EXCEPT !.kind = k, !.rows = rows]
    <2>1. k \in SubKinds
      BY PromptConstants
    <2>2. rows \in Seq(Texts) /\ (k \in {"replace", "remove"} => rows # <<>>)
      BY <1>4 DEF Start, ScreenInv, Screens
    <2>3. sub' = [sub EXCEPT ![i] = r]
      BY <1>4 DEF Start
    <2> HIDE DEF rows
    <2>4. r \in SubRecs /\ r.presses = sub[i].presses /\ r.polls = sub[i].polls /\ r.kind = k /\ r.rows = rows
      BY <1>2, <2>1, <2>2 DEF SubRecs
    <2> HIDE DEF r
    <2> QED BY <1>2, <2>2, <2>3, <2>4, SubMoves
  <1>5. ASSUME NEW i \in Subs, GoIn(i) PROVE SubInv'
    <2> DEFINE todo == IF Edits(i) THEN Tail(Plan(i)) ELSE <<>>
               r == [sub[i] EXCEPT !.kept = draft, !.todo = todo]
    <2>1. todo \in Seq(Seq(Hands))
      <3>1. CASE Edits(i)
        <4>1. Plan(i) \in Seq(Seq(Hands)) /\ Plan(i) # <<>>
          BY <3>1, PlanGood
        <4> QED BY <3>1, <4>1
      <3>2. CASE ~Edits(i)
        BY <3>2
      <3> QED BY <3>1, <3>2
    <2>2. sub' = [sub EXCEPT ![i] = r]
      BY <1>5 DEF GoIn
    <2> HIDE DEF todo
    <2>3. r \in SubRecs /\ r.presses = sub[i].presses /\ r.polls = sub[i].polls
          /\ r.kind = sub[i].kind /\ r.rows = sub[i].rows
      BY <1>2, <2>1 DEF SubRecs, ScreenInv
    <2> HIDE DEF r
    <2> QED BY <1>2, <2>2, <2>3, SubMoves DEF Edits
  <1>6. ASSUME NEW i \in Subs, Refuse(i) PROVE SubInv'
    BY <1>3, <1>6, EndSub DEF Refuse
  <1>7. ASSUME NEW i \in Subs, Leave(i) PROVE SubInv'
    BY <1>1, <1>7 DEF Leave
  <1>8. ASSUME NEW i \in Subs, Settled(i) PROVE SubInv'
    <2>1. UNCHANGED sub \/ \E o \in Outcomes : sub' = [sub EXCEPT ![i].outcome = o]
      BY <1>3, <1>8 DEF Settled, End
    <2> QED BY <1>1, <2>1, EndSub
  <1>9. ASSUME NEW i \in Subs, Look(i) PROVE SubInv'
    <2>1. PICK s \in BOOLEAN : sub' = [sub EXCEPT ![i].seen = s]
      BY <1>9 DEF Look
    <2> DEFINE r == [sub[i] EXCEPT !.seen = s]
    <2>2. sub' = [sub EXCEPT ![i] = r]
      BY <2>1
    <2>3. r \in SubRecs /\ r.presses = sub[i].presses /\ r.polls = sub[i].polls
          /\ r.kind = sub[i].kind /\ r.rows = sub[i].rows
      BY <1>2 DEF SubRecs
    <2> HIDE DEF r
    <2> QED BY <1>2, <2>2, <2>3, SubMoves DEF Edits
  <1>10. ASSUME NEW i \in Subs, Retry(i) PROVE SubInv'
    <2>1. CASE LastPoll(i)
      <3>1. sub' = [sub EXCEPT ![i].outcome = "unconfirmed"]
        BY <1>10, <2>1 DEF Retry
      <3> QED BY <1>3, <3>1, EndSub
    <2>2. CASE ~LastPoll(i)
      <3> DEFINE press == MayPress(i, Tracked(draft, GivenTyping(i)))
      <3>1. sub' = [sub EXCEPT ![i].polls = @ + 1, ![i].presses = IF press THEN @ + 1 ELSE @]
        BY <1>10, <2>2 DEF Retry
      <3> HIDE DEF press
      <3>2. PICK p \in {sub[i].presses, sub[i].presses + 1} :
              sub' = [sub EXCEPT ![i].polls = @ + 1, ![i].presses = p]
        BY <3>1
      <3> DEFINE r == [sub[i] EXCEPT !.polls = @ + 1, !.presses = p]
      <3>3. sub' = [sub EXCEPT ![i] = r]
        BY <3>2
      <3>4. sub[i].presses \in Nat /\ sub[i].polls \in 0..(MaxPolls - 1) /\ MaxPolls \in Nat
        BY <1>2, PromptConstants DEF SubRecs
      <3>5. p \in Nat /\ p <= sub[i].polls + 1 /\ sub[i].polls + 1 \in 0..(MaxPolls - 1)
        BY <1>2, <2>2, <3>2, <3>4 DEF LastPoll
      <3>6. r \in SubRecs /\ r.presses = p /\ r.polls = sub[i].polls + 1
            /\ r.kind = sub[i].kind /\ r.rows = sub[i].rows
        BY <1>2, <3>5 DEF SubRecs
      <3> HIDE DEF r
      <3> QED BY <1>2, <3>3, <3>5, <3>6, SubMoves DEF Edits
    <2> QED BY <2>1, <2>2
  <1>11. ASSUME NEW i \in Subs, Looked(i) PROVE SubInv'
    <2>1. Retry(i) \/ \E o \in Outcomes : sub' = [sub EXCEPT ![i].outcome = o]
      BY <1>3, <1>11 DEF Looked, Missing, End
    <2> QED BY <1>10, <2>1, EndSub
  <1>12. ASSUME NEW i \in Subs, EditWrites(i) PROVE SubInv'
    <2> DEFINE r == [sub[i] EXCEPT !.todo = Tail(@)]
    <2>1. sub' = [sub EXCEPT ![i] = r]
      BY <1>12 DEF EditWrites
    <2>2. Tail(sub[i].todo) \in Seq(Seq(Hands))
      <3>1. sub[i].todo \in Seq(Seq(Hands)) /\ sub[i].todo # <<>>
        BY <1>2, <1>12 DEF SubRecs, EditWrites
      <3> QED BY <3>1
    <2>3. r \in SubRecs /\ r.presses = sub[i].presses /\ r.polls = sub[i].polls
          /\ r.kind = sub[i].kind /\ r.rows = sub[i].rows
      BY <1>2, <2>2 DEF SubRecs
    <2> HIDE DEF r
    <2> QED BY <1>2, <2>1, <2>3, SubMoves DEF Edits
  <1>13. ASSUME NEW i \in Subs, EditEnds(i) PROVE SubInv'
    BY <1>3, <1>13, EndSub DEF EditEnds, End
  <1>14. CASE Type(Word(Len(typed) + 1)) \/ Type(Enter(Person)) \/ Type(Tab)
    BY <1>1, <1>14 DEF Type
  <1>15. CASE ScreenChanges \/ QueueDrains \/ TurnRecorded \/ UNCHANGED vars
    BY <1>1, <1>15 DEF ScreenChanges, QueueDrains, TurnRecorded, vars
  <1> QED
    BY <1>4, <1>5, <1>6, <1>7, <1>8, <1>9, <1>11, <1>12, <1>13, <1>14, <1>15 DEF Next, Step, Begin, Left

LEMMA TypeStep == TypeInv /\ [Next]_vars => TypeInv'
BY TypingStep, LockStep, ScreenStep, SubStep DEF TypeInv

LEMMA TypeInit == Init => TypeInv
PROOF
  <1> SUFFICES ASSUME Init PROVE TypeInv
    OBVIOUS
  <1>1. TypingInv
    <2>1. <<>> \in Seq(UserKeys) /\ <<>> \o <<>> = <<>>
      OBVIOUS
    <2> QED BY <2>1 DEF Init, TypingInv, TypingKept
  <1>2. LockInv
    BY DEF Init, LockInv, GoesIn, Phases
  <1>3. ScreenInv
    BY PromptConstants DEF Init, ScreenInv, Screens, Texts
  <1>4. SubInv
    <2>1. NewSub \in SubRecs
      BY PromptConstants DEF NewSub, SubRecs, SubKinds, Outcomes, Texts
    <2>2. PICK reads \in [Subs -> Nat] : sub = [i \in Subs |-> [NewSub EXCEPT !.text = reads[i]]]
      BY PromptConstants DEF Init
    <2>3. ASSUME NEW i \in Subs
          PROVE  sub[i] \in SubRecs /\ sub[i].presses <= sub[i].polls /\ ~Edits(i)
      <3>1. reads[i] \in Nat /\ sub[i] = [NewSub EXCEPT !.text = reads[i]]
        BY <2>2
      <3>2. sub[i].kind = "prompt" /\ sub[i].presses = 0 /\ sub[i].polls = 0
        BY <3>1 DEF NewSub
      <3>3. sub[i] \in SubRecs
        BY <2>1, <3>1 DEF SubRecs
      <3> QED BY <3>2, <3>3 DEF Edits
    <2> QED BY <2>2, <2>3 DEF SubInv
  <1> QED BY <1>1, <1>2, <1>3, <1>4 DEF TypeInv

(* Every variable has its type: a queue edit always has rows to pop, retries
   stay within their polls, and nothing else than keys is ever written. *)
THEOREM PromptTypes == Spec => []TypeOK
PROOF
  <1>1. TypeInv => TypeOK
    <2> SUFFICES ASSUME TypeInv PROVE TypeOK
      OBVIOUS
    <2>1. tui.composer \in Texts /\ tui.queue \in Seq(Texts) /\ tui.upsets \in 0..MaxUpsets
          /\ recorded \in 0..Len(tui.turns) /\ draft \in Texts
      BY DEF TypeInv, ScreenInv, Screens
    <2>2. goingIn \in BOOLEAN /\ held \in Seq(UserKeys) /\ through \in Seq(UserKeys) /\ typed \in Seq(UserKeys)
      BY LogGrows DEF TypeInv, TypingInv, TypingKept
    <2>3. line \in Seq(Subs) /\ pc \in [Subs -> Phases]
      BY DEF TypeInv, LockInv
    <2>4. ASSUME NEW i \in Subs
          PROVE  /\ sub[i].outcome \in Outcomes /\ sub[i].kept \in Texts
                 /\ sub[i].polls \in 0..(MaxPolls - 1) /\ sub[i].presses \in 0..sub[i].polls
      <3>1. sub[i] \in SubRecs /\ sub[i].presses <= sub[i].polls
        BY DEF TypeInv, SubInv
      <3> QED BY <3>1, PromptConstants DEF SubRecs
    <2> QED BY <2>1, <2>2, <2>3, <2>4 DEF TypeOK
  <1> QED BY <1>1, TypeInit, TypeStep, PTL DEF Spec

-----------------------------------------------------------------------------
(* Keys in a row *)

(* One more key is pressed after the others. *)
LEMMA PressedLast ==
  ASSUME tui \in Screens, NEW keys \in Seq(Keys), NEW k \in Keys, NEW u \in Pressed(Append(keys, k))
  PROVE  \E t \in Pressed(keys) : u \in Press(t, k)
PROOF
  <1> DEFINE n == Len(keys)
             all == Append(keys, k)
             P(T, l) == UNION {Press(t, l) : t \in T}
  <1>1. n \in Nat /\ all \in Seq(Keys) /\ Len(all) = n + 1 /\ all[n + 1] = k
        /\ \A i \in 1..n : all[i] = keys[i]
    OBVIOUS
  <1>2. PICK f \in [0..n -> SUBSET Screens] :
           /\ f[0] = {tui} /\ Pressed(keys) = f[n]
           /\ \A i \in 1..n : f[i] = P(f[i - 1], keys[i])
    BY PressedSteps
  <1>3. PICK g \in [0..Len(all) -> SUBSET Screens] :
           /\ g[0] = {tui} /\ Pressed(all) = g[Len(all)]
           /\ \A i \in 1..Len(all) : g[i] = P(g[i - 1], all[i])
    BY <1>1, PressedSteps
  <1> HIDE DEF n, all, P
  <1>4. \A i \in 1..n : f[i - 1] = g[i - 1] => f[i] = g[i]
    <2> SUFFICES ASSUME NEW i \in 1..n, f[i - 1] = g[i - 1] PROVE f[i] = g[i]
      OBVIOUS
    <2>1. i \in 1..Len(all) /\ all[i] = keys[i]
      BY <1>1
    <2> QED BY <1>2, <1>3, <2>1
  <1>5. \A i \in 0..n : f[i] = g[i]
    <2>1. StepAlike(n, f, g)
      BY <1>2, <1>3, <1>4 DEF StepAlike
    <2> QED BY <1>1, <2>1, SameRun
  <1>6. g[n] = f[n]
    BY <1>1, <1>5
  <1>7. n + 1 \in 1..Len(all) /\ (n + 1) - 1 = n
    BY <1>1
  <1>8. g[n + 1] = P(g[n], k)
    BY <1>1, <1>3, <1>7
  <1>9. u \in g[n + 1]
    BY <1>1, <1>3 DEF all
  <1> QED BY <1>2, <1>6, <1>8, <1>9 DEF P

LEMMA PressedNone ==
  ASSUME tui \in Screens
  PROVE  Pressed(<<>>) = {tui}
PROOF
  <1>1. <<>> \in Seq(Keys) /\ Len(<<>>) = 0
    OBVIOUS
  <1> QED BY <1>1, PressedSteps

LEMMA PressedOne ==
  ASSUME tui \in Screens, NEW k \in Keys, NEW u \in Pressed(<<k>>)
  PROVE  u \in Press(tui, k)
PROOF
  <1>1. <<k>> = Append(<<>>, k) /\ <<>> \in Seq(Keys)
    OBVIOUS
  <1>2. PICK t \in Pressed(<<>>) : u \in Press(t, k)
    BY <1>1, PressedLast
  <1> QED BY <1>2, PressedNone

LEMMA PressedTwo ==
  ASSUME tui \in Screens, NEW k \in Keys, NEW l \in Keys, NEW u \in Pressed(<<k, l>>)
  PROVE  \E t \in Press(tui, k) : u \in Press(t, l)
PROOF
  <1>1. <<k, l>> = Append(<<k>>, l) /\ <<k>> \in Seq(Keys)
    OBVIOUS
  <1>2. PICK t \in Pressed(<<k>>) : u \in Press(t, l)
    BY <1>1, PressedLast
  <1> QED BY <1>2, PressedOne

(* What some keys keep is so when they have all been pressed. *)
LEMMA PressedKeeps ==
  ASSUME tui \in Screens, NEW K \in SUBSET Keys, NEW keys \in Seq(K), NEW G, tui \in G,
         \A t \in G \cap Screens, k \in K : Press(t, k) \subseteq G
  PROVE  Pressed(keys) \subseteq G
PROOF
  <1> DEFINE n == Len(keys)
  <1>1. n \in Nat /\ keys \in Seq(Keys) /\ \A i \in 1..n : keys[i] \in K
    OBVIOUS
  <1>2. PICK f \in [0..n -> SUBSET Screens] :
           /\ f[0] = {tui} /\ Pressed(keys) = f[n]
           /\ \A i \in 1..n : f[i] = UNION {Press(t, keys[i]) : t \in f[i - 1]}
    BY <1>1, PressedSteps
  <1> HIDE DEF n
  <1> DEFINE S == {i \in 0..n : f[i] \subseteq G}
  <1>3. 0 \in S
    BY <1>1, <1>2
  <1>4. ASSUME NEW i \in 0..n, i \in S, i < n PROVE i + 1 \in S
    <2>1. i + 1 \in 1..n /\ i + 1 \in 0..n /\ (i + 1) - 1 = i
      BY <1>1, <1>4
    <2>2. f[i + 1] = UNION {Press(t, keys[i + 1]) : t \in f[i]} /\ f[i] \subseteq G \cap Screens
      BY <1>2, <1>4, <2>1
    <2>3. keys[i + 1] \in K
      BY <1>1, <2>1
    <2>4. \A t \in f[i] : Press(t, keys[i + 1]) \subseteq G
      BY <2>2, <2>3
    <2>5. f[i + 1] \subseteq G
      BY <2>2, <2>4
    <2> QED BY <2>1, <2>5
  <1> HIDE DEF S
  <1>5. 0..n \subseteq S
    BY <1>1, <1>3, <1>4, Between
  <1>6. n \in S
    BY <1>1, <1>5
  <1> QED BY <1>2, <1>6 DEF S

(* The tracker reads keys one after the other. *)
LEMMA TrackedJoin ==
  ASSUME NEW d \in Texts, NEW a \in Seq(Keys), NEW b \in Seq(Keys)
  PROVE  Tracked(d, a \o b) = Tracked(Tracked(d, a), b)
PROOF
  <1> DEFINE n == Len(a)
             m == Len(b)
             all == a \o b
             e == Tracked(d, a)
  <1>1. /\ n \in Nat /\ m \in Nat /\ all \in Seq(Keys) /\ Len(all) = n + m
        /\ \A i \in 1..n : all[i] = a[i]
        /\ \A i \in 1..m : all[n + i] = b[i]
    OBVIOUS
  <1>2. PICK f \in [0..Len(all) -> Texts] :
           /\ f[0] = d /\ Tracked(d, all) = f[Len(all)]
           /\ \A i \in 1..Len(all) : f[i] = Track(f[i - 1], all[i])
    BY <1>1, TrackedSteps
  <1>3. PICK g \in [0..n -> Texts] :
           /\ g[0] = d /\ e = g[n]
           /\ \A i \in 1..n : g[i] = Track(g[i - 1], a[i])
    BY TrackedSteps
  <1>4. e \in Texts
    BY TrackedGood
  <1> HIDE DEF n, all, e
  <1>5. PICK h \in [0..m -> Texts] :
           /\ h[0] = e /\ Tracked(e, b) = h[m]
           /\ \A i \in 1..m : h[i] = Track(h[i - 1], b[i])
    BY <1>4, TrackedSteps
  <1> HIDE DEF m
  <1>6. f[n] = g[n]
    <2>1. \A i \in 1..n : f[i - 1] = g[i - 1] => f[i] = g[i]
      <3> SUFFICES ASSUME NEW i \in 1..n, f[i - 1] = g[i - 1] PROVE f[i] = g[i]
        OBVIOUS
      <3>1. i \in 1..Len(all) /\ all[i] = a[i]
        BY <1>1
      <3> QED BY <1>2, <1>3, <3>1
    <2>2. StepAlike(n, f, g)
      BY <1>2, <1>3, <2>1 DEF StepAlike
    <2>3. \A i \in 0..n : f[i] = g[i]
      <3>1. n \in Nat
        BY <1>1
      <3> QED BY ONLY <2>2, <3>1, SameRun
    <2> QED BY <1>1, <2>3
  <1> DEFINE s == [i \in 0..m |-> f[n + i]]
  <1>7. s[m] = h[m]
    <2>1. s[0] = h[0]
      BY <1>1, <1>3, <1>5, <1>6
    <2>2. \A i \in 1..m : s[i - 1] = h[i - 1] => s[i] = h[i]
      <3> SUFFICES ASSUME NEW i \in 1..m, s[i - 1] = h[i - 1] PROVE s[i] = h[i]
        OBVIOUS
      <3>1. n + i \in 1..Len(all) /\ (n + i) - 1 = n + (i - 1) /\ all[n + i] = b[i] /\ i - 1 \in 0..m /\ i \in 0..m
        BY <1>1
      <3>2. s[i] = f[n + i] /\ s[i - 1] = f[n + (i - 1)]
        BY <3>1
      <3>3. f[n + i] = Track(f[(n + i) - 1], all[n + i])
        BY <1>2, <3>1
      <3> QED BY <1>5, <3>1, <3>2, <3>3
    <2> HIDE DEF s
    <2>3. StepAlike(m, s, h)
      BY <2>1, <2>2 DEF StepAlike
    <2>4. \A i \in 0..m : s[i] = h[i]
      BY <1>1, <2>3, SameRun
    <2> QED BY <1>1, <2>4
  <1>8. m \in 0..m
    BY <1>1
  <1>9. f[n + m] = h[m]
    BY <1>7, <1>8
  <1> QED BY <1>1, <1>2, <1>5, <1>9 DEF all, e

LEMMA TrackedNone ==
  ASSUME NEW d \in Texts
  PROVE  Tracked(d, <<>>) = d
PROOF
  <1> DEFINE none == <<>>
  <1>1. none \in Seq(Keys) /\ Len(none) = 0
    OBVIOUS
  <1> HIDE DEF none
  <1>2. PICK f \in [0..Len(none) -> Texts] : f[0] = d /\ Tracked(d, none) = f[Len(none)]
    BY <1>1, TrackedSteps, ZenonT(30)
  <1> QED BY <1>1, <1>2 DEF none

LEMMA TrackedOne ==
  ASSUME NEW d \in Texts, NEW k \in Keys
  PROVE  Tracked(d, <<k>>) = Track(d, k)
PROOF
  <1>1. <<k>> \in Seq(Keys) /\ Len(<<k>>) = 1 /\ <<k>>[1] = k
    OBVIOUS
  <1>2. PICK f \in [0..1 -> Texts] :
           /\ f[0] = d /\ Tracked(d, <<k>>) = f[1]
           /\ \A i \in 1..1 : f[i] = Track(f[i - 1], <<k>>[i])
    BY <1>1, TrackedSteps
  <1> QED BY <1>1, <1>2

(* While nothing has gone wrong with the screen, the tracker follows it, except up its queue. *)
LEMMA PressTracked ==
  ASSUME NEW t \in Screens, Sound(t), NEW k \in Keys \ {AltUp}, NEW u \in Press(t, k), Calm(u)
  PROVE  Calm(t) /\ u.composer = Track(t.composer, k)
PROOF
  <1>1. Calm(t) /\ t.alive /\ ~Covered(t) /\ ~t.pasting
    <2>1. Later(t, u) /\ t.upsets \in Nat
      BY PressGood, PromptConstants DEF Screens
    <2>2. Calm(t)
      BY <2>1 DEF Later, Calm
    <2> QED BY <2>2 DEF Sound, Fine
  <1>2. ~t.dialog /\ ~t.mode
    BY <1>1 DEF Covered
  <1>3. CASE k \in {Wipe, Tab}
    <2>1. u = [t EXCEPT !.composer = <<>>] \/ (k = Tab /\ t.composer = <<>> /\ u = t)
            \/ u = [t EXCEPT !.queue = Append(@, t.composer), !.composer = <<>>]
      BY <1>1, <1>3, PressOne
    <2>2. u.composer = <<>>
      BY <2>1 DEF Screens
    <2>3. Track(t.composer, k) = <<>>
      BY <1>3 DEF Track, Wipe, Tab
    <2> QED BY <1>1, <2>2, <2>3
  <1>4. CASE k \in {PasteEnd, Esc}
    <2>1. u.composer = t.composer
      BY <1>1, <1>4, PressOne, ZenonT(30) DEF Screens
    <2>2. Track(t.composer, k) = t.composer
      BY <1>4 DEF Track, PasteEnd, Esc
    <2> QED BY <1>1, <2>1, <2>2
  <1>5. CASE \E b \in Subs \cup {Person} : k = Enter(b)
    <2>1. PICK b \in Subs \cup {Person} : k = Enter(b)
      BY <1>5
    <2>2. u \in PressEnter(t, b)
      BY <1>1, <2>1, PressEnterKey
    <2>3. \/ t.composer = <<>> /\ u = t
          \/ u = [t EXCEPT !.turns = Append(@, Turn(b, t.composer)), !.composer = <<>>]
          \/ \E x \in {v \in {t.upsets + 1} : Upset(t, "absorb")} : u = [t EXCEPT !.upsets = x]
      BY <1>1, <1>2, <2>2 DEF PressEnter
    <2>4. u.composer = <<>>
      <3>1. ASSUME NEW x \in {v \in {t.upsets + 1} : Upset(t, "absorb")}, u = [t EXCEPT !.upsets = x] PROVE FALSE
        <4>1. x = t.upsets + 1 /\ t.upsets \in Nat
          BY OneUpset
        <4>2. u.upsets = x
          BY <3>1 DEF Screens
        <4> QED BY <4>1, <4>2 DEF Calm
      <3> QED BY <2>3, <3>1 DEF Screens
    <2>5. Track(t.composer, k) = <<>>
      BY <2>1 DEF Track, Enter
    <2> QED BY <1>1, <2>4, <2>5
  <1>6. CASE \E d \in Texts : k = Paste(d)
    <2>1. PICK d \in Texts : k = Paste(d)
      BY <1>6
    <2>2. u \in PressPaste(t, d)
      BY <1>1, <2>1, PressPasteKey
    <2>3. u.composer = t.composer \o d
      BY <1>1, <2>2 DEF PressPaste, Screens
    <2>4. Track(t.composer, k) = t.composer \o d
      BY <2>1 DEF Track, Paste
    <2> QED BY <1>1, <2>3, <2>4
  <1>7. CASE \E n \in 1..MaxTyped : k = Word(n)
    <2>1. PICK n \in 1..MaxTyped : k = Word(n)
      BY <1>7
    <2>2. u = [t EXCEPT !.composer = Append(@, Word(n))]
      BY <1>1, <2>1, PressWordKey
    <2>3. u.composer = Append(t.composer, k)
      BY <2>1, <2>2 DEF Screens
    <2>4. Track(t.composer, k) = Append(t.composer, k)
      BY <2>1 DEF Track, Word
    <2> QED BY <1>1, <2>3, <2>4
  <1> QED BY <1>3, <1>4, <1>5, <1>6, <1>7, KeyKinds

LEMMA PressedTracked ==
  ASSUME tui \in Screens, Sound(tui), NEW d \in Texts, Calm(tui) => tui.composer = d,
         NEW keys \in Seq(Keys \ {AltUp}), NEW u \in Pressed(keys), Calm(u)
  PROVE  u.composer = Tracked(d, keys)
PROOF
  <1> DEFINE n == Len(keys)
  <1>1. n \in Nat /\ keys \in Seq(Keys) /\ \A i \in 1..n : keys[i] \in Keys \ {AltUp}
    OBVIOUS
  <1>2. PICK f \in [0..n -> SUBSET Screens] :
           /\ f[0] = {tui} /\ Pressed(keys) = f[n]
           /\ \A i \in 1..n : f[i] = UNION {Press(t, keys[i]) : t \in f[i - 1]}
    BY <1>1, PressedSteps
  <1>3. PICK g \in [0..n -> Texts] :
           /\ g[0] = d /\ Tracked(d, keys) = g[n]
           /\ \A i \in 1..n : g[i] = Track(g[i - 1], keys[i])
    BY <1>1, TrackedSteps
  <1> HIDE DEF n
  <1> DEFINE S == {i \in 0..n : \A v \in f[i] : Sound(v) /\ (Calm(v) => v.composer = g[i])}
  <1>4. 0 \in S
    BY <1>1, <1>2, <1>3
  <1>5. ASSUME NEW i \in 0..n, i \in S, i < n PROVE i + 1 \in S
    <2>1. i + 1 \in 1..n /\ i + 1 \in 0..n /\ (i + 1) - 1 = i
      BY <1>1, <1>5
    <2>2. ASSUME NEW v \in f[i + 1] PROVE Sound(v) /\ (Calm(v) => v.composer = g[i + 1])
      <3>1. PICK t \in f[i] : v \in Press(t, keys[i + 1])
        BY <1>2, <2>1
      <3>2. t \in Screens /\ Sound(t) /\ (Calm(t) => t.composer = g[i]) /\ keys[i + 1] \in Keys \ {AltUp}
        BY <1>1, <1>2, <1>5, <2>1
      <3>3. Sound(v)
        <4>1. Later(t, v)
          BY <3>1, <3>2, PressGood
        <4> QED BY <3>2, <4>1 DEF Later
      <3>4. ASSUME Calm(v) PROVE v.composer = g[i + 1]
        <4>1. Calm(t) /\ v.composer = Track(t.composer, keys[i + 1])
          BY <3>1, <3>2, <3>4, PressTracked
        <4>2. g[i + 1] = Track(g[i], keys[i + 1])
          BY <1>3, <2>1
        <4> QED BY <3>2, <4>1, <4>2
      <3> QED BY <3>3, <3>4
    <2> QED BY <2>1, <2>2
  <1> HIDE DEF S
  <1>6. 0..n \subseteq S
    BY <1>1, <1>4, <1>5, Between
  <1>7. n \in S
    BY <1>1, <1>6
  <1> QED BY <1>2, <1>3, <1>7 DEF S

-----------------------------------------------------------------------------
(* What a submission may count on *)

(* Whoever takes a step has the lock, and nobody else is going in. *)
LEMMA StepOf ==
  ASSUME TypeInv, NEW i \in Subs, Step(i)
  PROVE  /\ pc[i] \in {"waiting", "leaving", "settling", "polling", "looked", "editing"}
         /\ \A j \in Subs \ {i} : ~GoesIn(j) /\ pc'[j] = pc[j] /\ sub'[j] = sub[j]
PROOF
  <1>1. pc \in [Subs -> Phases] /\ sub \in [Subs -> SubRecs]
    BY DEF TypeInv, LockInv, SubInv
  <1>2. pc[i] \in {"waiting", "leaving", "settling", "polling", "looked", "editing"}
    BY DEF Step, Begin, Left, Settled, Look, Looked, EditWrites, EditEnds
  <1>3. Holds(i)
    BY <1>2 DEF Step, Begin, TypeInv, LockInv, GoesIn, Left, Settled, Look, Looked, EditWrites, EditEnds
  <1>4. \A j \in Subs \ {i} : ~GoesIn(j)
    BY <1>3 DEF TypeInv, LockInv, Holds
  <1>5. ASSUME NEW j \in Subs \ {i} PROVE pc'[j] = pc[j] /\ sub'[j] = sub[j]
    <2>1. CASE Begin(i) \/ Left(i)
      BY <1>1, <2>1 DEF Begin, Left, Refuse, Leave, GoIn
    <2>2. CASE Settled(i) \/ EditEnds(i)
      BY <1>1, <2>2 DEF Settled, EditEnds, End
    <2>3. CASE Look(i) \/ EditWrites(i)
      BY <1>1, <2>3 DEF Look, EditWrites
    <2>4. CASE Looked(i)
      <3>1. CASE Retry(i)
        BY <1>1, <3>1 DEF Retry
      <3>2. CASE ~Retry(i)
        BY <1>1, <2>4, <3>2 DEF Looked, Missing, End
      <3> QED BY <3>1, <3>2
    <2> QED BY <2>1, <2>2, <2>3, <2>4 DEF Step
  <1> QED BY <1>2, <1>4, <1>5

Handled(i) ==
  /\ pc[i] \in {"settling", "editing"} => goingIn
  /\ pc[i] = "editing" => Edits(i)
  /\ pc[i] \in {"settling", "polling", "looked"} => ~Edits(i)
  /\ pc[i] \in {"polling", "looked"} => sub[i].kind = "prompt"
  /\ pc[i] # "done" => sub[i].outcome = "none"

(* The composer is held while a paste settles and a queue is edited, and only
   what is submitted with Enter is looked for. *)
HandlingInv == Sound(tui) /\ \A i \in Subs : Handled(i)

Base == TypeInv /\ HandlingInv

LEMMA HandledSame ==
  ASSUME NEW i \in Subs, Handled(i), pc'[i] = pc[i], sub'[i] = sub[i], goingIn' = goingIn \/ ~GoesIn(i)
  PROVE  Handled(i)'
BY DEF Handled, Edits, GoesIn

LEMMA HandlingStep == Base /\ [Next]_vars => HandlingInv'
PROOF
  <1> SUFFICES ASSUME Base, [Next]_vars PROVE HandlingInv'
    OBVIOUS
  <1>1. Sound(tui')
    BY ScreenStep DEF Base, HandlingInv, Later
  <1> SUFFICES ASSUME NEW j \in Subs PROVE Handled(j)'
    BY <1>1 DEF HandlingInv
  <1>2. Handled(j) /\ pc \in [Subs -> Phases] /\ sub \in [Subs -> SubRecs]
    BY DEF Base, HandlingInv, TypeInv, LockInv, SubInv
  <1>3. CASE UNCHANGED <<pc, sub, goingIn>>
    BY <1>2, <1>3, HandledSame
  <1>4. ASSUME NEW i \in Subs, NEW k \in Kinds, Start(i, k) PROVE Handled(j)'
    <2>1. CASE i = j
      <3>1. pc[j] = "idle" /\ pc'[j] = "waiting" /\ sub'[j].outcome = sub[j].outcome
        <4>1. sub[j] \in SubRecs
          BY <1>2
        <4> QED BY <1>2, <1>4, <2>1, <4>1 DEF Start, SubRecs
      <3> QED BY <1>2, <3>1 DEF Handled
    <2>2. CASE i # j
      BY <1>2, <1>4, <2>2, HandledSame DEF Start
    <2> QED BY <2>1, <2>2
  <1>5. ASSUME NEW i \in Subs, Step(i), i # j PROVE Handled(j)'
    BY <1>2, <1>5, StepOf, HandledSame DEF Base
  <1>6. ASSUME Step(j) PROVE Handled(j)'
    <2>1. sub[j] \in SubRecs /\ pc[j] # "done" /\ sub[j].outcome = "none"
      BY <1>2, <1>6, StepOf DEF Base, Handled
    <2>2. CASE pc'[j] = "done"
      BY <2>2 DEF Handled
    <2>3. CASE Refuse(j)
      BY <1>2, <2>2, <2>3 DEF Refuse
    <2>4. CASE Leave(j)
      BY <1>2, <2>1, <2>4 DEF Leave, Handled
    <2>5. CASE GoIn(j)
      <3>1. pc'[j] = (IF Edits(j) THEN "editing" ELSE "settling") /\ goingIn' = TRUE
        BY <1>2, <2>5 DEF GoIn
      <3>2. sub'[j].kind = sub[j].kind /\ sub'[j].outcome = sub[j].outcome
        BY <1>2, <2>1, <2>5 DEF GoIn, SubRecs
      <3> QED BY <2>1, <3>1, <3>2 DEF Handled, Edits
    <2>6. CASE Settled(j)
      <3>1. CASE sub[j].kind = "prompt" /\ pc'[j] = "polling" /\ UNCHANGED sub
        BY <1>2, <2>1, <3>1 DEF Handled, Edits
      <3>2. CASE ~(sub[j].kind = "prompt" /\ pc'[j] = "polling" /\ UNCHANGED sub)
        BY <1>2, <2>2, <2>6, <3>2 DEF Settled, End
      <3> QED BY <3>1, <3>2
    <2>7. CASE Look(j)
      <3>1. pc[j] = "polling" /\ pc'[j] = "looked"
        BY <1>2, <2>7 DEF Look
      <3>2. sub'[j].kind = sub[j].kind /\ sub'[j].outcome = sub[j].outcome
        BY <1>2, <2>1, <2>7 DEF Look, SubRecs
      <3> QED BY <1>2, <3>1, <3>2 DEF Handled, Edits
    <2>8. CASE Looked(j)
      <3>1. CASE pc'[j] = "polling" /\ Retry(j)
        <4>1. pc[j] = "looked" /\ ~LastPoll(j)
          BY <1>2, <2>8, <3>1 DEF Looked, Retry
        <4>2. sub'[j].kind = sub[j].kind /\ sub'[j].outcome = sub[j].outcome
          BY <1>2, <2>1, <3>1, <4>1 DEF Retry, SubRecs
        <4> QED BY <1>2, <3>1, <4>1, <4>2 DEF Handled, Edits
      <3>2. CASE ~(pc'[j] = "polling" /\ Retry(j))
        <4>1. CASE Retry(j)
          BY <1>2, <2>2, <3>2, <4>1 DEF Retry
        <4>2. CASE ~Retry(j)
          BY <1>2, <2>2, <2>8, <4>2 DEF Looked, Missing, End
        <4> QED BY <4>1, <4>2
      <3> QED BY <3>1, <3>2
    <2>9. CASE EditWrites(j)
      <3>1. sub'[j].kind = sub[j].kind /\ sub'[j].outcome = sub[j].outcome
        BY <1>2, <2>1, <2>9 DEF EditWrites, SubRecs
      <3> QED BY <1>2, <2>9, <3>1 DEF EditWrites, Handled, Edits
    <2>10. CASE EditEnds(j)
      BY <1>2, <2>2, <2>10 DEF EditEnds, End
    <2> QED BY <1>6, <2>3, <2>4, <2>5, <2>6, <2>7, <2>8, <2>9, <2>10 DEF Step, Begin, Left
  <1>7. CASE Type(Word(Len(typed) + 1)) \/ Type(Enter(Person)) \/ Type(Tab)
    BY <1>3, <1>7 DEF Type
  <1>8. CASE ScreenChanges \/ QueueDrains \/ TurnRecorded \/ UNCHANGED vars
    BY <1>3, <1>8 DEF ScreenChanges, QueueDrains, TurnRecorded, vars
  <1> QED
    BY <1>4, <1>5, <1>6, <1>7, <1>8 DEF Next

LEMMA BaseStep == Base /\ [Next]_vars => Base'
BY TypeStep, HandlingStep DEF Base

LEMMA BaseInit == Init => Base
PROOF
  <1> SUFFICES ASSUME Init PROVE Base
    OBVIOUS
  <1>1. Sound(tui)
    BY DEF Init, Sound, Calm, Fine, Covered
  <1>2. \A i \in Subs : pc[i] = "idle" /\ sub[i].outcome = "none"
    BY DEF Init, NewSub
  <1>3. \A i \in Subs : Handled(i)
    BY <1>2 DEF Handled
  <1> QED BY <1>1, <1>3, TypeInit DEF Base, HandlingInv

(* What the agent has taken stays taken. *)
LEMMA TakenKept ==
  ASSUME Base, [Next]_vars, NEW i \in Subs, Taken(i)
  PROVE  Taken(i)'
PROOF
  <1>1. Later(tui, tui') /\ tui \in Screens /\ tui' \in Screens
    BY ScreenStep DEF Base, TypeInv, ScreenInv
  <1>2. tui.turns \in Seq(Turns) /\ tui'.turns \in Seq(Turns)
    BY <1>1 DEF Screens
  <1>3. PICK n \in DOMAIN tui.turns : Prompt(i) \in ToSet(tui.turns[n].text)
    BY DEF Taken
  <1>4. n \in 1..Len(tui.turns) /\ n \in DOMAIN tui'.turns
    BY <1>1, <1>2, <1>3 DEF Later
  <1>5. tui'.turns[n] = tui.turns[n]
    BY <1>1, <1>4 DEF Later
  <1> QED BY <1>3, <1>4, <1>5 DEF Taken

(* What is fine was fine before. *)
LEMMA FineBefore ==
  ASSUME NEW t \in Screens, NEW u \in Screens, Later(t, u), Sound(t)
  PROVE  (Fine(u) => Fine(t)) /\ (Calm(u) => Calm(t))
PROOF
  <1>1. t.upsets \in Nat /\ u.upsets \in Nat
    BY PromptConstants DEF Screens
  <1> QED BY <1>1 DEF Later, Fine, Calm

(* The composer is wiped, unless a paste is open, and a paste put in it. *)
LEMMA WipedAndPasted ==
  ASSUME Base, NEW d \in Texts, NEW u \in Pressed(<<Wipe, Paste(d)>>), u.alive, ~Covered(u)
  PROVE  /\ ~u.cut => u.composer = d
         /\ \E e \in Texts : u.composer = e \o d
PROOF
  <1>1. tui \in Screens /\ Sound(tui) /\ Wipe \in Keys /\ Paste(d) \in Keys
    BY DEF Base, TypeInv, ScreenInv, HandlingInv, Keys
  <1>2. PICK t \in Press(tui, Wipe) : u \in Press(t, Paste(d))
    BY <1>1, PressedTwo
  <1>3. t \in Screens /\ Later(t, u)
    BY <1>1, <1>2, PressGood
  <1>4. t.alive
    BY <1>2 DEF Press
  <1>5. tui.alive
    BY <1>2, <1>4 DEF Press
  <1>6. u \in PressPaste(t, d)
    BY <1>2, <1>4, PressPasteKey
  <1>7. ~Covered(t)
    BY <1>6 DEF PressPaste
  <1>8. IF Covered(tui) \/ tui.pasting THEN t = tui ELSE t = [tui EXCEPT !.composer = <<>>]
    BY <1>2, <1>5, PressOne
  <1>9. t.composer \in Texts /\ t.cut = tui.cut /\ (~tui.pasting => t.composer = <<>>)
    BY <1>1, <1>3, <1>7, <1>8 DEF Screens
  <1>10. u.composer = t.composer \o d
    BY <1>3, <1>6, <1>7 DEF PressPaste, Screens
  <1>11. ASSUME ~u.cut PROVE u.composer = d
    <2>1. ~tui.pasting
      BY <1>1, <1>3, <1>9, <1>11 DEF Later, Sound
    <2> QED BY <1>9, <1>10, <2>1 DEF Texts
  <1> QED BY <1>9, <1>10, <1>11

(* Between the paste and its Enter nothing reaches the composer. *)
LEMMA PasteStep == Base /\ PasteIntact /\ [Next]_vars => PasteIntact'
PROOF
  <1> SUFFICES ASSUME Base, PasteIntact, [Next]_vars, NEW j \in Subs,
                      pc'[j] = "settling", tui'.alive, ~tui'.cut, ~Covered(tui')
               PROVE  tui'.composer = <<Prompt(j)>>
    BY DEF PasteIntact
  <1>1. pc \in [Subs -> Phases] /\ tui \in Screens /\ sub \in [Subs -> SubRecs]
    BY DEF Base, TypeInv, LockInv, ScreenInv, SubInv
  <1>2. CASE pc[j] = "settling" /\ tui'.composer = tui.composer /\ tui'.cut = tui.cut
             /\ tui.alive /\ (Covered(tui) => Covered(tui'))
    BY <1>2 DEF PasteIntact
  <1>3. CASE pc[j] = "settling" /\ UNCHANGED tui
    BY <1>2, <1>3
  <1>4. ASSUME NEW i \in Subs, NEW k \in Kinds, Start(i, k) PROVE pc[j] = "settling" /\ UNCHANGED tui
    BY <1>1, <1>4 DEF Start
  <1>5. ASSUME NEW i \in Subs, Step(i) PROVE tui'.composer = <<Prompt(j)>>
    <2>1. i = j
      BY <1>5, StepOf DEF Base, GoesIn
    <2>2. ~(Refuse(j) \/ Leave(j))
      BY <1>1 DEF Refuse, Leave
    <2>3. ~(Settled(j) \/ Look(j) \/ EditEnds(j))
      BY <1>1 DEF Settled, Look, EditEnds, End
    <2>4. ~Looked(j)
      <3>1. ~Retry(j)
        BY <1>1 DEF Retry
      <3> QED BY <1>1, <3>1 DEF Looked, Missing, End
    <2>5. ~EditWrites(j)
      BY <1>1 DEF EditWrites
    <2>6. GoIn(j)
      BY <1>5, <2>1, <2>2, <2>3, <2>4, <2>5 DEF Step, Begin, Left
    <2>7. ~Edits(j)
      BY <1>1, <2>6 DEF GoIn
    <2>8. tui' \in Pressed(<<Wipe, Paste(<<Prompt(j)>>)>>) /\ <<Prompt(j)>> \in Texts
      BY <2>6, <2>7, OwnKeys DEF GoIn, WriteAll
    <2> QED BY <2>6, <2>8, WipedAndPasted
  <1>6. CASE Type(Word(Len(typed) + 1)) \/ Type(Enter(Person)) \/ Type(Tab)
    <2>1. pc[j] = "settling" /\ goingIn
      BY <1>6 DEF Type, Base, HandlingInv, Handled
    <2> QED BY <1>3, <1>6, <2>1 DEF Type
  <1>7. CASE ScreenChanges
    BY <1>1, <1>2, <1>7 DEF ScreenChanges, Screens, Covered
  <1>8. CASE QueueDrains
    BY <1>1, <1>2, <1>8 DEF QueueDrains, Screens, Covered
  <1>9. CASE TurnRecorded \/ UNCHANGED vars
    BY <1>3, <1>9 DEF TurnRecorded, vars
  <1> QED
    BY <1>3, <1>4, <1>5, <1>6, <1>7, <1>8, <1>9 DEF Next

(* prompt_submit_lock and prompt_going_in: whatever else is submitted or typed,
   the Enter that follows a paste finds that prompt in the composer and
   nothing else, on every screen that shows its composer and has not lost the
   end of a paste. *)
THEOREM PastesStayWhole == Spec => []PasteIntact
PROOF
  <1>1. Init => PasteIntact
    BY DEF Init, PasteIntact
  <1> QED BY <1>1, BaseInit, BaseStep, PasteStep, PTL DEF Spec

-----------------------------------------------------------------------------
(* Confirmed prompts *)

(* The agent has this prompt, or one that reads the same. *)
TakenAlike(i) == \E j \in Subs : Same(i, j) /\ Taken(j)

ConfirmedAlike == \A i \in Subs : sub[i].outcome = "confirmed" /\ ~Edits(i) => TakenAlike(i)

(* What a look at the transcript showed is there. *)
ConfirmInv == ConfirmedAlike /\ \A i \in Subs : sub[i].seen => TakenAlike(i)

(* What a submission says never changes. *)
LEMMA TextKept ==
  ASSUME Base, [Next]_vars, NEW i \in Subs
  PROVE  sub'[i].text = sub[i].text
PROOF
  <1>1. sub \in [Subs -> SubRecs]
    BY DEF Base, TypeInv, SubInv
  <1>2. ASSUME NEW j \in Subs, NEW k \in Kinds, Start(j, k) PROVE sub'[i].text = sub[i].text
    BY <1>1, <1>2 DEF Start, SubRecs
  <1>3. ASSUME NEW j \in Subs, NEW o, sub' = [sub EXCEPT ![j].outcome = o] PROVE sub'[i].text = sub[i].text
    BY <1>1, <1>3 DEF SubRecs
  <1>4. ASSUME NEW j \in Subs, Step(j) PROVE sub'[i].text = sub[i].text
    <2>1. ASSUME NEW written, NEW d, NEW landed, NEW o, End(j, written, d, landed, o) PROVE sub'[i].text = sub[i].text
      <3>1. sub' = [sub EXCEPT ![j].outcome = o]
        BY <2>1 DEF End
      <3> QED BY <1>3, <3>1
    <2>2. CASE Begin(j) \/ Left(j)
      <3>1. CASE Refuse(j)
        <4>1. sub' = [sub EXCEPT ![j].outcome = "failed"]
          BY <3>1 DEF Refuse
        <4> QED BY <1>3, <4>1
      <3>2. CASE Leave(j)
        BY <3>2 DEF Leave
      <3>3. CASE GoIn(j)
        <4>1. PICK kept, todo : sub' = [sub EXCEPT ![j].kept = kept, ![j].todo = todo]
          BY <3>3 DEF GoIn
        <4> QED BY <1>1, <4>1 DEF SubRecs
      <3> QED BY <2>2, <3>1, <3>2, <3>3 DEF Begin, Left
    <2>3. CASE Settled(j)
      BY <2>1, <2>3 DEF Settled
    <2>4. CASE Look(j)
      <3>1. PICK seen : sub' = [sub EXCEPT ![j].seen = seen]
        BY <2>4 DEF Look
      <3> QED BY <1>1, <3>1 DEF SubRecs
    <2>5. CASE Looked(j) /\ ~Retry(j)
      BY <2>1, <2>5 DEF Looked, Missing
    <2>6. CASE Retry(j)
      <3>1. CASE LastPoll(j)
        <4>1. sub' = [sub EXCEPT ![j].outcome = "unconfirmed"]
          BY <2>6, <3>1 DEF Retry
        <4> QED BY <1>3, <4>1
      <3>2. CASE ~LastPoll(j)
        <4>1. PICK polls, presses : sub' = [sub EXCEPT ![j].polls = polls, ![j].presses = presses]
          BY <2>6, <3>2 DEF Retry
        <4> QED BY <1>1, <4>1 DEF SubRecs
      <3> QED BY <3>1, <3>2
    <2>7. CASE EditWrites(j)
      <3>1. sub' = [sub EXCEPT ![j].todo = Tail(@)]
        BY <2>7 DEF EditWrites
      <3> QED BY <1>1, <3>1 DEF SubRecs
    <2>8. CASE EditEnds(j)
      BY <2>1, <2>8 DEF EditEnds
    <2> QED BY <1>4, <2>2, <2>3, <2>4, <2>5, <2>6, <2>7, <2>8 DEF Step
  <1>5. CASE Type(Word(Len(typed) + 1)) \/ Type(Enter(Person)) \/ Type(Tab)
    BY <1>5 DEF Type
  <1>6. CASE ScreenChanges \/ QueueDrains \/ TurnRecorded \/ UNCHANGED vars
    BY <1>6 DEF ScreenChanges, QueueDrains, TurnRecorded, vars
  <1> QED
    BY <1>2, <1>4, <1>5, <1>6 DEF Next

LEMMA AlikeKept ==
  ASSUME Base, [Next]_vars, NEW i \in Subs, TakenAlike(i)
  PROVE  TakenAlike(i)'
PROOF
  <1>1. PICK j \in Subs : Same(i, j) /\ Taken(j)
    BY DEF TakenAlike
  <1>2. Same(i, j)'
    BY <1>1, TextKept DEF Same
  <1> QED BY <1>1, <1>2, TakenKept DEF TakenAlike

LEMMA ConfirmStep == Base /\ ConfirmInv /\ [Next]_vars => ConfirmInv'
PROOF
  <1> DEFINE Good(i) == /\ sub[i].outcome = "confirmed" /\ ~Edits(i) => TakenAlike(i)
                        /\ sub[i].seen => TakenAlike(i)
  <1> SUFFICES ASSUME Base, ConfirmInv, [Next]_vars, NEW j \in Subs PROVE Good(j)'
    BY DEF ConfirmInv, ConfirmedAlike
  <1>1. Good(j) /\ sub[j] \in SubRecs /\ sub \in [Subs -> SubRecs] /\ Handled(j)
    BY DEF ConfirmInv, ConfirmedAlike, Base, TypeInv, SubInv, HandlingInv
  <1>2. CASE sub'[j] = sub[j]
    <2>1. TakenAlike(j) => TakenAlike(j)'
      BY AlikeKept
    <2> QED BY <1>1, <1>2, <2>1 DEF Edits
  <1>3. CASE /\ sub'[j].seen = sub[j].seen /\ sub'[j].kind = sub[j].kind
             /\ sub'[j].outcome = "confirmed" => sub[j].seen \/ Edits(j)
    <2>1. TakenAlike(j) => TakenAlike(j)'
      BY AlikeKept
    <2> QED BY <1>1, <1>3, <2>1 DEF Edits
  <1>4. ASSUME NEW i \in Subs, NEW k \in Kinds, Start(i, k) PROVE Good(j)'
    <2>1. CASE i = j
      <3>1. sub'[j].outcome = "none" /\ sub'[j].seen = sub[j].seen
        BY <1>1, <1>4, <2>1 DEF Start, Handled, SubRecs
      <3>2. TakenAlike(j) => TakenAlike(j)'
        BY AlikeKept
      <3> QED BY <1>1, <3>1, <3>2
    <2>2. CASE i # j
      BY <1>1, <1>2, <1>4, <2>2 DEF Start
    <2> QED BY <2>1, <2>2
  <1>5. ASSUME NEW i \in Subs, Step(i), i # j PROVE Good(j)'
    BY <1>2, <1>5, StepOf DEF Base
  <1>6. ASSUME Step(j) PROVE Good(j)'
    <2>1. sub[j].outcome = "none"
      BY <1>1, <1>6, StepOf DEF Base, Handled
    <2>2. CASE Begin(j) \/ Left(j)
      <3>1. /\ sub'[j].seen = sub[j].seen /\ sub'[j].kind = sub[j].kind
            /\ sub'[j].outcome # "confirmed"
        <4>1. CASE Refuse(j) \/ Leave(j)
          BY <1>1, <2>1, <4>1 DEF Refuse, Leave, SubRecs
        <4>2. CASE GoIn(j)
          <5>1. PICK kept, todo : sub' = [sub EXCEPT ![j].kept = kept, ![j].todo = todo]
            BY <4>2 DEF GoIn
          <5> QED BY <1>1, <2>1, <5>1 DEF SubRecs
        <4> QED BY <2>2, <4>1, <4>2 DEF Begin, Left
      <3> QED BY <1>3, <3>1
    <2>3. CASE Settled(j)
      <3>1. /\ sub'[j].seen = sub[j].seen /\ sub'[j].kind = sub[j].kind
            /\ sub'[j].outcome # "confirmed"
        BY <1>1, <2>1, <2>3 DEF Settled, End, SubRecs
      <3> QED BY <1>3, <3>1
    <2>4. CASE Look(j)
      <3> DEFINE shown == UNION {ToSet(tui.turns[n].text) : n \in 1..recorded}
      <3>1. sub'[j].outcome = "none" /\ sub'[j].seen = (\E l \in Subs : Same(j, l) /\ Prompt(l) \in shown)
        BY <1>1, <2>1, <2>4 DEF Look, SubRecs
      <3>2. ASSUME NEW l \in Subs, Prompt(l) \in shown PROVE Taken(l)
        <4>1. PICK n \in 1..recorded : Prompt(l) \in ToSet(tui.turns[n].text)
          BY <3>2
        <4>2. n \in DOMAIN tui.turns
          <5>1. tui.turns \in Seq(Turns) /\ recorded \in 0..Len(tui.turns)
            BY DEF Base, TypeInv, ScreenInv, Screens
          <5> QED BY <5>1
        <4> QED BY <4>1, <4>2 DEF Taken
      <3> HIDE DEF shown
      <3>3. sub'[j].seen => TakenAlike(j)
        BY <3>1, <3>2 DEF TakenAlike
      <3>4. TakenAlike(j) => TakenAlike(j)'
        BY AlikeKept
      <3> QED BY <3>1, <3>3, <3>4
    <2>5. CASE Looked(j)
      <3>1. /\ sub'[j].seen = sub[j].seen /\ sub'[j].kind = sub[j].kind
            /\ sub'[j].outcome = "confirmed" => sub[j].seen
        <4>1. CASE Retry(j)
          <5>1. CASE LastPoll(j)
            BY <1>1, <4>1, <5>1 DEF Retry, SubRecs
          <5>2. CASE ~LastPoll(j)
            BY <1>1, <2>1, <4>1, <5>2, ZenonT(30) DEF Retry, SubRecs
          <5> QED BY <5>1, <5>2
        <4>2. CASE ~Retry(j)
          BY <1>1, <2>5, <4>2 DEF Looked, Missing, End, SubRecs
        <4> QED BY <4>1, <4>2
      <3> QED BY <1>3, <3>1
    <2>6. CASE EditWrites(j)
      <3>1. sub'[j].seen = sub[j].seen /\ sub'[j].kind = sub[j].kind /\ sub'[j].outcome = sub[j].outcome
        BY <1>1, <2>6 DEF EditWrites, SubRecs
      <3> QED BY <1>3, <2>1, <3>1
    <2>7. CASE EditEnds(j)
      <3>1. sub'[j].seen = sub[j].seen /\ sub'[j].kind = sub[j].kind /\ Edits(j)
        BY <1>1, <2>7 DEF EditEnds, End, Handled, SubRecs
      <3> QED BY <1>3, <3>1
    <2> QED BY <1>6, <2>2, <2>3, <2>4, <2>5, <2>6, <2>7 DEF Step
  <1>7. CASE Type(Word(Len(typed) + 1)) \/ Type(Enter(Person)) \/ Type(Tab)
    BY <1>2, <1>7 DEF Type
  <1>8. CASE ScreenChanges \/ QueueDrains \/ TurnRecorded \/ UNCHANGED vars
    BY <1>2, <1>8 DEF ScreenChanges, QueueDrains, TurnRecorded, vars
  <1> QED
    BY <1>4, <1>5, <1>6, <1>7, <1>8 DEF Next

(* PromptOutcome.CONFIRMED: the agent took this prompt or one that reads the
   same, which is all a transcript can show. *)
THEOREM ConfirmedWasTaken == Spec => []ConfirmedAlike
PROOF
  <1>1. Init => ConfirmInv
    BY DEF Init, ConfirmInv, ConfirmedAlike, NewSub
  <1>2. ConfirmInv => ConfirmedAlike
    BY DEF ConfirmInv
  <1> QED BY <1>1, <1>2, BaseInit, BaseStep, ConfirmStep, PTL DEF Spec

-----------------------------------------------------------------------------
(* A paste whose end was lost *)

HasPrompt(t, i) == Prompt(i) \in ToSet(t.composer)

(* As long as nothing else went wrong a prompt is taken or waits in an open
   paste, and once an Enter has been repeated it is taken. *)
Heals(i) ==
  /\ pc[i] = "settling" => HasPrompt(tui, i)
  /\ pc[i] \in {"polling", "looked"} => Taken(i) \/ (tui.pasting /\ HasPrompt(tui, i))
  /\ sub[i].presses > 0 => Taken(i)

HealInv == Fine(tui) => \A i \in Subs : Heals(i)

TakenOn(t, i) == \E n \in DOMAIN t.turns : Prompt(i) \in ToSet(t.turns[n].text)

(* An Enter is swallowed by an open paste, or sends what the composer holds. *)
LEMMA EnterSends ==
  ASSUME NEW t \in Screens, Sound(t), NEW b \in Subs \cup {Person}, NEW u \in Press(t, Enter(b)), Fine(u),
         NEW i \in Subs, HasPrompt(t, i)
  PROVE  (t.pasting /\ u = t) \/ TakenOn(u, i)
PROOF
  <1>1. u \in Screens /\ Later(t, u)
    <2>1. Enter(b) \in Keys
      BY DEF Keys
    <2> QED BY <2>1, PressGood
  <1>2. Fine(t) /\ t.alive /\ ~t.dialog /\ ~t.mode
    BY <1>1, FineBefore DEF Sound, Covered
  <1>3. u \in PressEnter(t, b)
    BY <1>2, PressEnterKey
  <1>4. t.composer # <<>>
    BY DEF HasPrompt, ToSet
  <1>5. CASE t.pasting
    BY <1>2, <1>3, <1>5 DEF PressEnter
  <1>6. CASE ~t.pasting
    <2>1. \/ u = [t EXCEPT !.turns = Append(@, Turn(b, t.composer)), !.composer = <<>>]
          \/ \E x \in {v \in {t.upsets + 1} : Upset(t, "absorb")} : u = [t EXCEPT !.upsets = x]
      BY <1>2, <1>3, <1>4, <1>6 DEF PressEnter
    <2>2. CASE u = [t EXCEPT !.turns = Append(@, Turn(b, t.composer)), !.composer = <<>>]
      <3> DEFINE turn == Turn(b, t.composer)
      <3>1. t.turns \in Seq(Turns) /\ turn.text = t.composer
        BY DEF Screens, Turn
      <3>2. u.turns = Append(t.turns, turn)
        BY <2>2 DEF Screens
      <3> HIDE DEF turn
      <3>3. Len(t.turns) + 1 \in DOMAIN u.turns /\ u.turns[Len(t.turns) + 1] = turn
        BY <3>1, <3>2
      <3> QED BY <3>1, <3>3 DEF TakenOn, HasPrompt
    <2>3. CASE \E x \in {v \in {t.upsets + 1} : Upset(t, "absorb")} : u = [t EXCEPT !.upsets = x]
      <3>1. PICK x \in {v \in {t.upsets + 1} : Upset(t, "absorb")} : u = [t EXCEPT !.upsets = x]
        BY <2>3
      <3>2. x = t.upsets + 1 /\ t.upsets \in Nat
        BY OneUpset
      <3>3. u.upsets = t.upsets + 1 /\ u.cut = t.cut
        BY <3>1, <3>2 DEF Screens
      <3>4. t.upsets = 0 /\ t.cut
        BY <3>2, <3>3 DEF Fine, Calm
      <3> QED BY <3>4 DEF Sound, Calm
    <2> QED BY <2>1, <2>2, <2>3
  <1> QED BY <1>5, <1>6

(* What the person types into an open paste stays in it. *)
LEMMA PasteHolds ==
  ASSUME NEW t \in Screens, Sound(t), NEW k \in UserKeys, NEW u \in Press(t, k), Fine(u),
         NEW i \in Subs, t.pasting, HasPrompt(t, i)
  PROVE  u.pasting /\ HasPrompt(u, i)
PROOF
  <1>1. k \in Keys
    BY DEF UserKeys, Keys
  <1>2. u \in Screens /\ Later(t, u)
    BY <1>1, PressGood
  <1>3. Fine(t) /\ t.alive /\ ~t.dialog /\ ~t.mode /\ ~Covered(t)
    BY <1>2, FineBefore DEF Sound, Covered
  <1>4. CASE k = Enter(Person)
    <2>1. u \in PressEnter(t, Person)
      BY <1>3, <1>4, PressEnterKey
    <2> QED BY <1>3, <2>1 DEF PressEnter
  <1>5. CASE k = Tab
    BY <1>3, <1>5, PressOne
  <1>6. CASE \E n \in 1..MaxTyped : k = Word(n)
    <2>1. PICK n \in 1..MaxTyped : k = Word(n)
      BY <1>6
    <2>2. u = [t EXCEPT !.composer = Append(@, Word(n))]
      BY <1>3, <2>1, PressWordKey
    <2>3. u.composer = Append(t.composer, Word(n)) /\ u.pasting = t.pasting /\ t.composer \in Texts
      BY <2>2 DEF Screens
    <2>4. ToSet(t.composer) \subseteq ToSet(Append(t.composer, Word(n)))
      BY <2>3 DEF ToSet, Texts
    <2> QED BY <2>3, <2>4 DEF HasPrompt
  <1> QED BY <1>4, <1>5, <1>6 DEF UserKeys

LEMMA TakenOnTui ==
  ASSUME NEW i \in Subs
  PROVE  Taken(i) <=> TakenOn(tui, i)
BY DEF Taken, TakenOn

(* A retry sends the prompt that an open paste held back. *)
LEMMA RetryHeals ==
  ASSUME Base, NEW i \in Subs, Retry(i), Fine(tui'), tui.pasting, HasPrompt(tui, i), sub[i].presses = 0
  PROVE  \/ TakenOn(tui', i)
         \/ /\ tui'.pasting /\ HasPrompt(tui', i)
            /\ ~LastPoll(i) => sub'[i].presses = 0
PROOF
  <1> DEFINE given == GivenTyping(i)
             press == MayPress(i, Tracked(draft, given))
             G == {t \in Screens : Sound(t) /\ (Fine(t) => t.pasting /\ HasPrompt(t, i))}
  <1>1. tui \in Screens /\ Sound(tui) /\ tui \in G /\ sub \in [Subs -> SubRecs]
    BY DEF Base, TypeInv, ScreenInv, HandlingInv, SubInv
  <1>2. given \in Seq(UserKeys)
    BY DEF Base, TypeInv, TypingInv, GivenTyping
  <1>3. given \in Seq(Keys)
    BY <1>2, UserKeysAreKeys
  <1>4. Pressed(given) \subseteq G
    <2>1. \A t \in G \cap Screens, k \in UserKeys : Press(t, k) \subseteq G
      <3> SUFFICES ASSUME NEW t \in G, NEW k \in UserKeys, NEW u \in Press(t, k) PROVE u \in G
        OBVIOUS
      <3>1. t \in Screens /\ Sound(t) /\ k \in Keys
        BY DEF UserKeys, Keys
      <3>2. u \in Screens /\ Later(t, u) /\ Sound(u)
        BY <3>1, PressGood DEF Later
      <3>3. ASSUME Fine(u) PROVE u.pasting /\ HasPrompt(u, i)
        <4>1. Fine(t)
          BY <3>1, <3>2, <3>3, FineBefore
        <4> QED BY <3>1, <3>3, <4>1, PasteHolds
      <3> QED BY <3>2, <3>3
    <2>2. UserKeys \in SUBSET Keys
      BY DEF UserKeys, Keys
    <2> HIDE DEF G
    <2> QED BY <1>1, <1>2, <2>1, <2>2, PressedKeeps
  <1>5. CASE press
    <2>1. tui' \in Pressed(given \o RetryKeys(i))
      BY <1>5 DEF Retry, WriteAll
    <2>2. RetryKeys(i) = <<PasteEnd>> \o <<Enter(i)>>
      BY DEF RetryKeys
    <2> HIDE DEF given, press
    <2>3. PasteEnd \in Keys /\ Enter(i) \in Keys
      BY DEF Keys
    <2>4. given \o RetryKeys(i) = Append(Append(given, PasteEnd), Enter(i)) /\ Append(given, PasteEnd) \in Seq(Keys)
      BY <1>3, <2>2, <2>3
    <2>5. PICK s \in Pressed(Append(given, PasteEnd)) : tui' \in Press(s, Enter(i))
      BY <1>1, <2>1, <2>3, <2>4, PressedLast
    <2>6. PICK t \in Pressed(given) : s \in Press(t, PasteEnd)
      BY <1>1, <1>3, <2>3, <2>5, PressedLast
    <2>7. t \in Screens /\ Sound(t) /\ (Fine(t) => t.pasting /\ HasPrompt(t, i))
      BY <1>4, <2>6
    <2>8. s \in Screens /\ Later(t, s) /\ Sound(s)
      BY <2>3, <2>6, <2>7, PressGood DEF Later
    <2>9. Fine(s)
      <3>1. tui' \in Screens /\ Later(s, tui')
        BY <2>3, <2>5, <2>8, PressGood
      <3> QED BY <2>8, <3>1, FineBefore
    <2>10. Fine(t)
      BY <2>7, <2>8, <2>9, FineBefore
    <2>11. s = [t EXCEPT !.pasting = FALSE]
      <3>1. t.alive
        BY <2>7, <2>10 DEF Sound
      <3> QED BY <2>6, <3>1, PressOne
    <2>12. ~s.pasting /\ HasPrompt(s, i)
      <3>1. s.pasting = FALSE /\ s.composer = t.composer
        BY <2>7, <2>11 DEF Screens
      <3> QED BY <2>7, <2>10, <3>1 DEF HasPrompt
    <2>13. i \in Subs \cup {Person}
      OBVIOUS
    <2> QED BY <2>5, <2>8, <2>12, <2>13, EnterSends
  <1>6. CASE ~press
    <2>1. tui' \in Pressed(given \o <<>>)
      BY <1>6 DEF Retry, WriteAll
    <2>2. given \o <<>> = given
      BY <1>3, JoinEnds
    <2>3. tui' \in G
      BY <1>4, <2>1, <2>2
    <2>4. ASSUME ~LastPoll(i) PROVE sub'[i].presses = 0
      <3>1. sub' = [sub EXCEPT ![i].polls = @ + 1, ![i].presses = IF press THEN @ + 1 ELSE @]
        BY <2>4 DEF Retry
      <3>2. sub' = [sub EXCEPT ![i].polls = @ + 1, ![i].presses = @]
        BY <1>6, <3>1
      <3> QED BY <1>1, <3>2 DEF SubRecs
    <2> QED BY <2>3, <2>4
  <1> QED BY <1>5, <1>6

LEMMA HealStep == Base /\ HealInv /\ [Next]_vars => HealInv'
PROOF
  <1> SUFFICES ASSUME Base, HealInv, [Next]_vars, Fine(tui'), NEW j \in Subs PROVE Heals(j)'
    BY DEF HealInv
  <1>1. /\ tui \in Screens /\ tui' \in Screens /\ Later(tui, tui') /\ Sound(tui) /\ Sound(tui')
        /\ sub \in [Subs -> SubRecs] /\ pc \in [Subs -> Phases] /\ Handled(j)
    BY ScreenStep DEF Base, TypeInv, ScreenInv, HandlingInv, SubInv, LockInv, Later
  <1>2. Fine(tui) /\ Heals(j) /\ tui.alive /\ tui'.alive /\ ~Covered(tui) /\ ~Covered(tui')
    BY <1>1, FineBefore DEF HealInv, Sound
  <1>3. Taken(j) => Taken(j)'
    BY TakenKept
  <1>4. sub[j] \in SubRecs /\ sub[j].presses \in Nat
    BY <1>1 DEF SubRecs
  <1>5. CASE /\ sub'[j].presses = sub[j].presses
             /\ pc'[j] \notin {"settling", "polling", "looked"}
    BY <1>2, <1>3, <1>5 DEF Heals
  <1>6. CASE /\ sub'[j].presses = sub[j].presses /\ pc'[j] = pc[j]
             /\ tui'.pasting = tui.pasting /\ tui'.composer = tui.composer
    BY <1>2, <1>3, <1>6 DEF Heals, HasPrompt
  <1>7. ASSUME NEW i \in Subs, NEW k \in Kinds, Start(i, k) PROVE Heals(j)'
    <2>1. sub'[j].presses = sub[j].presses /\ UNCHANGED tui
      BY <1>1, <1>4, <1>7 DEF Start, SubRecs
    <2>2. pc'[j] = pc[j] \/ pc'[j] = "waiting"
      BY <1>1, <1>7 DEF Start
    <2> QED BY <1>5, <1>6, <2>1, <2>2
  <1>8. ASSUME NEW i \in Subs, Step(i), i # j PROVE Heals(j)'
    BY <1>5, <1>8, StepOf DEF Base, GoesIn
  <1>9. ASSUME Step(j) PROVE Heals(j)'
    <2>1. CASE Refuse(j) \/ Leave(j)
      BY <1>1, <1>4, <1>5, <2>1 DEF Refuse, Leave, SubRecs
    <2>2. CASE GoIn(j)
      <3>1. sub'[j].presses = sub[j].presses
        <4>1. PICK kept, todo : sub' = [sub EXCEPT ![j].kept = kept, ![j].todo = todo]
          BY <2>2 DEF GoIn
        <4> QED BY <1>1, <1>4, <4>1 DEF SubRecs
      <3>2. CASE Edits(j)
        BY <1>1, <1>5, <2>2, <3>1, <3>2 DEF GoIn
      <3>3. CASE ~Edits(j)
        <4>1. pc'[j] = "settling" /\ tui' \in Pressed(<<Wipe, Paste(<<Prompt(j)>>)>>) /\ <<Prompt(j)>> \in Texts
          BY <1>1, <2>2, <3>3, OwnKeys DEF GoIn, WriteAll
        <4>2. PICK e \in Texts : tui'.composer = e \o <<Prompt(j)>>
          BY <1>2, <4>1, WipedAndPasted
        <4>3. HasPrompt(tui', j)
          <5>1. Len(e) + 1 \in DOMAIN (e \o <<Prompt(j)>>) /\ (e \o <<Prompt(j)>>)[Len(e) + 1] = Prompt(j)
            BY DEF Texts
          <5> QED BY <4>2, <5>1 DEF HasPrompt, ToSet
        <4> QED BY <1>2, <1>3, <3>1, <4>1, <4>3 DEF Heals, HasPrompt
      <3> QED BY <3>2, <3>3
    <2>3. CASE Settled(j)
      <3>1. CASE pc'[j] = "polling" /\ WriteAll(<<Enter(j)>>) /\ UNCHANGED sub
        <4>1. Enter(j) \in Keys /\ j \in Subs \cup {Person}
          BY DEF Keys
        <4>2. tui' \in Press(tui, Enter(j))
          BY <1>1, <3>1, <4>1, PressedOne DEF WriteAll
        <4>3. HasPrompt(tui, j)
          BY <1>2, <2>3 DEF Settled, Heals
        <4>4. (tui.pasting /\ tui' = tui) \/ TakenOn(tui', j)
          BY <1>1, <4>1, <4>2, <4>3, EnterSends
        <4> QED BY <1>2, <1>3, <3>1, <4>3, <4>4 DEF Heals, HasPrompt, Taken, TakenOn
      <3>2. CASE ~(pc'[j] = "polling" /\ WriteAll(<<Enter(j)>>) /\ UNCHANGED sub)
        <4>1. pc'[j] = "done" /\ sub'[j].presses = sub[j].presses
          BY <1>1, <1>4, <2>3, <3>2 DEF Settled, End, SubRecs
        <4> QED BY <1>5, <4>1
      <3> QED BY <3>1, <3>2
    <2>4. CASE Look(j)
      <3>1. pc[j] = "polling" /\ pc'[j] = "looked" /\ sub'[j].presses = sub[j].presses /\ UNCHANGED tui
        BY <1>1, <1>4, <2>4 DEF Look, SubRecs
      <3> QED BY <1>2, <1>3, <3>1 DEF Heals, HasPrompt
    <2>5. CASE Looked(j) /\ Retry(j)
      <3>1. pc[j] = "looked"
        BY <2>5 DEF Looked
      <3>2. Taken(j) \/ (tui.pasting /\ HasPrompt(tui, j) /\ sub[j].presses = 0)
        BY <1>2, <1>4, <3>1 DEF Heals
      <3>3. Taken(j)' \/ (tui'.pasting /\ HasPrompt(tui', j) /\ (~LastPoll(j) => sub'[j].presses = 0))
        <4>1. CASE Taken(j)
          BY <1>3, <4>1
        <4>2. CASE ~Taken(j)
          <5>1. TakenOn(tui', j) \/ (tui'.pasting /\ HasPrompt(tui', j) /\ (~LastPoll(j) => sub'[j].presses = 0))
            BY <2>5, <3>2, <4>2, RetryHeals
          <5> QED BY <5>1 DEF Taken, TakenOn
        <4> QED BY <4>1, <4>2
      <3>4. CASE LastPoll(j)
        <4>1. pc'[j] = "done" /\ sub'[j].presses = sub[j].presses
          BY <1>1, <1>4, <2>5, <3>4 DEF Retry, SubRecs
        <4> QED BY <1>5, <4>1
      <3>5. CASE ~LastPoll(j)
        <4>1. pc'[j] = "polling"
          BY <1>1, <2>5, <3>5 DEF Retry
        <4> QED BY <3>3, <3>5, <4>1 DEF Heals, HasPrompt
      <3> QED BY <3>4, <3>5
    <2>6. CASE Looked(j) /\ ~Retry(j)
      <3>1. pc'[j] = "done" /\ sub'[j].presses = sub[j].presses
        BY <1>1, <1>4, <2>6 DEF Looked, Missing, End, SubRecs
      <3> QED BY <1>5, <3>1
    <2>7. CASE EditWrites(j)
      <3>1. pc'[j] = "editing" /\ sub'[j].presses = sub[j].presses
        BY <1>1, <1>4, <2>7 DEF EditWrites, SubRecs
      <3> QED BY <1>5, <3>1
    <2>8. CASE EditEnds(j)
      <3>1. pc'[j] = "done" /\ sub'[j].presses = sub[j].presses
        BY <1>1, <1>4, <2>8 DEF EditEnds, End, SubRecs
      <3> QED BY <1>5, <3>1
    <2> QED BY <1>9, <2>1, <2>2, <2>3, <2>4, <2>5, <2>6, <2>7, <2>8 DEF Step, Begin, Left
  <1>10. ASSUME NEW key \in UserKeys, Type(key) PROVE Heals(j)'
    <2>1. CASE goingIn
      BY <1>6, <1>10, <2>1 DEF Type
    <2>2. CASE ~goingIn
      <3>1. pc'[j] = pc[j] /\ sub'[j] = sub[j] /\ WriteAll(<<key>>) /\ pc[j] # "settling" /\ key \in Keys
        BY <1>1, <1>10, <2>2 DEF Type, Handled, UserKeys, Keys
      <3>2. tui' \in Press(tui, key)
        BY <1>1, <3>1, PressedOne DEF WriteAll
      <3>3. ASSUME tui.pasting, HasPrompt(tui, j) PROVE tui'.pasting /\ HasPrompt(tui', j)
        BY <1>1, <3>2, <3>3, PasteHolds
      <3> QED BY <1>2, <1>3, <3>1, <3>3 DEF Heals, HasPrompt
    <2> QED BY <2>1, <2>2
  <1>11. CASE Type(Word(Len(typed) + 1)) \/ Type(Enter(Person)) \/ Type(Tab)
    <2>1. Len(typed) < MaxTyped
      BY <1>11 DEF Type
    <2>2. Word(Len(typed) + 1) \in UserKeys /\ Enter(Person) \in UserKeys /\ Tab \in UserKeys
      BY <2>1, NextKeys DEF UserKeys, Base, TypeInv
    <2> QED BY <1>10, <1>11, <2>2
  <1>12. CASE ScreenChanges
    <2>1. tui.upsets \in Nat
      BY <1>1, PromptConstants DEF Screens
    <2>2. tui'.upsets = tui.upsets + 1 /\ tui'.cut = tui.cut
      BY <1>1, <1>12 DEF ScreenChanges, Screens
    <2>3. FALSE
      BY <1>1, <2>1, <2>2 DEF Fine, Calm, Sound
    <2> QED BY <2>3
  <1>13. CASE QueueDrains
    <2>1. tui'.composer = tui.composer /\ tui'.pasting = tui.pasting
      BY <1>1, <1>13 DEF QueueDrains, Screens
    <2> QED BY <1>6, <1>13, <2>1 DEF QueueDrains
  <1>14. CASE TurnRecorded \/ UNCHANGED vars
    BY <1>6, <1>14 DEF TurnRecorded, vars
  <1> QED
    BY <1>7, <1>8, <1>9, <1>11, <1>12, <1>13, <1>14 DEF Next

(* _press_enter_until_prompt_lands: a paste whose end was lost swallows the
   Enter after it, and the first Enter repeated, after closing that paste, gets
   the prompt to the agent, whatever the person types meanwhile. *)
THEOREM CutPastesHeal == Spec => []CutPasteHealed
PROOF
  <1>1. Init => HealInv
    BY DEF Init, HealInv, Heals, NewSub
  <1>2. HealInv => CutPasteHealed
    BY DEF HealInv, CutPasteHealed, Heals, Fine
  <1> QED BY <1>1, <1>2, BaseInit, BaseStep, HealStep, PTL DEF Spec

-----------------------------------------------------------------------------
(* The draft *)

(* Nothing stands between the tracker and the composer. *)
Agree == \A i \in Subs : /\ pc[i] # "editing"
                         /\ sub[i].outcome = "unconfirmed" => sub[i].kind # "prompt"

(* An edit of the queue ends with an empty composer. *)
Empties(i) ==
  pc[i] = "editing" =>
    IF sub[i].todo = <<>> THEN Calm(tui) => tui.composer = <<>>
    ELSE sub[i].todo[Len(sub[i].todo)] \in {<<Wipe>>, <<Tab>>}

DraftInv == /\ Calm(tui) /\ Agree => draft = tui.composer
            /\ \A i \in Subs : Empties(i)

LEMMA AgreeBefore ==
  ASSUME Base, NEW i \in Subs, Step(i), pc[i] # "editing", Agree'
  PROVE  Agree
PROOF
  <1>1. ASSUME NEW j \in Subs
        PROVE  pc[j] # "editing" /\ (sub[j].outcome = "unconfirmed" => sub[j].kind # "prompt")
    <2>1. CASE i = j
      <3>1. sub[j].outcome = "none"
        BY <2>1, StepOf DEF Base, HandlingInv, Handled
      <3> QED BY <2>1, <3>1
    <2>2. CASE i # j
      <3>1. pc'[j] = pc[j] /\ sub'[j] = sub[j]
        BY <2>2, StepOf DEF Base
      <3> QED BY <3>1 DEF Agree
    <2> QED BY <2>1, <2>2
  <1> QED BY <1>1 DEF Agree

(* Keys that the tracker can follow. *)
LEMMA FollowedKeys ==
  ASSUME NEW i \in Subs
  PROVE  /\ UserKeys \subseteq Keys \ {AltUp}
         /\ {Wipe, Tab, Esc, PasteEnd, Enter(i)} \subseteq Keys \ {AltUp}
         /\ \A d \in Texts : Paste(d) \in Keys \ {AltUp}
PROOF
  <1>1. UserKeys \subseteq Keys \ {AltUp}
    BY DEF UserKeys, Keys, AltUp, Tab, Enter, Word
  <1>2. {Wipe, Tab, Esc, PasteEnd, Enter(i)} \subseteq Keys \ {AltUp}
    BY DEF Keys, AltUp, Wipe, Tab, Esc, PasteEnd, Enter
  <1>3. \A d \in Texts : Paste(d) \in Keys \ {AltUp}
    BY DEF Keys, AltUp, Paste
  <1> QED BY <1>1, <1>2, <1>3

(* The tracker's view of a Wipe, an Enter, a Tab. *)
LEMMA TrackedClears ==
  ASSUME NEW d \in Texts, NEW i \in Subs
  PROVE  Track(d, Wipe) = <<>> /\ Track(d, Tab) = <<>> /\ Track(d, Enter(i)) = <<>> /\ Track(d, Esc) = d
         /\ Track(d, PasteEnd) = d
BY DEF Track, Wipe, Tab, Enter, Esc, PasteEnd

LEMMA BackFollowed ==
  ASSUME Base, NEW i \in Subs, NEW d, NEW landed \in BOOLEAN
  PROVE  Back(i, d, landed) \in Seq(Keys \ {AltUp})
PROOF
  <1>1. held \in Seq(Keys \ {AltUp})
    BY FollowedKeys DEF Base, TypeInv, TypingInv
  <1>2. sub[i].kept \in Texts
    <2>1. sub[i] \in SubRecs
      BY DEF Base, TypeInv, SubInv
    <2> QED BY <2>1 DEF SubRecs
  <1>3. PutBack(d, sub[i].kept) \in Seq(Keys \ {AltUp})
    <2>1. Wipe \in Keys \ {AltUp} /\ Paste(sub[i].kept) \in Keys \ {AltUp}
      BY <1>2, FollowedKeys
    <2>2. <<Wipe, Paste(sub[i].kept)>> \in Seq(Keys \ {AltUp}) /\ <<>> \in Seq(Keys \ {AltUp})
      BY <2>1
    <2> QED BY <2>2 DEF PutBack
  <1> QED BY <1>1, <1>3 DEF Back

(* At the end of a prompt the tracker and the composer agree if they did
   before the person got it back. *)
LEMMA EndDraft ==
  ASSUME Base, NEW i \in Subs, NEW written \in Seq(Keys \ {AltUp}), NEW d \in Texts, NEW landed \in BOOLEAN,
         NEW outcome, End(i, written, d, landed, outcome), Calm(tui'),
         NEW e \in Texts, Calm(tui) => tui.composer = e, Tracked(e, written) = d
  PROVE  draft' = tui'.composer
PROOF
  <1> DEFINE back == Back(i, d, landed)
  <1>1. back \in Seq(Keys \ {AltUp})
    BY BackFollowed
  <1>2. tui' \in Pressed(written \o back) /\ draft' = Tracked(d, back)
    BY DEF End, Back, WriteAll
  <1> HIDE DEF back
  <1>3. written \o back \in Seq(Keys \ {AltUp})
    BY <1>1
  <1>4. tui \in Screens /\ Sound(tui)
    BY DEF Base, TypeInv, ScreenInv, HandlingInv
  <1>5. tui'.composer = Tracked(e, written \o back)
    BY <1>2, <1>3, <1>4, PressedTracked
  <1>6. written \in Seq(Keys) /\ back \in Seq(Keys)
    BY <1>1
  <1>7. Tracked(e, written \o back) = Tracked(Tracked(e, written), back)
    BY <1>6, TrackedJoin
  <1> QED BY <1>2, <1>5, <1>7

LEMMA RetryDraft ==
  ASSUME Base, NEW i \in Subs, Retry(i), ~LastPoll(i), Calm(tui'), Calm(tui) => draft = tui.composer
  PROVE  draft' = tui'.composer
PROOF
  <1> DEFINE given == GivenTyping(i)
             d == Tracked(draft, given)
             press == MayPress(i, d)
             own == IF press THEN RetryKeys(i) ELSE <<>>
  <1>1. given \in Seq(Keys \ {AltUp})
    BY FollowedKeys DEF Base, TypeInv, TypingInv, GivenTyping
  <1>2. tui' \in Pressed(given \o own) /\ draft' = (IF press THEN <<>> ELSE d)
    BY DEF Retry, WriteAll
  <1>3. draft \in Texts /\ tui \in Screens /\ Sound(tui) /\ <<>> \in Texts
    BY DEF Base, TypeInv, ScreenInv, HandlingInv, Texts
  <1>4. d \in Texts
    BY <1>1, <1>3, TrackedGood
  <1>5. PasteEnd \in Keys \ {AltUp} /\ Enter(i) \in Keys \ {AltUp}
    BY FollowedKeys
  <1>6. own \in Seq(Keys \ {AltUp}) /\ Tracked(d, own) = (IF press THEN <<>> ELSE d)
    <2>1. CASE ~press
      BY <1>4, <2>1, TrackedNone
    <2>2. CASE press
      <3> HIDE DEF given, d, press
      <3>1. own = (IF sub[i].presses = 0 THEN <<PasteEnd>> ELSE <<>>) \o <<Enter(i)>>
        BY <2>2 DEF RetryKeys
      <3>2. <<PasteEnd>> \in Seq(Keys \ {AltUp}) /\ <<Enter(i)>> \in Seq(Keys \ {AltUp}) /\ <<>> \in Seq(Keys \ {AltUp})
        BY <1>5
      <3>3. PICK first \in Seq(Keys \ {AltUp}) : own = first \o <<Enter(i)>>
        BY <3>1, <3>2
      <3>4. first \in Seq(Keys) /\ <<Enter(i)>> \in Seq(Keys)
        BY <3>2
      <3>5. Tracked(d, first) \in Texts
        BY <1>4, <3>4, TrackedGood
      <3>6. Tracked(d, own) = Tracked(Tracked(d, first), <<Enter(i)>>)
        <4>1. Tracked(d, first \o <<Enter(i)>>) = Tracked(Tracked(d, first), <<Enter(i)>>)
          BY <1>4, <3>4, TrackedJoin
        <4> QED BY <3>3, <4>1
      <3>7. Tracked(Tracked(d, first), <<Enter(i)>>) = Track(Tracked(d, first), Enter(i))
        BY <1>5, <3>5, TrackedOne
      <3>8. Track(Tracked(d, first), Enter(i)) = <<>>
        BY <3>5, TrackedClears
      <3>9. own \in Seq(Keys \ {AltUp})
        BY <3>2, <3>3
      <3> QED BY <2>2, <3>6, <3>7, <3>8, <3>9
    <2> QED BY <2>1, <2>2
  <1> HIDE DEF given, own, press
  <1>7. given \o own \in Seq(Keys \ {AltUp}) /\ given \in Seq(Keys) /\ own \in Seq(Keys)
    BY <1>1, <1>6
  <1>8. tui'.composer = Tracked(draft, given \o own)
    BY <1>2, <1>3, <1>7, PressedTracked
  <1>9. Tracked(draft, given \o own) = Tracked(d, own)
    BY <1>3, <1>7, TrackedJoin
  <1> QED BY <1>2, <1>6, <1>8, <1>9

LEMMA SettledDraft ==
  ASSUME Base, DraftInv, NEW i \in Subs, Settled(i), Calm(tui'), Agree'
  PROVE  draft' = tui'.composer
PROOF
  <1>1. /\ tui \in Screens /\ Sound(tui) /\ draft \in Texts /\ <<>> \in Texts
        /\ Step(i) /\ pc[i] = "settling"
    <2>1. Step(i)
      BY DEF Step
    <2>2. pc[i] = "settling"
      BY DEF Settled
    <2> QED BY <2>1, <2>2 DEF Base, TypeInv, ScreenInv, HandlingInv, Texts
  <1>2. tui' \in Screens /\ Later(tui, tui')
    <2>1. [Next]_vars
      BY <1>1 DEF Next
    <2> QED BY <2>1, ScreenStep DEF Base, ScreenInv
  <1>3. Calm(tui) /\ draft = tui.composer /\ ~tui.dialog
    <2>1. Calm(tui)
      BY <1>1, <1>2, FineBefore
    <2>2. Agree
      BY <1>1, AgreeBefore
    <2> QED BY <1>1, <2>1, <2>2 DEF DraftInv, Sound, Fine, Covered
  <1>4. Tab \in Keys \ {AltUp} /\ Enter(i) \in Keys \ {AltUp} /\ Tab \in Keys /\ Enter(i) \in Keys
    BY FollowedKeys
  <1>5. <<Tab>> \in Seq(Keys \ {AltUp}) /\ <<Enter(i)>> \in Seq(Keys \ {AltUp})
    BY <1>4
  <1>6. Tracked(draft, <<Tab>>) = <<>> /\ Tracked(draft, <<Enter(i)>>) = <<>>
    <2>1. Tracked(draft, <<Tab>>) = Track(draft, Tab)
      BY <1>1, <1>4, TrackedOne
    <2>2. Tracked(draft, <<Enter(i)>>) = Track(draft, Enter(i))
      BY <1>1, <1>4, TrackedOne
    <2> QED BY <1>1, <2>1, <2>2, TrackedClears
  <1>7. CASE End(i, <<Tab>>, <<>>, TRUE, "unconfirmed")
    BY <1>1, <1>3, <1>5, <1>6, <1>7, EndDraft
  <1>8. CASE End(i, <<Enter(i)>>, <<>>, TRUE, "unconfirmed")
    BY <1>1, <1>3, <1>5, <1>6, <1>8, EndDraft
  <1>9. CASE WriteAll(<<Enter(i)>>) /\ draft' = <<>>
    <2>1. tui'.composer = Tracked(draft, <<Enter(i)>>)
      BY <1>1, <1>3, <1>5, <1>9, PressedTracked DEF WriteAll
    <2> QED BY <1>6, <1>9, <2>1
  <1> QED BY <1>3, <1>7, <1>8, <1>9 DEF Settled

LEMMA DraftStep == Base /\ DraftInv /\ [Next]_vars => DraftInv'
PROOF
  <1> SUFFICES ASSUME Base, DraftInv, [Next]_vars PROVE DraftInv'
    OBVIOUS
  <1>1. /\ tui \in Screens /\ tui' \in Screens /\ Later(tui, tui') /\ Sound(tui) /\ Sound(tui')
        /\ sub \in [Subs -> SubRecs] /\ pc \in [Subs -> Phases] /\ draft \in Texts /\ <<>> \in Texts
    BY ScreenStep DEF Base, TypeInv, ScreenInv, HandlingInv, SubInv, LockInv, Later, Texts
  <1>2. Calm(tui') => Calm(tui) /\ tui.alive /\ ~tui.dialog /\ ~tui.mode
    BY <1>1, FineBefore DEF Sound, Fine, Covered
  <1>3. CASE /\ tui'.composer = tui.composer /\ draft' = draft
             /\ Agree' => Agree
             /\ \A j \in Subs : pc'[j] = "editing" => pc[j] = "editing" /\ sub'[j] = sub[j]
    <2>1. Calm(tui') /\ Agree' => draft' = tui'.composer
      BY <1>2, <1>3 DEF DraftInv
    <2>2. ASSUME NEW j \in Subs PROVE Empties(j)'
      BY <1>2, <1>3 DEF DraftInv, Empties
    <2> QED BY <2>1, <2>2 DEF DraftInv
  <1>4. CASE UNCHANGED <<tui, draft, pc, sub>>
    BY <1>3, <1>4 DEF Agree
  <1>5. ASSUME NEW i \in Subs, NEW k \in Kinds, Start(i, k) PROVE DraftInv'
    <2>1. UNCHANGED <<tui, draft>> /\ \A j \in Subs \ {i} : pc'[j] = pc[j] /\ sub'[j] = sub[j]
      BY <1>1, <1>5 DEF Start
    <2>2. pc[i] = "idle" /\ pc'[i] = "waiting" /\ sub[i].outcome = "none"
      BY <1>1, <1>5 DEF Start, Base, HandlingInv, Handled
    <2>3. Agree' => Agree
      BY <2>1, <2>2 DEF Agree
    <2> QED BY <1>3, <2>1, <2>2, <2>3
  <1>6. ASSUME NEW i \in Subs, Step(i) PROVE DraftInv'
    <2>1. /\ pc[i] \in {"waiting", "leaving", "settling", "polling", "looked", "editing"}
          /\ \A j \in Subs \ {i} : ~GoesIn(j) /\ pc'[j] = pc[j] /\ sub'[j] = sub[j]
          /\ sub[i].outcome = "none" /\ sub[i] \in SubRecs
      BY <1>1, <1>6, StepOf DEF Base, HandlingInv, Handled
    <2>2. \A j \in Subs \ {i} : Empties(j)'
      BY <2>1 DEF Empties, GoesIn
    <2>3. pc[i] # "editing" /\ Agree' => Agree
      BY <1>6, AgreeBefore
    <2>4. SUFFICES /\ Calm(tui') /\ Agree' => draft' = tui'.composer
                   /\ Empties(i)'
      BY <2>2 DEF DraftInv
    <2>5. CASE Begin(i) \/ Left(i)
      <3>1. pc[i] # "editing"
        BY <2>5 DEF Begin, Left
      <3>2. CASE Refuse(i)
        <4>1. pc'[i] = "done" /\ UNCHANGED <<tui, draft>>
          BY <1>1, <3>2 DEF Refuse
        <4> QED BY <1>2, <2>3, <3>1, <4>1 DEF DraftInv, Empties
      <3>3. CASE Leave(i)
        <4>1. pc'[i] = "leaving" /\ draft' = draft /\ tui' \in Pressed(<<Esc>>)
          BY <1>1, <3>3 DEF Leave, WriteAll
        <4>2. Esc \in Keys \ {AltUp} /\ Esc \in Keys /\ <<Esc>> \in Seq(Keys \ {AltUp})
          BY FollowedKeys
        <4>3. ASSUME Calm(tui'), Agree' PROVE draft' = tui'.composer
          <5>1. tui.composer = draft
            BY <1>2, <2>3, <3>1, <4>3 DEF DraftInv
          <5>2. tui'.composer = Tracked(draft, <<Esc>>)
            BY <1>1, <4>1, <4>2, <4>3, <5>1, PressedTracked
          <5>3. Tracked(draft, <<Esc>>) = draft
            BY <1>1, <4>2, TrackedOne, TrackedClears
          <5> QED BY <4>1, <5>2, <5>3
        <4> QED BY <4>1, <4>3 DEF Empties
      <3>4. CASE GoIn(i)
        <4>1. CASE Edits(i)
          <5>1. pc'[i] = "editing" /\ sub'[i].todo = Tail(Plan(i))
            <6>1. PICK kept : sub' = [sub EXCEPT ![i].kept = kept, ![i].todo = Tail(Plan(i))]
              BY <3>4, <4>1 DEF GoIn
            <6> QED BY <1>1, <2>1, <3>4, <4>1, <6>1 DEF GoIn, SubRecs
          <5>2. Plan(i) \in Seq(Seq(Keys)) /\ Len(Plan(i)) > 1
                /\ Plan(i)[Len(Plan(i))] \in {<<Wipe>>, <<Tab>>}
            BY <4>1, PlanGood, HandsAreKeys DEF Base, TypeInv
          <5> DEFINE plan == Plan(i)
                     todo == Tail(plan)
          <5> HIDE DEF plan
          <5>3. plan \in Seq(Seq(Keys)) /\ Len(plan) > 1 => todo # <<>> /\ todo[Len(todo)] = plan[Len(plan)]
            BY TailEnds, SMTT(20)
          <5> HIDE DEF todo
          <5>4. sub'[i].todo = todo /\ todo # <<>> /\ todo[Len(todo)] \in {<<Wipe>>, <<Tab>>}
            BY <5>1, <5>2, <5>3 DEF todo, plan
          <5>5. Empties(i)'
            BY <5>4 DEF Empties
          <5> QED BY <5>1, <5>5 DEF Agree
        <4>2. CASE ~Edits(i)
          <5> DEFINE keys == <<Wipe, Paste(<<Prompt(i)>>)>>
          <5>1. pc'[i] = "settling" /\ draft' = Tracked(draft, keys) /\ tui' \in Pressed(keys)
            BY <1>1, <3>4, <4>2 DEF GoIn, WriteAll
          <5>2. keys \in Seq(Keys \ {AltUp})
            <6>1. Wipe \in Keys \ {AltUp} /\ Paste(<<Prompt(i)>>) \in Keys \ {AltUp}
              BY FollowedKeys, OwnKeys
            <6> QED BY <6>1
          <5> HIDE DEF keys
          <5>3. ASSUME Calm(tui'), Agree' PROVE draft' = tui'.composer
            <6>1. tui.composer = draft
              BY <1>2, <2>3, <3>1, <5>3 DEF DraftInv
            <6> QED BY <1>1, <5>1, <5>2, <5>3, <6>1, PressedTracked
          <5> QED BY <5>1, <5>3 DEF Empties
        <4> QED BY <4>1, <4>2
      <3> QED BY <2>5, <3>2, <3>3, <3>4 DEF Begin, Left
    <2>6. CASE Settled(i)
      <3>1. pc'[i] # "editing"
        BY <1>1, <2>6 DEF Settled, End
      <3> QED BY <2>6, <3>1, SettledDraft DEF Empties
    <2>7. CASE Look(i)
      <3>1. pc[i] # "editing" /\ pc'[i] = "looked" /\ UNCHANGED <<tui, draft>>
        BY <1>1, <2>7 DEF Look
      <3> QED BY <1>2, <2>3, <3>1 DEF DraftInv, Empties
    <2>8. CASE Looked(i)
      <3>1. pc[i] # "editing" /\ sub[i].kind = "prompt"
        BY <2>8 DEF Looked, Base, HandlingInv, Handled
      <3>2. pc'[i] # "editing"
        <4>1. CASE Retry(i)
          BY <1>1, <4>1 DEF Retry
        <4>2. CASE ~Retry(i)
          BY <1>1, <2>8, <4>2 DEF Looked, Missing, End
        <4> QED BY <4>1, <4>2
      <3>3. ASSUME Calm(tui'), Agree' PROVE draft' = tui'.composer
        <4>1. tui.composer = draft /\ tui.alive /\ ~tui.dialog
          BY <1>2, <2>3, <3>1, <3>3 DEF DraftInv
        <4>2. CASE End(i, <<>>, draft, TRUE, "confirmed")
          <5>1. <<>> \in Seq(Keys \ {AltUp}) /\ Tracked(draft, <<>>) = draft
            BY <1>1, TrackedNone
          <5> QED BY <1>1, <3>3, <4>1, <4>2, <5>1, EndDraft
        <4>3. CASE Retry(i) /\ ~LastPoll(i)
          BY <3>3, <4>1, <4>3, RetryDraft
        <4>4. CASE Retry(i) /\ LastPoll(i)
          <5>1. sub'[i].outcome = "unconfirmed" /\ sub'[i].kind = "prompt"
            BY <1>1, <2>1, <3>1, <4>4 DEF Retry, SubRecs
          <5> QED BY <3>3, <5>1 DEF Agree
        <4> QED BY <2>8, <4>1, <4>2, <4>3, <4>4 DEF Looked
      <3> QED BY <3>2, <3>3 DEF Empties
    <2>9. CASE EditWrites(i)
      <3> DEFINE todo == sub[i].todo
      <3>1. /\ pc[i] = "editing" /\ pc'[i] = "editing" /\ todo # <<>> /\ todo \in Seq(Seq(Keys))
            /\ tui' \in Pressed(Head(todo)) /\ sub'[i].todo = Tail(todo)
        <4>1. sub[i].todo \in Seq(Seq(Hands))
          BY <1>1, <2>1 DEF SubRecs
        <4>2. sub[i].todo \in Seq(Seq(Keys))
          BY <4>1, HandsAreKeys
        <4> QED BY <1>1, <2>1, <2>9, <4>2 DEF EditWrites, WriteAll
      <3>2. todo[Len(todo)] \in {<<Wipe>>, <<Tab>>}
        BY <3>1 DEF DraftInv, Empties
      <3> HIDE DEF todo
      <3>3. CASE Tail(todo) # <<>>
        <4>1. Tail(todo)[Len(Tail(todo))] = todo[Len(todo)]
          BY <3>1, <3>3, TailEnds
        <4>2. Empties(i)'
          BY <3>1, <3>2, <3>3, <4>1 DEF Empties
        <4> QED BY <3>1, <4>2 DEF Agree
      <3>4. CASE Tail(todo) = <<>>
        <4>1. Head(todo) = todo[Len(todo)]
          BY <3>1, <3>4, TailEnds
        <4>2. ASSUME Calm(tui') PROVE tui'.composer = <<>>
          <5>1. PICK k \in {Wipe, Tab} : tui' \in Pressed(<<k>>)
            BY <3>1, <3>2, <4>1
          <5>2. k \in Keys \ {AltUp} /\ k \in Keys
            BY FollowedKeys
          <5>3. tui' \in Press(tui, k)
            BY <1>1, <5>1, <5>2, PressedOne
          <5>4. tui'.composer = Track(tui.composer, k)
            BY <1>1, <4>2, <5>2, <5>3, PressTracked
          <5>5. tui.composer \in Texts
            BY <1>1 DEF Screens
          <5> QED BY <5>4, <5>5, TrackedClears
        <4>3. Empties(i)'
          BY <3>1, <3>4, <4>2 DEF Empties
        <4> QED BY <3>1, <4>3 DEF Agree
      <3> QED BY <3>3, <3>4
    <2>10. CASE EditEnds(i)
      <3>1. pc'[i] = "done" /\ End(i, <<>>, <<>>, TRUE, "confirmed") /\ pc[i] = "editing" /\ sub[i].todo = <<>>
        BY <1>1, <2>10 DEF EditEnds, End
      <3>2. Calm(tui) => tui.composer = <<>>
        BY <3>1 DEF DraftInv, Empties
      <3>3. <<>> \in Seq(Keys \ {AltUp}) /\ Tracked(<<>>, <<>>) = <<>>
        BY <1>1, TrackedNone
      <3>4. Calm(tui') => draft' = tui'.composer
        BY <1>1, <3>1, <3>2, <3>3, EndDraft
      <3> QED BY <3>1, <3>4 DEF Empties
    <2> QED BY <1>6, <2>5, <2>6, <2>7, <2>8, <2>9, <2>10 DEF Step
  <1>7. ASSUME NEW key \in UserKeys, Type(key) PROVE DraftInv'
    <2>1. CASE goingIn
      BY <1>4, <1>7, <2>1 DEF Type
    <2>2. CASE ~goingIn
      <3>1. UNCHANGED <<pc, sub>> /\ draft' = Track(draft, key) /\ tui' \in Pressed(<<key>>)
        BY <1>7, <2>2 DEF Type, WriteAll
      <3>2. key \in Keys \ {AltUp} /\ key \in Keys
        BY DEF UserKeys, Keys, AltUp, Tab, Enter, Word
      <3>3. tui' \in Press(tui, key)
        BY <1>1, <3>1, <3>2, PressedOne
      <3>4. Calm(tui') /\ Agree' => draft' = tui'.composer
        <4>1. SUFFICES ASSUME Calm(tui'), Agree' PROVE draft' = tui'.composer
          OBVIOUS
        <4>2. Agree
          BY <3>1, <4>1 DEF Agree
        <4>3. tui'.composer = Track(tui.composer, key)
          BY <1>1, <3>2, <3>3, <4>1, PressTracked
        <4> QED BY <1>2, <3>1, <4>1, <4>2, <4>3 DEF DraftInv
      <3>5. \A j \in Subs : pc[j] # "editing"
        BY <2>2 DEF Base, HandlingInv, Handled
      <3> QED BY <3>1, <3>4, <3>5 DEF DraftInv, Empties
    <2> QED BY <2>1, <2>2
  <1>8. CASE Type(Word(Len(typed) + 1)) \/ Type(Enter(Person)) \/ Type(Tab)
    <2>1. Len(typed) < MaxTyped
      BY <1>8 DEF Type
    <2>2. Word(Len(typed) + 1) \in UserKeys /\ Enter(Person) \in UserKeys /\ Tab \in UserKeys
      BY <2>1, NextKeys DEF UserKeys, Base, TypeInv
    <2> QED BY <1>7, <1>8, <2>2
  <1>9. CASE ScreenChanges \/ QueueDrains
    <2>1. tui'.composer = tui.composer
      BY <1>1, <1>9 DEF ScreenChanges, QueueDrains, Screens
    <2>2. UNCHANGED <<draft, pc, sub>>
      BY <1>9 DEF ScreenChanges, QueueDrains
    <2> QED BY <1>3, <2>1, <2>2 DEF Agree
  <1>10. CASE TurnRecorded \/ UNCHANGED vars
    BY <1>4, <1>10 DEF TurnRecorded, vars
  <1> QED
    BY <1>5, <1>6, <1>8, <1>9, <1>10 DEF Next

(* DraftInputTracker, the Tab of write_input and _put_back_held_draft: on a
   screen with which nothing went wrong the draft a restart would type back is
   what the composer holds, whatever was submitted, queued, edited or typed. *)
THEOREM DraftsAreTheComposer == Spec => []DraftIsComposer
PROOF
  <1>1. Init => DraftInv
    BY DEF Init, DraftInv, Empties
  <1>2. DraftInv => DraftIsComposer
    BY DEF DraftInv, DraftIsComposer, Agree, Resting, Calm
  <1> QED BY <1>1, <1>2, BaseInit, BaseStep, DraftStep, PTL DEF Spec

-----------------------------------------------------------------------------
(* What an Enter sends *)

(* The keys written so far are the first l of the log; the person has pressed
   Enter since the word n. *)
Signed(log, l, n) == \E m \in 1..l : m > n /\ log[m] = Enter(Person)

(* A word's number is its place in the log. *)
Placed(log) == \A m \in DOMAIN log : \A n \in 1..MaxTyped : log[m] = Word(n) => n = m

(* A text that submission i may send. *)
CleanText(text, i, log, l) ==
  \A p \in ToSet(text) : p = Prompt(i) \/ (p[1] = "word" /\ Signed(log, l, p[2]))

CleanTurns(t, log, l) ==
  \A n \in DOMAIN t.turns :
    t.turns[n].by # Person => CleanText(t.turns[n].text, t.turns[n].by, log, l)

(* No submission sends itself twice. *)
Once(t) ==
  \A n, m \in DOMAIN t.turns :
    n # m /\ t.turns[n].by = t.turns[m].by /\ t.turns[n].by # Person
      => Prompt(t.turns[n].by) \notin ToSet(t.turns[n].text) \cap ToSet(t.turns[m].text)

(* Submission i has not sent itself yet, or has sent nothing at all. *)
Unsent(t, i) == \A n \in DOMAIN t.turns : t.turns[n].by = i => Prompt(i) \notin ToSet(t.turns[n].text)
NoneBy(t, i) == \A n \in DOMAIN t.turns : t.turns[n].by # i

(* What is in the composer beside prompt i are words of the person's, each of
   them meant to be sent, still in the draft, or out of an Enter's reach. *)
Belongs(t, i, d, log, l) ==
  ~t.cut /\ t.alive =>
    \A p \in ToSet(t.composer) :
      \/ p = Prompt(i)
      \/ \E n \in 1..l : p = Word(n) /\ (Signed(log, l, n) \/ p \in ToSet(d) \/ Covered(t))

(* The turns that a screen has taken since are the person's, or in X. *)
Adds(t, u, X) ==
  \A n \in DOMAIN u.turns : n \in DOMAIN t.turns \/ u.turns[n].by = Person \/ <<n, u.turns[n]>> \in X

LEMMA AddsTwice ==
  ASSUME NEW t \in Screens, NEW s \in Screens, NEW u \in Screens, Later(s, u),
         NEW X, NEW Y, NEW Z, X \subseteq Z, Y \subseteq Z, Adds(t, s, X), Adds(s, u, Y)
  PROVE  Adds(t, u, Z)
PROOF
  <1>1. t.turns \in Seq(Turns) /\ s.turns \in Seq(Turns) /\ u.turns \in Seq(Turns)
    BY DEF Screens
  <1>2. \A n \in DOMAIN s.turns : u.turns[n] = s.turns[n]
    BY <1>1 DEF Later
  <1> QED BY <1>2 DEF Adds

LEMMA AddsSame == ASSUME NEW t, NEW u, u.turns = t.turns, NEW X PROVE Adds(t, u, X)
BY DEF Adds

(* Two screens of which one may have sent more. *)
LEMMA UnsentKept ==
  ASSUME NEW t \in Screens, NEW u \in Screens, Later(t, u), NEW i \in Subs, NEW X, Adds(t, u, X),
         \A x \in X : x[2].by # i
  PROVE  /\ NoneBy(t, i) => NoneBy(u, i)
         /\ Unsent(t, i) => Unsent(u, i)
PROOF
  <1>1. i # Person
    BY PromptConstants DEF Person
  <1>2. t.turns \in Seq(Turns) /\ u.turns \in Seq(Turns)
    BY DEF Screens
  <1>3. \A n \in DOMAIN t.turns : u.turns[n] = t.turns[n]
    BY <1>2 DEF Later
  <1>4. ASSUME NEW n \in DOMAIN u.turns, u.turns[n].by = i PROVE n \in DOMAIN t.turns /\ t.turns[n] = u.turns[n]
    <2>1. <<n, u.turns[n]>> \notin X
      <3> SUFFICES ASSUME <<n, u.turns[n]>> \in X PROVE FALSE
        OBVIOUS
      <3>1. <<n, u.turns[n]>>[2].by # i
        OBVIOUS
      <3> QED BY <1>4, <3>1
    <2> QED BY <1>1, <1>3, <1>4, <2>1 DEF Adds
  <1> QED BY <1>4 DEF NoneBy, Unsent

LEMMA SignedGrows ==
  ASSUME NEW log, NEW now, NEW l \in Nat, NEW k \in Nat, l <= k, \A m \in 1..l : now[m] = log[m],
         NEW n, Signed(log, l, n)
  PROVE  Signed(now, k, n)
PROOF
  <1>1. PICK m \in 1..l : m > n /\ log[m] = Enter(Person)
    BY DEF Signed
  <1>2. m \in 1..k /\ now[m] = Enter(Person)
    BY <1>1
  <1> QED BY <1>1, <1>2 DEF Signed

LEMMA TextStaysClean ==
  ASSUME NEW log, NEW now, NEW l \in Nat, NEW k \in Nat, l <= k, \A m \in 1..l : now[m] = log[m],
         NEW text, NEW i, CleanText(text, i, log, l)
  PROVE  CleanText(text, i, now, k)
BY SignedGrows DEF CleanText

LEMMA BelongsStill ==
  ASSUME NEW log, NEW now, NEW l \in Nat, NEW k \in Nat, l <= k, \A m \in 1..l : now[m] = log[m],
         NEW t, NEW i, NEW d, Belongs(t, i, d, log, l)
  PROVE  Belongs(t, i, d, now, k)
PROOF
  <1> SUFFICES ASSUME ~t.cut, t.alive, NEW p \in ToSet(t.composer), p # Prompt(i)
               PROVE  \E n \in 1..k : p = Word(n) /\ (Signed(now, k, n) \/ p \in ToSet(d) \/ Covered(t))
    BY DEF Belongs
  <1>1. PICK n \in 1..l : p = Word(n) /\ (Signed(log, l, n) \/ p \in ToSet(d) \/ Covered(t))
    BY DEF Belongs
  <1>2. Signed(log, l, n) => Signed(now, k, n)
    BY SignedGrows
  <1>3. n \in 1..k
    BY <1>1
  <1> QED BY <1>1, <1>2, <1>3

(* One more turn of a submission keeps both, if it is clean and the first. *)
LEMMA TurnsStayGood ==
  ASSUME NEW t \in Screens, NEW u \in Screens, Later(t, u), NEW i, NEW N, NEW text,
         Adds(t, u, {<<N, Turn(i, text)>>}),
         NEW log, NEW now, NEW l \in Nat, NEW k \in Nat, l <= k, \A m \in 1..l : now[m] = log[m],
         CleanTurns(t, log, l), Once(t), CleanText(text, i, now, k),
         Prompt(i) \in ToSet(text) => Unsent(t, i)
  PROVE  CleanTurns(u, now, k) /\ Once(u)
PROOF
  <1>1. t.turns \in Seq(Turns) /\ u.turns \in Seq(Turns)
    BY DEF Screens
  <1>2. \A n \in DOMAIN t.turns : u.turns[n] = t.turns[n]
    BY <1>1 DEF Later
  <1>3. Turn(i, text).by = i /\ Turn(i, text).text = text
    BY DEF Turn
  <1>4. ASSUME NEW n \in DOMAIN u.turns, n \notin DOMAIN t.turns, u.turns[n].by # Person
        PROVE  n = N /\ u.turns[n].by = i /\ u.turns[n].text = text
    <2>1. <<n, u.turns[n]>> = <<N, Turn(i, text)>>
      BY <1>4 DEF Adds
    <2>2. n = N /\ u.turns[n] = Turn(i, text)
      BY <2>1
    <2> QED BY <1>3, <2>2
  <1>5. CleanTurns(u, now, k)
    <2> SUFFICES ASSUME NEW n \in DOMAIN u.turns, u.turns[n].by # Person
                 PROVE  CleanText(u.turns[n].text, u.turns[n].by, now, k)
      BY DEF CleanTurns
    <2>1. CASE n \in DOMAIN t.turns
      <3>1. CleanText(u.turns[n].text, u.turns[n].by, log, l)
        BY <1>2, <2>1 DEF CleanTurns
      <3>2. \A x, b : CleanText(x, b, log, l) => CleanText(x, b, now, k)
        BY TextStaysClean
      <3> QED BY <3>1, <3>2
    <2>2. CASE n \notin DOMAIN t.turns
      BY <1>4, <2>2
    <2> QED BY <2>1, <2>2
  <1>6. Once(u)
    <2> SUFFICES ASSUME NEW n \in DOMAIN u.turns, NEW m \in DOMAIN u.turns, n # m,
                        u.turns[n].by = u.turns[m].by, u.turns[n].by # Person,
                        Prompt(u.turns[n].by) \in ToSet(u.turns[n].text),
                        Prompt(u.turns[n].by) \in ToSet(u.turns[m].text)
                 PROVE  FALSE
      BY DEF Once
    <2>1. CASE n \in DOMAIN t.turns /\ m \in DOMAIN t.turns
      BY <1>2, <2>1 DEF Once
    <2>2. CASE n \notin DOMAIN t.turns /\ m \notin DOMAIN t.turns
      BY <1>4, <2>2
    <2>3. CASE n \in DOMAIN t.turns /\ m \notin DOMAIN t.turns
      BY <1>2, <1>4, <2>3 DEF Unsent
    <2>4. CASE n \notin DOMAIN t.turns /\ m \in DOMAIN t.turns
      BY <1>2, <1>4, <2>4 DEF Unsent
    <2> QED BY <2>1, <2>2, <2>3, <2>4
  <1> QED BY <1>5, <1>6

LEMMA OneMorePiece ==
  ASSUME NEW S, NEW s \in Seq(S), NEW x \in S
  PROVE  ToSet(Append(s, x)) = ToSet(s) \cup {x}
PROOF
  <1>1. Append(s, x) \in Seq(S) /\ Len(Append(s, x)) = Len(s) + 1 /\ Len(s) \in Nat
        /\ Append(s, x)[Len(s) + 1] = x /\ \A n \in 1..Len(s) : Append(s, x)[n] = s[n]
    OBVIOUS
  <1>2. DOMAIN s = 1..Len(s) /\ DOMAIN Append(s, x) = 1..(Len(s) + 1)
    BY <1>1
  <1>3. ToSet(Append(s, x)) \subseteq ToSet(s) \cup {x}
    BY <1>1, <1>2 DEF ToSet
  <1>4. ToSet(s) \subseteq ToSet(Append(s, x))
    BY <1>1, <1>2 DEF ToSet
  <1>5. x \in ToSet(Append(s, x))
    BY <1>1, <1>2 DEF ToSet
  <1> QED BY <1>3, <1>4, <1>5

LEMMA HandKinds ==
  ASSUME NEW k \in Hands
  PROVE  \/ k = Wipe \/ k = PasteEnd \/ k = Tab \/ k = Esc \/ k = AltUp \/ k = Enter(Person)
         \/ \E d \in Texts : k = Paste(d)
         \/ \E n \in 1..MaxTyped : k = Word(n)
BY DEF Hands

(* Enter takes a turn with what the composer holds, or none. *)
LEMMA EnterAdds ==
  ASSUME NEW t \in Screens, NEW b \in Subs \cup {Person}, NEW u \in Press(t, Enter(b))
  PROVE  /\ \/ u.turns = t.turns
            \/ /\ u.turns = Append(t.turns, Turn(b, t.composer)) /\ u.composer = <<>>
               /\ t.alive /\ ~Covered(t)
         /\ u.composer = t.composer \/ u.composer = <<>>
         /\ (u.alive => t.alive) /\ (u.dialog => t.dialog) /\ u.mode = t.mode
         /\ t.alive /\ ~t.dialog => u.dialog = t.dialog /\ u.alive
PROOF
  <1>1. CASE ~t.alive
    BY <1>1 DEF Press
  <1>2. CASE t.alive
    <2>1. u \in PressEnter(t, b)
      BY <1>2, PressEnterKey
    <2>2. CASE t.dialog
      <3>1. PICK a \in BOOLEAN : u = [t EXCEPT !.dialog = FALSE, !.alive = a]
        BY <2>1, <2>2 DEF PressEnter
      <3> QED BY <1>2, <2>2, <3>1 DEF Screens
    <2>3. CASE ~t.dialog
      <3>1. CASE u = t
        BY <1>2, <3>1
      <3>2. CASE \E x \in {v \in {t.upsets + 1} : Upset(t, "absorb")} : u = [t EXCEPT !.upsets = x]
        BY <1>2, <2>3, <3>2 DEF Screens
      <3>3. CASE ~t.mode /\ u = [t EXCEPT !.turns = Append(@, Turn(b, t.composer)), !.composer = <<>>]
        BY <1>2, <2>3, <3>3 DEF Screens, Covered
      <3> QED BY <2>1, <2>3, <3>1, <3>2, <3>3 DEF PressEnter
    <2> QED BY <2>2, <2>3
  <1> QED BY <1>1, <1>2

LEMMA OneTurnAdded ==
  ASSUME NEW t \in Screens, NEW u, NEW turn, u.turns = Append(t.turns, turn), NEW X,
         turn.by = Person \/ <<Len(t.turns) + 1, turn>> \in X
  PROVE  Adds(t, u, X)
PROOF
  <1>1. t.turns \in Seq(Turns)
    BY DEF Screens
  <1>2. \A n \in DOMAIN u.turns : n \in DOMAIN t.turns \/ (n = Len(t.turns) + 1 /\ u.turns[n] = turn)
    BY <1>1
  <1> QED BY <1>2 DEF Adds

LEMMA OwnEnterAdds ==
  ASSUME NEW t \in Screens, NEW i \in Subs, NEW u \in Press(t, Enter(i))
  PROVE  Adds(t, u, {<<Len(t.turns) + 1, Turn(i, t.composer)>>})
BY EnterAdds, OneTurnAdded, AddsSame

(* No other key takes a turn that is not the person's. *)
LEMMA HandAdds ==
  ASSUME NEW t \in Screens, NEW k \in Hands, NEW u \in Press(t, k)
  PROVE  Adds(t, u, {})
PROOF
  <1>1. CASE ~t.alive
    BY <1>1, AddsSame DEF Press
  <1>2. CASE t.alive /\ k \in {Wipe, PasteEnd, Tab, Esc}
    <2>1. \/ u = t \/ u = [t EXCEPT !.composer = <<>>] \/ u = [t EXCEPT !.pasting = FALSE]
          \/ u = [t EXCEPT !.queue = Append(@, t.composer), !.composer = <<>>]
          \/ u = [t EXCEPT !.mode = FALSE] \/ u = [t EXCEPT !.mode = t.mode]
      BY <1>2, PressOne
    <2>2. u.turns = t.turns
      BY <2>1 DEF Screens
    <2> QED BY <2>2, AddsSame
  <1>3. CASE t.alive /\ k = AltUp
    <2>1. u \in PressAltUp(t)
      BY <1>3, PressOne
    <2>2. u.turns = t.turns
      BY <2>1 DEF PressAltUp, Screens
    <2> QED BY <2>2, AddsSame
  <1>4. CASE k = Enter(Person)
    <2>1. Turn(Person, t.composer).by = Person
      BY DEF Turn
    <2> QED BY <1>4, <2>1, EnterAdds, OneTurnAdded, AddsSame
  <1>5. CASE t.alive /\ \E d \in Texts : k = Paste(d)
    <2>1. PICK d \in Texts : k = Paste(d)
      BY <1>5
    <2>2. u \in PressPaste(t, d)
      BY <1>5, <2>1, PressPasteKey
    <2>3. u.turns = t.turns
      BY <2>2 DEF PressPaste, Screens
    <2> QED BY <2>3, AddsSame
  <1>6. CASE t.alive /\ \E n \in 1..MaxTyped : k = Word(n)
    <2>1. PICK n \in 1..MaxTyped : k = Word(n)
      BY <1>6
    <2>2. u.turns = t.turns
      BY <1>6, <2>1, PressWordKey DEF Screens
    <2> QED BY <2>2, AddsSame
  <1> QED BY <1>1, <1>2, <1>3, <1>4, <1>5, <1>6, HandKinds

(* What the person presses revives nothing, brings no dialog up and no prompt into the composer. *)
LEMMA UserPress ==
  ASSUME NEW t \in Screens, NEW k \in UserKeys, NEW u \in Press(t, k)
  PROVE  /\ (u.alive => t.alive) /\ (u.dialog => t.dialog)
         /\ \A i \in Subs : HasPrompt(u, i) => HasPrompt(t, i)
PROOF
  <1>1. CASE ~t.alive
    BY <1>1 DEF Press
  <1>2. CASE k = Enter(Person)
    <2>1. u.composer = <<>> => \A i \in Subs : ~HasPrompt(u, i)
      BY DEF HasPrompt, ToSet
    <2> QED BY <1>2, <2>1, EnterAdds DEF HasPrompt
  <1>3. CASE t.alive /\ k = Tab
    <2>1. u = t \/ u = [t EXCEPT !.queue = Append(@, t.composer), !.composer = <<>>]
      BY <1>3, PressOne
    <2>2. u.alive = t.alive /\ u.dialog = t.dialog /\ (u.composer = t.composer \/ u.composer = <<>>)
      BY <2>1 DEF Screens
    <2>3. u.composer = <<>> => \A i \in Subs : ~HasPrompt(u, i)
      BY DEF HasPrompt, ToSet
    <2> QED BY <2>2, <2>3 DEF HasPrompt
  <1>4. CASE t.alive /\ \E n \in 1..MaxTyped : k = Word(n)
    <2>1. PICK n \in 1..MaxTyped : k = Word(n)
      BY <1>4
    <2>2. u = t \/ u = [t EXCEPT !.composer = Append(@, Word(n))]
      BY <1>4, <2>1, PressWordKey
    <2>3. u.alive = t.alive /\ u.dialog = t.dialog /\ (u.composer = t.composer \/ u.composer = Append(t.composer, Word(n)))
      BY <2>2 DEF Screens
    <2>4. ToSet(Append(t.composer, Word(n))) = ToSet(t.composer) \cup {Word(n)}
      <3>1. t.composer \in Seq(Pieces) /\ Word(n) \in Pieces
        BY DEF Screens, Texts, Pieces
      <3> QED BY <3>1, OneMorePiece
    <2>5. \A i \in Subs : Prompt(i) # Word(n)
      BY DEF Prompt, Word
    <2>6. ASSUME NEW i \in Subs, Prompt(i) \in ToSet(u.composer) PROVE Prompt(i) \in ToSet(t.composer)
      <3>1. CASE u.composer = t.composer
        BY <2>6, <3>1
      <3>2. CASE u.composer = Append(t.composer, Word(n))
        BY <2>4, <2>5, <2>6, <3>2
      <3> QED BY <2>3, <3>1, <3>2
    <2> QED BY <2>3, <2>6 DEF HasPrompt
  <1> QED BY <1>1, <1>2, <1>3, <1>4 DEF UserKeys

(* One key of the person's, the next of the log. *)
LEMMA KeyBelongs ==
  ASSUME NEW t \in Screens, Sound(t), NEW log \in Seq(UserKeys), Placed(log), NEW l \in Nat, l + 1 \in DOMAIN log,
         NEW u \in Press(t, log[l + 1]), NEW i \in Subs, NEW d \in Texts, Belongs(t, i, d, log, l)
  PROVE  Belongs(u, i, Track(d, log[l + 1]), log, l + 1)
PROOF
  <1> DEFINE k == log[l + 1]
             e == Track(d, k)
  <1>1. k \in UserKeys /\ k \in Keys
    <2>1. k \in UserKeys
      OBVIOUS
    <2> QED BY <2>1, HandsAreKeys
  <1>2. u \in Screens /\ Later(t, u)
    BY <1>1, PressGood
  <1> SUFFICES ASSUME ~u.cut, u.alive, NEW p \in ToSet(u.composer), p # Prompt(i)
               PROVE  \E n \in 1..(l + 1) : p = Word(n) /\ (Signed(log, l + 1, n) \/ p \in ToSet(e) \/ Covered(u))
    BY DEF Belongs
  <1>3. ~t.cut /\ ~t.pasting /\ t.alive
    <2>1. t.alive
      BY <1>1, UserPress
    <2> QED BY <1>2, <2>1 DEF Later, Sound
  <1>4. 1..l \subseteq 1..(l + 1) /\ l + 1 \in 1..(l + 1) /\ \A n \in 1..l : Signed(log, l, n) => Signed(log, l + 1, n)
    <2>1. l <= l + 1 /\ l + 1 \in Nat
      OBVIOUS
    <2> QED BY <2>1, SignedGrows
  <1>5. p \in ToSet(t.composer) => \E n \in 1..l : p = Word(n) /\ (Signed(log, l, n) \/ p \in ToSet(d) \/ Covered(t))
    BY <1>3 DEF Belongs
  <1>6. CASE k = Enter(Person)
    <2>1. u.composer = t.composer \/ u.composer = <<>>
      BY <1>6, EnterAdds DEF Person
    <2>2. p \in ToSet(t.composer)
      <3>1. ToSet(<<>>) = {}
        BY DEF ToSet
      <3> QED BY <2>1, <3>1
    <2>3. PICK n \in 1..l : p = Word(n)
      BY <1>5, <2>2
    <2>4. Signed(log, l + 1, n)
      BY <1>4, <1>6 DEF Signed
    <2> QED BY <1>4, <2>3, <2>4
  <1>7. CASE k = Tab
    <2>1. IF Covered(t) \/ t.pasting \/ t.composer = <<>> THEN u = t
          ELSE u = [t EXCEPT !.queue = Append(@, t.composer), !.composer = <<>>]
      BY <1>3, <1>7, PressOne
    <2>2. ToSet(<<>>) = {}
      BY DEF ToSet
    <2>3. u = t /\ Covered(t)
      BY <1>3, <2>1, <2>2 DEF Screens
    <2> QED BY <1>4, <1>5, <2>3
  <1>8. CASE \E n \in 1..MaxTyped : k = Word(n)
    <2>1. PICK n \in 1..MaxTyped : k = Word(n)
      BY <1>8
    <2>2. n = l + 1
      BY <2>1 DEF Placed
    <2>3. e = Append(d, Word(n))
      BY <2>1 DEF Track, Word
    <2>4. ToSet(e) = ToSet(d) \cup {Word(n)}
      <3>1. d \in Seq(Pieces) /\ Word(n) \in Pieces
        BY DEF Texts, Pieces
      <3> HIDE DEF e
      <3> QED BY <2>3, <3>1, OneMorePiece
    <2> HIDE DEF e
    <2>5. IF Covered(t) THEN u = t ELSE u = [t EXCEPT !.composer = Append(@, Word(n))]
      BY <1>3, <2>1, PressWordKey
    <2>6. CASE Covered(t)
      BY <1>4, <1>5, <2>5, <2>6
    <2>7. CASE ~Covered(t)
      <3>1. u.composer = Append(t.composer, Word(n))
        BY <2>5, <2>7 DEF Screens
      <3>2. ToSet(u.composer) = ToSet(t.composer) \cup {Word(n)}
        <4>1. t.composer \in Seq(Pieces) /\ Word(n) \in Pieces
          BY DEF Screens, Texts, Pieces
        <4> QED BY <3>1, <4>1, OneMorePiece
      <3>3. CASE p = Word(n)
        BY <1>4, <2>2, <2>4, <3>3
      <3>4. CASE p \in ToSet(t.composer)
        BY <1>4, <1>5, <2>4, <2>7, <3>4
      <3> QED BY <3>2, <3>3, <3>4
    <2> QED BY <2>6, <2>7
  <1> QED BY <1>1, <1>6, <1>7, <1>8 DEF UserKeys

LEMMA PressedAdds ==
  ASSUME tui \in Screens, NEW keys \in Seq(Hands), NEW u \in Pressed(keys)
  PROVE  u \in Screens /\ Later(tui, u) /\ Adds(tui, u, {})
PROOF
  <1> DEFINE G == {v \in Screens : Later(tui, v) /\ Adds(tui, v, {})}
  <1>1. tui \in G
    BY LaterSame, AddsSame
  <1>2. \A t \in G \cap Screens, k \in Hands : Press(t, k) \subseteq G
    <2> SUFFICES ASSUME NEW t \in G, NEW k \in Hands, NEW v \in Press(t, k) PROVE v \in G
      OBVIOUS
    <2>1. t \in Screens /\ Later(tui, t) /\ Adds(tui, t, {}) /\ k \in Keys
      BY HandsAreKeys
    <2>2. v \in Screens /\ Later(t, v) /\ Adds(t, v, {})
      BY <2>1, PressGood, HandAdds
    <2>3. Later(tui, v)
      BY <2>1, <2>2, LaterTwice
    <2>4. Adds(tui, v, {})
      BY <2>1, <2>2, AddsTwice
    <2> QED BY <2>2, <2>3, <2>4
  <1>3. Hands \in SUBSET Keys
    BY HandsAreKeys
  <1> HIDE DEF G
  <1>4. Pressed(keys) \subseteq G
    BY <1>1, <1>2, <1>3, PressedKeeps
  <1> QED BY <1>4 DEF G

(* What is so after a first key, and what the others keep. *)
LEMMA PressedAfter ==
  ASSUME tui \in Screens, NEW k \in Keys, NEW K \in SUBSET Keys, NEW keys \in Seq(K), NEW G, Press(tui, k) \subseteq G,
         \A t \in G \cap Screens, l \in K : Press(t, l) \subseteq G
  PROVE  Pressed(<<k>> \o keys) \subseteq G
PROOF
  <1> DEFINE all == <<k>> \o keys
             n == Len(all)
  <1>1. <<k>> \in Seq(Keys) /\ keys \in Seq(Keys) /\ Len(<<k>>) = 1 /\ <<k>>[1] = k /\ Len(keys) \in Nat
        /\ \A i \in 1..Len(keys) : keys[i] \in K
    OBVIOUS
  <1>2. all \in Seq(Keys) /\ n = 1 + Len(keys) /\ all[1] = k /\ \A i \in 1..Len(keys) : all[1 + i] \in K
    BY <1>1
  <1>3. PICK f \in [0..n -> SUBSET Screens] :
           /\ f[0] = {tui} /\ Pressed(all) = f[n]
           /\ \A i \in 1..n : f[i] = UNION {Press(t, all[i]) : t \in f[i - 1]}
    BY <1>2, PressedSteps
  <1>4. n \in Nat /\ n >= 1 /\ \A i \in 2..n : all[i] \in K
    <2>1. \A i \in 2..n : i - 1 \in 1..Len(keys) /\ 1 + (i - 1) = i
      BY <1>1, <1>2
    <2>2. \A i \in 2..n : all[i] \in K
      BY <1>2, <2>1
    <2> QED BY <1>1, <1>2, <2>2
  <1> HIDE DEF all, n
  <1> DEFINE S == {i \in 1..n : f[i] \subseteq G}
  <1>5. 1 \in S
    <2>1. 1 \in 1..n /\ 1 - 1 = 0
      BY <1>4
    <2>2. f[1] = UNION {Press(t, all[1]) : t \in f[1 - 1]}
      BY <1>3, <2>1
    <2>3. f[1 - 1] = {tui} /\ all[1] = k
      BY <1>2, <1>3, <2>1
    <2>4. f[1] = UNION {Press(t, k) : t \in {tui}}
      BY <2>2, <2>3
    <2> QED BY <2>1, <2>4
  <1>6. ASSUME NEW i \in 1..n, i \in S, i < n PROVE i + 1 \in S
    <2>1. i + 1 \in 1..n /\ i + 1 \in 2..n /\ (i + 1) - 1 = i
      BY <1>4, <1>6
    <2>2. f[i + 1] = UNION {Press(t, all[i + 1]) : t \in f[i]} /\ f[i] \subseteq G \cap Screens
      BY <1>3, <1>6, <2>1
    <2>3. \A t \in f[i] : Press(t, all[i + 1]) \subseteq G
      BY <1>4, <2>1, <2>2
    <2>4. f[i + 1] \subseteq G
      BY <2>2, <2>3
    <2> QED BY <2>1, <2>4
  <1> HIDE DEF S
  <1>7. 1..n \subseteq S
    BY <1>4, <1>5, <1>6, Between
  <1>8. n \in S
    BY <1>4, <1>7
  <1> QED BY <1>3, <1>8 DEF S, all

(* A submission's Enter, and then keys that are nobody else's. *)
LEMMA EnterThenHands ==
  ASSUME tui \in Screens, NEW i \in Subs, NEW keys \in Seq(Hands), NEW u \in Pressed(<<Enter(i)>> \o keys)
  PROVE  Adds(tui, u, {<<Len(tui.turns) + 1, Turn(i, tui.composer)>>})
PROOF
  <1> DEFINE X == {<<Len(tui.turns) + 1, Turn(i, tui.composer)>>}
             G == {v \in Screens : Adds(tui, v, X)}
  <1>1. Enter(i) \in Keys /\ Hands \in SUBSET Keys
    BY HandsAreKeys DEF Keys
  <1>2. Press(tui, Enter(i)) \subseteq G
    BY <1>1, PressGood, OwnEnterAdds
  <1>3. \A t \in G \cap Screens, k \in Hands : Press(t, k) \subseteq G
    <2> SUFFICES ASSUME NEW t \in G, NEW k \in Hands, NEW v \in Press(t, k) PROVE v \in G
      OBVIOUS
    <2>1. t \in Screens /\ Adds(tui, t, X) /\ k \in Keys
      BY HandsAreKeys
    <2>2. v \in Screens /\ Later(t, v) /\ Adds(t, v, {})
      BY <2>1, PressGood, HandAdds
    <2>3. Adds(tui, v, X)
      <3> HIDE DEF X
      <3>1. {} \subseteq X /\ X \subseteq X
        OBVIOUS
      <3> QED BY <2>1, <2>2, <3>1, AddsTwice
    <2> QED BY <2>2, <2>3
  <1> HIDE DEF G
  <1>4. Pressed(<<Enter(i)>> \o keys) \subseteq G
    BY <1>1, <1>2, <1>3, PressedAfter
  <1> QED BY <1>4 DEF G

LEMMA PressedByUser ==
  ASSUME tui \in Screens, NEW keys \in Seq(UserKeys), NEW u \in Pressed(keys)
  PROVE  /\ (u.alive => tui.alive) /\ (u.dialog => tui.dialog)
         /\ \A i \in Subs : HasPrompt(u, i) => HasPrompt(tui, i)
PROOF
  <1> DEFINE G == {v \in Screens : /\ (v.alive => tui.alive) /\ (v.dialog => tui.dialog)
                                   /\ \A i \in Subs : HasPrompt(v, i) => HasPrompt(tui, i)}
  <1>1. tui \in G
    OBVIOUS
  <1>2. \A t \in G \cap Screens, k \in UserKeys : Press(t, k) \subseteq G
    <2> SUFFICES ASSUME NEW t \in G, NEW k \in UserKeys, NEW v \in Press(t, k) PROVE v \in G
      OBVIOUS
    <2>1. t \in Screens /\ k \in Keys
      BY HandsAreKeys
    <2>2. v \in Screens
      BY <2>1, PressGood
    <2>3. /\ (v.alive => t.alive) /\ (v.dialog => t.dialog)
          /\ \A i \in Subs : HasPrompt(v, i) => HasPrompt(t, i)
      BY <2>1, UserPress
    <2> QED BY <2>2, <2>3
  <1>3. UserKeys \in SUBSET Keys
    BY HandsAreKeys
  <1> HIDE DEF G
  <1>4. Pressed(keys) \subseteq G
    BY <1>1, <1>2, <1>3, PressedKeeps
  <1> QED BY <1>4 DEF G

(* What the person pressed is written, the next keys of the log. *)
LEMMA KeysBelong ==
  ASSUME tui \in Screens, Sound(tui), NEW log \in Seq(UserKeys), Placed(log), NEW l \in Nat,
         NEW keys \in Seq(UserKeys), l + Len(keys) <= Len(log), \A j \in 1..Len(keys) : keys[j] = log[l + j],
         NEW u \in Pressed(keys), NEW i \in Subs, NEW d \in Texts, Belongs(tui, i, d, log, l)
  PROVE  Belongs(u, i, Tracked(d, keys), log, l + Len(keys))
PROOF
  <1> DEFINE n == Len(keys)
  <1>1. n \in Nat /\ keys \in Seq(Keys) /\ DOMAIN log = 1..Len(log) /\ Len(log) \in Nat
        /\ \A j \in 1..n : keys[j] \in Keys
    BY HandsAreKeys
  <1>2. PICK f \in [0..n -> SUBSET Screens] :
           /\ f[0] = {tui} /\ Pressed(keys) = f[n]
           /\ \A j \in 1..n : f[j] = UNION {Press(t, keys[j]) : t \in f[j - 1]}
    BY <1>1, PressedSteps
  <1>3. PICK g \in [0..n -> Texts] :
           /\ g[0] = d /\ Tracked(d, keys) = g[n]
           /\ \A j \in 1..n : g[j] = Track(g[j - 1], keys[j])
    BY <1>1, TrackedSteps
  <1>4. l + n <= Len(log) /\ \A j \in 1..n : keys[j] = log[l + j]
    OBVIOUS
  <1> HIDE DEF n
  <1> DEFINE S == {j \in 0..n : \A v \in f[j] : Sound(v) /\ Belongs(v, i, g[j], log, l + j)}
  <1>5. 0 \in S
    <2>1. l + 0 = l /\ 0 \in 0..n
      BY <1>1
    <2> QED BY <1>2, <1>3, <2>1
  <1>6. ASSUME NEW j \in 0..n, j \in S, j < n PROVE j + 1 \in S
    <2>1. j + 1 \in 1..n /\ j + 1 \in 0..n /\ (j + 1) - 1 = j /\ l + j \in Nat /\ (l + j) + 1 = l + (j + 1)
          /\ (l + j) + 1 \in DOMAIN log
      BY <1>1, <1>4, <1>6
    <2>2. keys[j + 1] = log[(l + j) + 1]
      BY <1>4, <2>1
    <2>3. ASSUME NEW v \in f[j + 1] PROVE Sound(v) /\ Belongs(v, i, g[j + 1], log, l + (j + 1))
      <3>1. PICK t \in f[j] : v \in Press(t, keys[j + 1])
        BY <1>2, <2>1
      <3>2. t \in Screens /\ Sound(t) /\ Belongs(t, i, g[j], log, l + j) /\ g[j] \in Texts /\ keys[j + 1] \in Keys
        BY <1>1, <1>2, <1>3, <1>6, <2>1
      <3>3. Sound(v)
        <4>1. Later(t, v)
          BY <3>1, <3>2, PressGood
        <4> QED BY <3>2, <4>1 DEF Later
      <3>4. Belongs(v, i, Track(g[j], log[(l + j) + 1]), log, (l + j) + 1)
        BY <2>1, <2>2, <3>1, <3>2, KeyBelongs
      <3>5. g[j + 1] = Track(g[j], keys[j + 1])
        BY <1>3, <2>1
      <3> QED BY <2>1, <2>2, <3>3, <3>4, <3>5
    <2> QED BY <2>1, <2>3
  <1> HIDE DEF S
  <1>7. 0..n \subseteq S
    BY <1>1, <1>5, <1>6, Between
  <1>8. n \in S
    BY <1>1, <1>7
  <1> QED BY <1>2, <1>3, <1>8 DEF S, n

(* What is known of one submission while no paste has lost its end. *)
Carries(i) ==
  /\ pc[i] \in {"idle", "waiting", "leaving", "settling", "editing"} => NoneBy(tui, i)
  /\ pc[i] = "settling" /\ tui.alive /\ ~tui.dialog => tui.composer = <<Prompt(i)>>
  /\ pc[i] \in {"polling", "looked"} => Belongs(tui, i, draft, typed, Len(through))
                                        /\ (tui.alive /\ HasPrompt(tui, i) => Unsent(tui, i))

SendInv ==
  /\ Placed(typed)
  /\ ~tui.cut => /\ CleanTurns(tui, typed, Len(through)) /\ Once(tui)
                 /\ \A i \in Subs : Carries(i)

LEMMA LogParts ==
  ASSUME TypingInv
  PROVE  /\ typed \in Seq(UserKeys) /\ Len(through) \in Nat /\ Len(held) \in Nat
         /\ Len(typed) = Len(through) + Len(held)
         /\ \A m \in 1..Len(through) : typed[m] = through[m]
         /\ \A m \in 1..Len(held) : held[m] = typed[Len(through) + m]
         /\ Len(through \o held) = Len(through) + Len(held)
PROOF
  <1>1. through \in Seq(UserKeys) /\ held \in Seq(UserKeys) /\ typed = through \o held
    BY DEF TypingInv, TypingKept
  <1> QED BY <1>1

(* In reach of an Enter, and with no word in the draft, the composer is the submission's to send. *)
LEMMA ReachedIsClean ==
  ASSUME NEW t, NEW i, NEW d, NEW log, NEW l, Belongs(t, i, d, log, l), ~t.cut, t.alive, ~Covered(t),
         \A n \in 1..l : Word(n) \notin ToSet(d)
  PROVE  CleanText(t.composer, i, log, l)
PROOF
  <1> SUFFICES ASSUME NEW p \in ToSet(t.composer), p # Prompt(i)
               PROVE  p[1] = "word" /\ Signed(log, l, p[2])
    BY DEF CleanText
  <1>1. PICK n \in 1..l : p = Word(n) /\ (Signed(log, l, n) \/ p \in ToSet(d) \/ Covered(t))
    BY DEF Belongs
  <1>2. p[1] = "word" /\ p[2] = n
    BY <1>1 DEF Word
  <1> QED BY <1>1, <1>2

LEMMA CleanBelongs ==
  ASSUME NEW t, NEW i, NEW d, NEW log, NEW l,
         \A p \in ToSet(t.composer) : p = Prompt(i) \/ \E n \in 1..l : p = Word(n) /\ (Signed(log, l, n) \/ Covered(t))
  PROVE  Belongs(t, i, d, log, l)
BY DEF Belongs

(* A retry's Enter: t is the screen once what was held is given back. *)
LEMMA RetryPresses ==
  ASSUME NEW s \in Screens, Sound(s), ~s.dialog, NEW i \in Subs, NEW u \in Press(s, Enter(i)), ~u.cut, ~s.cut,
         NEW d \in Texts, NEW log, NEW l \in Nat, \A n \in 1..l : Word(n) \notin ToSet(d), Belongs(s, i, d, log, l)
  PROVE  /\ Belongs(u, i, <<>>, log, l)
         /\ u.turns # s.turns =>
              /\ s.alive /\ CleanText(s.composer, i, log, l) /\ ~HasPrompt(u, i)
         /\ (u.alive => s.alive) /\ (HasPrompt(u, i) => HasPrompt(s, i))
PROOF
  <1>1. /\ \/ u.turns = s.turns
           \/ /\ u.turns = Append(s.turns, Turn(i, s.composer)) /\ u.composer = <<>>
              /\ s.alive /\ ~Covered(s)
        /\ u.composer = s.composer \/ u.composer = <<>>
        /\ (u.alive => s.alive) /\ u.mode = s.mode /\ (s.alive /\ ~s.dialog => u.dialog = s.dialog)
    BY EnterAdds
  <1>2. ToSet(<<>>) = {}
    BY DEF ToSet
  <1>3. u.alive => Covered(u) = Covered(s)
    BY <1>1 DEF Covered
  <1>4. Belongs(u, i, <<>>, log, l)
    <2> SUFFICES ASSUME u.alive, NEW p \in ToSet(u.composer), p # Prompt(i)
                 PROVE  \E n \in 1..l : p = Word(n) /\ (Signed(log, l, n) \/ Covered(u))
      BY DEF Belongs
    <2>1. p \in ToSet(s.composer)
      BY <1>1, <1>2
    <2>2. PICK n \in 1..l : p = Word(n) /\ (Signed(log, l, n) \/ p \in ToSet(d) \/ Covered(s))
      BY <1>1, <2>1 DEF Belongs
    <2> QED BY <1>3, <2>2
  <1>5. ASSUME u.turns # s.turns PROVE s.alive /\ CleanText(s.composer, i, log, l) /\ ~HasPrompt(u, i)
    BY <1>1, <1>2, <1>5, ReachedIsClean DEF HasPrompt
  <1>6. HasPrompt(u, i) => HasPrompt(s, i)
    BY <1>1, <1>2 DEF HasPrompt
  <1> QED BY <1>1, <1>4, <1>5, <1>6

LEMMA PressableDraft ==
  ASSUME NEW i \in Subs, NEW d, MayPress(i, d)
  PROVE  \A n : Word(n) \notin ToSet(d)
PROOF
  <1>1. CASE d = <<>>
    BY <1>1 DEF ToSet
  <1>2. CASE \E j \in Subs : d = <<Prompt(j)>>
    <2>1. PICK j \in Subs : d = <<Prompt(j)>>
      BY <1>2
    <2>2. \A n : Prompt(j) # Word(n)
      BY DEF Prompt, Word
    <2>3. ToSet(<<Prompt(j)>>) = {Prompt(j)}
      BY DEF ToSet
    <2> QED BY <2>1, <2>2, <2>3
  <1> QED BY <1>1, <1>2 DEF MayPress

(* One turn of the retry loop sends its prompt at most, for the first time. *)
LEMMA RetrySends ==
  ASSUME Base, NEW i \in Subs, Retry(i), ~tui.dialog, ~tui'.cut, Placed(typed),
         Belongs(tui, i, draft, typed, Len(through)), tui.alive /\ HasPrompt(tui, i) => Unsent(tui, i)
  PROVE  /\ \E N \in Nat, text \in Texts :
              /\ Adds(tui, tui', {<<N, Turn(i, text)>>}) /\ CleanText(text, i, typed, Len(through'))
              /\ Prompt(i) \in ToSet(text) => Unsent(tui, i)
         /\ ~LastPoll(i) => Belongs(tui', i, draft', typed, Len(through'))
         /\ tui'.alive /\ HasPrompt(tui', i) => Unsent(tui', i)
PROOF
  <1> DEFINE given == GivenTyping(i)
             d == Tracked(draft, given)
             press == MayPress(i, d)
             l == Len(through')
  <1>1. /\ tui \in Screens /\ Sound(tui) /\ draft \in Texts /\ TypingInv
        /\ through \in Seq(UserKeys) /\ held \in Seq(UserKeys)
    BY DEF Base, TypeInv, ScreenInv, HandlingInv, TypingInv
  <1>2. /\ given \in Seq(UserKeys) /\ given \in Seq(Hands) /\ given \in Seq(Keys)
        /\ through' = through \o given
        /\ tui' \in Pressed(given \o (IF press THEN RetryKeys(i) ELSE <<>>))
        /\ ~LastPoll(i) => draft' = IF press THEN <<>> ELSE d
    <2>1. given \in Seq(UserKeys)
      BY <1>1 DEF GivenTyping
    <2>2. given \in Seq(Hands)
      BY <2>1, HandsAreKeys
    <2> QED BY <2>1, <2>2, HandsAreKeys DEF Retry, WriteAll
  <1>3. /\ l = Len(through) + Len(given) /\ l \in Nat /\ Len(through) \in Nat /\ l <= Len(typed) /\ typed \in Seq(UserKeys)
        /\ \A j \in 1..Len(given) : given[j] = typed[Len(through) + j]
    <2>1. CASE HoldOver(i)
      <3>1. given = held
        BY <2>1 DEF GivenTyping
      <3> HIDE DEF given
      <3>2. l = Len(through) + Len(given)
        BY <1>1, <1>2, <3>1
      <3> QED BY <1>1, <3>1, <3>2, LogParts
    <2>2. CASE ~HoldOver(i)
      <3>1. given = <<>>
        BY <2>2 DEF GivenTyping
      <3> HIDE DEF given
      <3>2. l = Len(through) /\ Len(given) = 0
        BY <1>1, <1>2, <3>1
      <3>3. Len(through) \in Nat /\ Len(through) <= Len(typed) /\ typed \in Seq(UserKeys)
        BY <1>1, LogParts
      <3> HIDE DEF l
      <3> QED BY <3>2, <3>3
    <2> QED BY <2>1, <2>2
  <1> HIDE DEF given, l
  <1>4. d \in Texts
    BY <1>1, <1>2, TrackedGood
  <1>5. ASSUME NEW t \in Pressed(given)
        PROVE  /\ t \in Screens /\ Later(tui, t) /\ Sound(t) /\ Adds(tui, t, {})
               /\ Belongs(t, i, d, typed, l) /\ (t.alive => tui.alive) /\ ~t.dialog
               /\ HasPrompt(t, i) => HasPrompt(tui, i)
    <2>1. t \in Screens /\ Later(tui, t) /\ Adds(tui, t, {})
      BY <1>1, <1>2, PressedAdds
    <2>2. Sound(t)
      BY <1>1, <2>1 DEF Later
    <2>3. (t.alive => tui.alive) /\ ~t.dialog /\ (HasPrompt(t, i) => HasPrompt(tui, i))
      BY <1>1, <1>2, PressedByUser
    <2>4. Belongs(t, i, d, typed, l)
      BY <1>1, <1>2, <1>3, KeysBelong
    <2> QED BY <2>1, <2>2, <2>3, <2>4
  <1>6. \A v \in Screens : Later(tui, v) /\ Adds(tui, v, {}) /\ Unsent(tui, i) => Unsent(v, i)
    <2> SUFFICES ASSUME NEW v \in Screens, Later(tui, v), Adds(tui, v, {}), Unsent(tui, i) PROVE Unsent(v, i)
      OBVIOUS
    <2>1. \A x \in {} : x[2].by # i
      OBVIOUS
    <2> QED BY <1>1, <2>1, UnsentKept
  <1>7. CASE ~press
    <2>1. tui' \in Pressed(given)
      <3>1. given \o <<>> = given
        BY <1>2, JoinEnds
      <3> QED BY <1>2, <1>7, <3>1
    <2>2. /\ tui' \in Screens /\ Later(tui, tui') /\ Adds(tui, tui', {}) /\ Belongs(tui', i, d, typed, l)
          /\ (tui'.alive => tui.alive) /\ (HasPrompt(tui', i) => HasPrompt(tui, i))
      BY <1>5, <2>1
    <2>3. \E N \in Nat, text \in Texts :
              /\ Adds(tui, tui', {<<N, Turn(i, text)>>}) /\ CleanText(text, i, typed, l)
              /\ Prompt(i) \in ToSet(text) => Unsent(tui, i)
      <3>1. Adds(tui, tui', {<<0, Turn(i, <<>>)>>})
        BY <2>2 DEF Adds
      <3>2. <<>> \in Texts /\ ToSet(<<>>) = {}
        BY DEF Texts, ToSet
      <3>3. CleanText(<<>>, i, typed, l)
        BY <3>2 DEF CleanText
      <3> QED BY <3>1, <3>2, <3>3
    <2> QED BY <1>2, <1>6, <1>7, <2>2, <2>3 DEF l
  <1>8. CASE press
    <2>1. PICK s \in Screens : /\ tui' \in Press(s, Enter(i)) /\ Later(tui, s) /\ Sound(s) /\ Adds(tui, s, {})
                               /\ Belongs(s, i, d, typed, l) /\ (s.alive => tui.alive) /\ ~s.dialog
                               /\ HasPrompt(s, i) => HasPrompt(tui, i)
      <3>1. PasteEnd \in Keys /\ PasteEnd \in Hands /\ Enter(i) \in Keys
        BY DEF Keys, Hands
      <3>2. CASE RetryKeys(i) = <<>> \o <<Enter(i)>>
        <4>1. given \o RetryKeys(i) = Append(given, Enter(i))
          BY <1>2, <3>1, <3>2
        <4>2. PICK s \in Pressed(given) : tui' \in Press(s, Enter(i))
          BY <1>1, <1>2, <1>8, <3>1, <4>1, PressedLast
        <4> QED BY <1>5, <4>2
      <3>3. CASE RetryKeys(i) = <<PasteEnd>> \o <<Enter(i)>>
        <4>1. given \o RetryKeys(i) = Append(Append(given, PasteEnd), Enter(i)) /\ Append(given, PasteEnd) \in Seq(Keys)
          BY <1>2, <3>1, <3>3
        <4>2. PICK s \in Pressed(Append(given, PasteEnd)) : tui' \in Press(s, Enter(i))
          BY <1>1, <1>2, <1>8, <3>1, <4>1, PressedLast
        <4>3. PICK t \in Pressed(given) : s \in Press(t, PasteEnd)
          BY <1>1, <1>2, <3>1, PressedLast
        <4>4. s \in Screens /\ Later(t, s) /\ Adds(t, s, {})
          BY <1>5, <3>1, <4>3, PressGood, HandAdds
        <4>5. Later(tui, s) /\ Sound(s) /\ Adds(tui, s, {})
          <5>1. t \in Screens /\ Later(tui, t) /\ Sound(t) /\ Adds(tui, t, {})
            BY <1>5
          <5>2. Later(tui, s)
            BY <1>1, <4>4, <5>1, LaterTwice
          <5>3. Adds(tui, s, {})
            BY <1>1, <4>4, <5>1, AddsTwice
          <5> QED BY <4>4, <5>1, <5>2, <5>3 DEF Later
        <4>6. /\ s.composer = t.composer /\ s.cut = t.cut /\ s.alive = t.alive /\ s.dialog = t.dialog
              /\ Covered(s) = Covered(t)
          <5>1. t \in Screens
            BY <1>5
          <5>2. s = t \/ s = [t EXCEPT !.pasting = FALSE]
            <6>1. CASE t.alive
              BY <4>3, <6>1, PressOne
            <6>2. CASE ~t.alive
              BY <4>3, <6>2 DEF Press
            <6> QED BY <6>1, <6>2
          <5> QED BY <5>1, <5>2 DEF Screens, Covered
        <4>7. Belongs(s, i, d, typed, l) /\ (HasPrompt(s, i) => HasPrompt(t, i))
          BY <1>5, <4>6 DEF Belongs, HasPrompt
        <4> QED BY <1>5, <4>2, <4>4, <4>5, <4>6, <4>7
      <3> QED BY <3>2, <3>3 DEF RetryKeys
    <2>2. tui' \in Screens /\ Later(s, tui') /\ ~s.cut
      <3>1. Enter(i) \in Keys
        BY DEF Keys
      <3>2. tui' \in Screens /\ Later(s, tui')
        BY <2>1, <3>1, PressGood
      <3> QED BY <3>2 DEF Later
    <2>3. \A n \in 1..l : Word(n) \notin ToSet(d)
      BY <1>8, PressableDraft
    <2>4. /\ Belongs(tui', i, <<>>, typed, l)
          /\ tui'.turns # s.turns => s.alive /\ CleanText(s.composer, i, typed, l) /\ ~HasPrompt(tui', i)
          /\ (tui'.alive => s.alive) /\ (HasPrompt(tui', i) => HasPrompt(s, i))
      BY <1>3, <1>4, <2>1, <2>2, <2>3, RetryPresses
    <2>5. s.alive /\ HasPrompt(s, i) => Unsent(s, i) /\ Unsent(tui, i)
      BY <1>6, <2>1
    <2>6. CASE tui'.turns = s.turns
      <3>1. Adds(tui, tui', {})
        <4>1. Adds(s, tui', {})
          BY <2>6, AddsSame
        <4> QED BY <1>1, <2>1, <2>2, <4>1, AddsTwice
      <3>2. \E N \in Nat, text \in Texts :
              /\ Adds(tui, tui', {<<N, Turn(i, text)>>}) /\ CleanText(text, i, typed, l)
              /\ Prompt(i) \in ToSet(text) => Unsent(tui, i)
        <4>1. Adds(tui, tui', {<<0, Turn(i, <<>>)>>})
          BY <3>1 DEF Adds
        <4>2. <<>> \in Texts /\ ToSet(<<>>) = {}
          BY DEF Texts, ToSet
        <4>3. CleanText(<<>>, i, typed, l)
          BY <4>2 DEF CleanText
        <4> QED BY <4>1, <4>2, <4>3
      <3>3. tui'.alive /\ HasPrompt(tui', i) => Unsent(tui', i)
        BY <2>4, <2>5, <2>6 DEF Unsent
      <3> QED BY <1>2, <1>8, <2>4, <3>2, <3>3 DEF l
    <2>7. CASE tui'.turns # s.turns
      <3> DEFINE N == Len(s.turns) + 1
                 X == {<<N, Turn(i, s.composer)>>}
      <3>1. Adds(s, tui', X)
        BY <2>1, OwnEnterAdds
      <3>2. Adds(tui, tui', X)
        <4> HIDE DEF X
        <4>1. {} \subseteq X /\ X \subseteq X
          OBVIOUS
        <4> QED BY <1>1, <2>1, <2>2, <3>1, <4>1, AddsTwice
      <3>3. N \in Nat /\ s.composer \in Texts
        BY <2>1 DEF Screens
      <3>4. Prompt(i) \in ToSet(s.composer) => Unsent(tui, i)
        BY <2>4, <2>5, <2>7 DEF HasPrompt
      <3> HIDE DEF N
      <3>5. \E M \in Nat, text \in Texts :
              /\ Adds(tui, tui', {<<M, Turn(i, text)>>}) /\ CleanText(text, i, typed, l)
              /\ Prompt(i) \in ToSet(text) => Unsent(tui, i)
        BY <2>4, <2>7, <3>2, <3>3, <3>4
      <3> QED BY <1>2, <1>8, <2>4, <2>7, <3>5 DEF l
    <2> QED BY <2>6, <2>7
  <1> QED BY <1>7, <1>8

(* What a step writes: nothing but hands' keys, or one Enter of its own before them. *)
LEMMA BackHands ==
  ASSUME TypeInv, NEW i \in Subs, NEW d, NEW landed \in BOOLEAN
  PROVE  Back(i, d, landed) \in Seq(Hands)
PROOF
  <1>1. held \in Seq(Hands)
    BY HandsAreKeys DEF TypeInv, TypingInv
  <1>2. sub[i].kept \in Texts
    <2>1. sub[i] \in SubRecs
      BY DEF TypeInv, SubInv
    <2> QED BY <2>1 DEF SubRecs
  <1>3. PutBack(d, sub[i].kept) \in Seq(Hands)
    <2>1. <<Wipe, Paste(sub[i].kept)>> \in Seq(Hands) /\ <<>> \in Seq(Hands)
      BY <1>2, OwnHands
    <2> QED BY <2>1 DEF PutBack
  <1> QED BY <1>1, <1>3 DEF Back

LEMMA EndWrites ==
  ASSUME Base, NEW i \in Subs, NEW written, NEW d, NEW landed \in BOOLEAN, NEW outcome,
         End(i, written, d, landed, outcome)
  PROVE  /\ tui' \in Pressed(written \o Back(i, d, landed)) /\ Back(i, d, landed) \in Seq(Hands)
         /\ written \in Seq(Hands) => \E keys \in Seq(Hands) : tui' \in Pressed(keys)
PROOF
  <1> DEFINE back == Back(i, d, landed)
  <1>1. tui' \in Pressed(written \o back)
    BY DEF End, WriteAll, Back
  <1>2. back \in Seq(Hands)
    BY BackHands DEF Base
  <1> HIDE DEF back
  <1>3. written \in Seq(Hands) => written \o back \in Seq(Hands)
    BY <1>2
  <1> QED BY <1>1, <1>2, <1>3 DEF back

LEMMA StepWrites ==
  ASSUME Base, NEW i \in Subs, Step(i)
  PROVE  \/ \E keys \in Seq(Hands) : tui' \in Pressed(keys)
         \/ /\ pc[i] = "settling" /\ ~tui.dialog
            /\ \E keys \in Seq(Hands) : tui' \in Pressed(<<Enter(i)>> \o keys)
         \/ pc[i] = "looked" /\ ~tui.dialog /\ Retry(i)
PROOF
  <1>1. tui \in Screens /\ sub[i] \in SubRecs /\ <<>> \in Seq(Hands) /\ Pressed(<<>>) = {tui}
    BY PressedNone DEF Base, TypeInv, ScreenInv, SubInv
  <1>2. CASE UNCHANGED tui
    BY <1>1, <1>2
  <1>3. CASE Begin(i) \/ Left(i)
    <2>1. CASE Leave(i)
      BY <2>1, OwnHands DEF Leave, WriteAll
    <2>2. CASE GoIn(i)
      <3>1. CASE Edits(i)
        <4>1. Head(Plan(i)) \in Seq(Hands)
          BY <3>1, PlanGood, OwnHands DEF Base, TypeInv
        <4> QED BY <2>2, <3>1, <4>1 DEF GoIn, WriteAll
      <3>2. CASE ~Edits(i)
        <4>1. <<Wipe, Paste(<<Prompt(i)>>)>> \in Seq(Hands)
          BY OwnHands, OwnKeys
        <4> QED BY <2>2, <3>2, <4>1 DEF GoIn, WriteAll
      <3> QED BY <3>1, <3>2
    <2> QED BY <1>2, <1>3, <2>1, <2>2 DEF Begin, Left, Refuse
  <1>4. CASE Settled(i)
    <2>1. CASE tui.dialog /\ End(i, <<>>, sub[i].kept, FALSE, "failed")
      BY <1>1, <2>1, EndWrites
    <2>2. CASE End(i, <<Tab>>, <<>>, TRUE, "unconfirmed")
      BY <2>2, EndWrites, OwnHands
    <2>3. CASE ~tui.dialog /\ End(i, <<Enter(i)>>, <<>>, TRUE, "unconfirmed")
      BY <1>4, <2>3, EndWrites DEF Settled
    <2>4. CASE ~tui.dialog /\ WriteAll(<<Enter(i)>>)
      <3>1. <<Enter(i)>> = <<Enter(i)>> \o <<>>
        OBVIOUS
      <3>2. tui' \in Pressed(<<Enter(i)>> \o <<>>)
        BY <2>4, <3>1 DEF WriteAll
      <3> QED BY <1>1, <1>4, <2>4, <3>2 DEF Settled
    <2> QED BY <1>4, <2>1, <2>2, <2>3, <2>4 DEF Settled
  <1>5. CASE Looked(i)
    <2>1. CASE Retry(i) /\ ~tui.dialog
      BY <1>5, <2>1 DEF Looked
    <2>2. ASSUME NEW d, NEW landed \in BOOLEAN, NEW outcome, End(i, <<>>, d, landed, outcome)
          PROVE  \E keys \in Seq(Hands) : tui' \in Pressed(keys)
      BY <1>1, <2>2, EndWrites
    <2>3. CASE Missing(i, <<>>, draft)
      <3>1. PICK s \in BOOLEAN : End(i, <<>>, Restored(i, draft, s), FALSE, "unconfirmed")
        BY <2>3 DEF Missing
      <3> QED BY <2>2, <3>1
    <2>4. CASE End(i, <<>>, draft, TRUE, "confirmed")
      BY <2>2, <2>4
    <2>5. CASE End(i, <<>>, draft, FALSE, "failed")
      BY <2>2, <2>5
    <2> QED BY <1>5, <2>1, <2>3, <2>4, <2>5 DEF Looked
  <1>6. CASE EditWrites(i)
    <2>1. sub[i].todo \in Seq(Seq(Hands)) /\ sub[i].todo # <<>>
      BY <1>1, <1>6 DEF SubRecs, EditWrites
    <2>2. Head(sub[i].todo) \in Seq(Hands)
      <3> DEFINE D == Seq(Hands)
      <3> HIDE DEF D
      <3>1. sub[i].todo \in Seq(D) => Head(sub[i].todo) \in D
        BY <2>1
      <3> QED BY <2>1, <3>1 DEF D
    <2> QED BY <1>6, <2>2 DEF EditWrites, WriteAll
  <1>7. CASE EditEnds(i)
    BY <1>1, <1>7, EndWrites DEF EditEnds
  <1> QED BY <1>2, <1>3, <1>4, <1>5, <1>6, <1>7 DEF Step, Look

(* The log only grows, and what is written of it too. *)
LEMMA LogStep ==
  ASSUME Base, [Next]_vars, Placed(typed)
  PROVE  /\ Placed(typed') /\ Len(through) \in Nat /\ Len(through') \in Nat /\ Len(through) <= Len(through')
         /\ \A m \in 1..Len(through) : typed'[m] = typed[m]
PROOF
  <1>1. TypingInv /\ TypingInv'
    BY TypeStep DEF Base, TypeInv
  <1>2. /\ typed \in Seq(UserKeys) /\ through \in Seq(UserKeys) /\ held \in Seq(UserKeys)
        /\ Len(through) \in Nat /\ Len(held) \in Nat
        /\ Len(typed) \in Nat /\ Len(through) <= Len(typed) /\ Len(through') \in Nat
    BY <1>1, LogParts DEF TypingInv
  <1>3. CASE typed' = typed /\ \E s \in Seq(UserKeys) : through' = through \o s
    <2>1. PICK s \in Seq(UserKeys) : through' = through \o s
      BY <1>3
    <2>2. Len(through') = Len(through) + Len(s) /\ Len(s) \in Nat
      BY <1>2, <2>1
    <2> QED BY <1>2, <1>3, <2>2
  <1>4. CASE UNCHANGED <<typed, through>>
    BY <1>2, <1>4
  <1>5. ASSUME NEW i \in Subs, Step(i) PROVE typed' = typed /\ \E s \in Seq(UserKeys) : through' = through \o s
    <2>1. <<>> \in Seq(UserKeys) /\ through \o <<>> = through
      BY <1>2
    <2>2. CASE UNCHANGED <<typed, through>>
      BY <2>1, <2>2
    <2>3. CASE typed' = typed /\ through' = through \o held
      BY <1>2, <2>3
    <2>4. CASE Retry(i)
      BY <1>2, <2>1, <2>4 DEF Retry, GivenTyping
    <2>5. Begin(i) \/ Left(i) => UNCHANGED <<typed, through>>
      BY DEF Begin, Left, Refuse, Leave, GoIn
    <2>6. Settled(i) => UNCHANGED <<typed, through>> \/ (typed' = typed /\ through' = through \o held)
      BY DEF Settled, End
    <2>7. Looked(i) => Retry(i) \/ (typed' = typed /\ through' = through \o held)
      BY DEF Looked, Missing, End
    <2>8. Look(i) \/ EditWrites(i) => UNCHANGED <<typed, through>>
      BY DEF Look, EditWrites
    <2>9. EditEnds(i) => typed' = typed /\ through' = through \o held
      BY DEF EditEnds, End
    <2> QED BY <1>5, <2>2, <2>3, <2>4, <2>5, <2>6, <2>7, <2>8, <2>9 DEF Step
  <1>6. ASSUME NEW key \in UserKeys, \A n \in 1..MaxTyped : key = Word(n) => n = Len(typed) + 1, Type(key)
        PROVE  /\ Placed(typed') /\ Len(through) <= Len(through')
               /\ \A m \in 1..Len(through) : typed'[m] = typed[m]
    <2>1. typed' = Append(typed, key) /\ (through' = through \/ through' = Append(through, key))
      BY <1>6 DEF Type
    <2>2. /\ DOMAIN typed' = 1..(Len(typed) + 1) /\ typed'[Len(typed) + 1] = key
          /\ \A m \in 1..Len(typed) : typed'[m] = typed[m] /\ m \in DOMAIN typed
      BY <1>2, <2>1
    <2>3. Placed(typed')
      <3> SUFFICES ASSUME NEW m \in DOMAIN typed', NEW n \in 1..MaxTyped, typed'[m] = Word(n) PROVE n = m
        BY DEF Placed
      <3>1. m = Len(typed) + 1 \/ m \in 1..Len(typed)
        BY <1>2, <2>2
      <3> QED BY <1>6, <2>2, <3>1 DEF Placed
    <2>4. Len(through) <= Len(through')
      BY <1>2, <2>1
    <2>5. \A m \in 1..Len(through) : m \in 1..Len(typed)
      BY <1>2
    <2> QED BY <2>2, <2>3, <2>4, <2>5
  <1>7. CASE Type(Word(Len(typed) + 1)) \/ Type(Enter(Person)) \/ Type(Tab)
    <2>1. Len(typed) < MaxTyped
      BY <1>7 DEF Type
    <2>2. Word(Len(typed) + 1) \in UserKeys /\ Enter(Person) \in UserKeys /\ Tab \in UserKeys
      BY <1>1, <2>1, NextKeys DEF UserKeys
    <2>3. \A n \in 1..MaxTyped : /\ Word(Len(typed) + 1) = Word(n) => n = Len(typed) + 1
                                 /\ Enter(Person) # Word(n) /\ Tab # Word(n)
      BY DEF Word, Enter, Tab
    <2> QED BY <1>2, <1>6, <1>7, <2>2, <2>3
  <1>8. ASSUME NEW i \in Subs, NEW k \in Kinds, Start(i, k) PROVE UNCHANGED <<typed, through>>
    BY <1>8 DEF Start
  <1>9. ScreenChanges \/ QueueDrains \/ TurnRecorded \/ UNCHANGED vars => UNCHANGED <<typed, through>>
    BY DEF ScreenChanges, QueueDrains, TurnRecorded, vars
  <1> QED BY <1>2, <1>3, <1>4, <1>5, <1>7, <1>8, <1>9 DEF Next

(* A step that adds no turn but the person's. *)
LEMMA QuietStep ==
  ASSUME Base, [Next]_vars, SendInv, ~tui.cut, Adds(tui, tui', {})
  PROVE  /\ CleanTurns(tui', typed', Len(through')) /\ Once(tui')
         /\ \A j \in Subs : (NoneBy(tui, j) => NoneBy(tui', j)) /\ (Unsent(tui, j) => Unsent(tui', j))
PROOF
  <1>1. tui \in Screens /\ tui' \in Screens /\ Later(tui, tui')
    BY ScreenStep DEF Base, TypeInv, ScreenInv
  <1>2. Adds(tui, tui', {<<0, Turn(0, <<>>)>>})
    BY DEF Adds
  <1>3. ToSet(<<>>) = {}
    BY DEF ToSet
  <1>4. CleanText(<<>>, 0, typed', Len(through'))
    BY <1>3 DEF CleanText
  <1>5. CleanTurns(tui', typed', Len(through')) /\ Once(tui')
    <2>1. /\ Len(through) \in Nat /\ Len(through') \in Nat /\ Len(through) <= Len(through')
          /\ \A m \in 1..Len(through) : typed'[m] = typed[m]
      BY LogStep DEF SendInv
    <2>2. CleanTurns(tui, typed, Len(through)) /\ Once(tui)
      BY DEF SendInv
    <2> QED BY <1>1, <1>2, <1>3, <1>4, <2>1, <2>2, TurnsStayGood
  <1>6. \A x \in {} : \A j : x[2].by # j
    OBVIOUS
  <1> QED BY <1>1, <1>5, <1>6, UnsentKept

(* A step that adds one turn of submission i besides. *)
LEMMA SendingStep ==
  ASSUME Base, [Next]_vars, SendInv, ~tui.cut, NEW i \in Subs, NEW N \in Nat, NEW text \in Texts,
         Adds(tui, tui', {<<N, Turn(i, text)>>}), CleanText(text, i, typed', Len(through')),
         Prompt(i) \in ToSet(text) => Unsent(tui, i)
  PROVE  /\ CleanTurns(tui', typed', Len(through')) /\ Once(tui')
         /\ \A j \in Subs \ {i} : NoneBy(tui, j) => NoneBy(tui', j)
PROOF
  <1>1. tui \in Screens /\ tui' \in Screens /\ Later(tui, tui')
    BY ScreenStep DEF Base, TypeInv, ScreenInv
  <1>2. CleanTurns(tui', typed', Len(through')) /\ Once(tui')
    <2>1. /\ Len(through) \in Nat /\ Len(through') \in Nat /\ Len(through) <= Len(through')
          /\ \A m \in 1..Len(through) : typed'[m] = typed[m]
      BY LogStep DEF SendInv
    <2>2. CleanTurns(tui, typed, Len(through)) /\ Once(tui)
      BY DEF SendInv
    <2> QED BY <1>1, <2>1, <2>2, TurnsStayGood
  <1>3. ASSUME NEW j \in Subs \ {i}, NoneBy(tui, j) PROVE NoneBy(tui', j)
    <2>1. \A x \in {<<N, Turn(i, text)>>} : x[2].by # j
      BY DEF Turn
    <2> QED BY <1>1, <1>3, <2>1, UnsentKept
  <1> QED BY <1>2, <1>3

(* The composer holds the prompt, unless a dialog is up. *)
LEMMA GoneIn ==
  ASSUME Base, NEW i \in Subs, GoIn(i), ~tui.mode, ~Edits(i), tui'.alive, ~tui'.dialog, ~tui'.cut
  PROVE  tui'.composer = <<Prompt(i)>>
PROOF
  <1> DEFINE d == <<Prompt(i)>>
  <1>1. tui \in Screens /\ d \in Texts /\ Wipe \in Keys /\ Paste(d) \in Keys
    BY OwnKeys DEF Base, TypeInv, ScreenInv, Keys
  <1>2. tui' \in Pressed(<<Wipe, Paste(d)>>)
    BY DEF GoIn, WriteAll
  <1> HIDE DEF d
  <1>3. PICK t \in Press(tui, Wipe) : tui' \in Press(t, Paste(d))
    BY <1>1, <1>2, PressedTwo
  <1>4. t \in Screens /\ t.alive
    <2>1. t \in Screens
      BY <1>1, <1>3, PressGood
    <2> QED BY <1>3, <2>1 DEF Press
  <1>5. tui.alive
    BY <1>3, <1>4 DEF Press
  <1>6. t = tui \/ t = [tui EXCEPT !.composer = <<>>]
    BY <1>3, <1>5, PressOne
  <1>7. ~t.mode
    BY <1>1, <1>6 DEF Screens
  <1>8. tui' \in PressPaste(t, d)
    BY <1>3, <1>4, PressPasteKey
  <1>9. ~tui'.mode
    BY <1>4, <1>7, <1>8 DEF PressPaste, Screens
  <1>10. ~Covered(tui')
    BY <1>9 DEF Covered
  <1> QED BY <1>1, <1>2, <1>10, WipedAndPasted DEF d

(* The first Enter finds the prompt alone. *)
LEMMA FirstEnter ==
  ASSUME NEW t \in Screens, NEW i \in Subs, t.alive => t.composer = <<Prompt(i)>>, NoneBy(t, i),
         NEW u \in Press(t, Enter(i)), NEW d, NEW log, NEW l
  PROVE  /\ Belongs(u, i, d, log, l)
         /\ u.alive /\ HasPrompt(u, i) => Unsent(u, i)
PROOF
  <1>1. /\ u.turns = t.turns \/ u.composer = <<>>
        /\ u.composer = t.composer \/ u.composer = <<>>
        /\ u.alive => t.alive
    BY EnterAdds
  <1>2. ToSet(<<>>) = {} /\ ToSet(<<Prompt(i)>>) = {Prompt(i)}
    BY DEF ToSet
  <1>3. u.alive => \A p \in ToSet(u.composer) : p = Prompt(i)
    BY <1>1, <1>2
  <1>4. ASSUME HasPrompt(u, i) PROVE Unsent(u, i)
    <2>1. u.turns = t.turns
      BY <1>1, <1>2, <1>4 DEF HasPrompt
    <2> QED BY <2>1 DEF NoneBy, Unsent
  <1> QED BY <1>3, <1>4 DEF Belongs

LEMMA DeadScreen ==
  ASSUME tui \in Screens, ~tui.alive, NEW keys \in Seq(Keys), NEW u \in Pressed(keys)
  PROVE  u = tui
PROOF
  <1> DEFINE G == {tui}
  <1>1. \A t \in G \cap Screens, k \in Keys : Press(t, k) \subseteq G
    BY DEF Press
  <1>2. Keys \in SUBSET Keys /\ tui \in G
    OBVIOUS
  <1> HIDE DEF G
  <1>3. Pressed(keys) \subseteq G
    BY <1>1, <1>2, PressedKeeps
  <1> QED BY <1>3 DEF G

(* A submission's own step: what it writes, and what is then known of it. *)
LEMMA StepSends ==
  ASSUME Base, SendInv, [Next]_vars, ~tui.cut, ~tui'.cut, NEW i \in Subs, Step(i)
  PROVE  /\ CleanTurns(tui', typed', Len(through')) /\ Once(tui')
         /\ \A j \in Subs \ {i} : NoneBy(tui, j) => NoneBy(tui', j)
         /\ Carries(i)'
PROOF
  <1>1. /\ tui \in Screens /\ tui' \in Screens /\ Later(tui, tui')
        /\ pc \in [Subs -> Phases] /\ draft \in Texts
    BY ScreenStep DEF Base, TypeInv, ScreenInv, LockInv
  <1>2. Carries(i) /\ Placed(typed)
    BY DEF SendInv
  <1>3. ASSUME Adds(tui, tui', {})
        PROVE  /\ CleanTurns(tui', typed', Len(through')) /\ Once(tui')
               /\ \A j \in Subs : NoneBy(tui, j) => NoneBy(tui', j)
    BY <1>3, QuietStep
  <1>4. ASSUME NEW keys \in Seq(Hands), tui' \in Pressed(keys) PROVE Adds(tui, tui', {})
    BY <1>1, <1>4, PressedAdds
  <1>5. CASE pc[i] \notin {"settling", "looked"}
    <2>1. Adds(tui, tui', {})
      BY <1>4, <1>5, StepWrites
    <2>2. pc[i] \in {"waiting", "leaving", "editing"} => NoneBy(tui', i)
      BY <1>2, <1>3, <2>1 DEF Carries
    <2>3. CASE Begin(i) \/ Left(i)
      <3>1. pc[i] \in {"waiting", "leaving"}
        BY <2>3 DEF Begin, Left
      <3>2. CASE Refuse(i)
        <4>1. pc'[i] = "done"
          BY <1>1, <3>2 DEF Refuse
        <4> QED BY <1>3, <2>1, <4>1 DEF Carries
      <3>3. CASE Leave(i)
        <4>1. pc'[i] = "leaving"
          BY <1>1, <3>3 DEF Leave
        <4> QED BY <1>3, <2>1, <2>2, <3>1, <4>1 DEF Carries
      <3>4. CASE GoIn(i) /\ ~tui.mode
        <4>1. pc'[i] = IF Edits(i) THEN "editing" ELSE "settling"
          BY <1>1, <3>4 DEF GoIn
        <4>2. ~Edits(i) /\ tui'.alive /\ ~tui'.dialog => tui'.composer = <<Prompt(i)>>
          BY <3>4, GoneIn
        <4>3. Carries(i)'
          BY <2>2, <3>1, <4>1, <4>2 DEF Carries
        <4> QED BY <1>3, <2>1, <4>3
      <3> QED BY <2>3, <3>2, <3>3, <3>4 DEF Begin, Left
    <2>4. CASE Look(i)
      <3>1. pc[i] = "polling" /\ pc'[i] = "looked" /\ UNCHANGED <<tui, draft, typed, through>>
        BY <1>1, <2>4 DEF Look
      <3>2. Belongs(tui, i, draft, typed, Len(through)) /\ (tui.alive /\ HasPrompt(tui, i) => Unsent(tui, i))
        BY <1>2, <3>1 DEF Carries
      <3>3. Belongs(tui', i, draft', typed', Len(through')) /\ (tui'.alive /\ HasPrompt(tui', i) => Unsent(tui', i))
        BY <3>1, <3>2
      <3>4. Carries(i)'
        BY <3>1, <3>3 DEF Carries
      <3> QED BY <1>3, <2>1, <3>4
    <2>5. CASE EditWrites(i)
      <3>1. pc[i] = "editing" /\ pc'[i] = "editing"
        BY <2>5 DEF EditWrites
      <3>2. Carries(i)'
        BY <2>2, <3>1 DEF Carries
      <3> QED BY <1>3, <2>1, <3>2
    <2>6. CASE EditEnds(i)
      <3>1. pc'[i] = "done"
        BY <1>1, <2>6 DEF EditEnds, End
      <3>2. Carries(i)'
        BY <3>1 DEF Carries
      <3> QED BY <1>3, <2>1, <3>2
    <2> QED BY <1>5, <2>3, <2>4, <2>5, <2>6 DEF Step, Settled, Looked
  <1>6. CASE pc[i] = "settling"
    <2>1. Settled(i)
      BY <1>6 DEF Step, Begin, Left, Look, Looked, EditWrites, EditEnds
    <2>2. NoneBy(tui, i) /\ (tui.alive /\ ~tui.dialog => tui.composer = <<Prompt(i)>>)
      BY <1>2, <1>6 DEF Carries
    <2>3. Carries(i)'
      <3>1. CASE ~tui.dialog /\ pc'[i] = "polling" /\ tui' \in Pressed(<<Enter(i)>>)
        <4>1. Enter(i) \in Keys
          BY DEF Keys
        <4>2. tui' \in Press(tui, Enter(i))
          BY <1>1, <3>1, <4>1, PressedOne
        <4>3. /\ Belongs(tui', i, draft', typed', Len(through'))
              /\ tui'.alive /\ HasPrompt(tui', i) => Unsent(tui', i)
          BY <1>1, <2>2, <3>1, <4>2, FirstEnter
        <4> QED BY <3>1, <4>3 DEF Carries
      <3>2. CASE pc'[i] = "done"
        BY <3>2 DEF Carries
      <3> QED BY <1>1, <2>1, <3>1, <3>2 DEF Settled, End, WriteAll
    <2>4. CASE Adds(tui, tui', {})
      BY <1>3, <2>3, <2>4
    <2>5. CASE ~tui.dialog /\ \E keys \in Seq(Hands) : tui' \in Pressed(<<Enter(i)>> \o keys)
      <3>1. PICK keys \in Seq(Hands) : tui' \in Pressed(<<Enter(i)>> \o keys)
        BY <2>5
      <3>2. CASE ~tui.alive
        <4>1. <<Enter(i)>> \o keys \in Seq(Keys)
          <5>1. keys \in Seq(Keys) /\ Enter(i) \in Keys
            BY HandsAreKeys DEF Keys
          <5> QED BY <5>1
        <4>2. tui' = tui
          BY <1>1, <3>1, <3>2, <4>1, DeadScreen
        <4> QED BY <2>4, <4>2, AddsSame
      <3>3. CASE tui.alive
        <4> DEFINE text == <<Prompt(i)>>
                   N == Len(tui.turns) + 1
        <4>1. tui.composer = text
          BY <2>2, <2>5, <3>3
        <4>2. Adds(tui, tui', {<<N, Turn(i, text)>>})
          BY <1>1, <3>1, <4>1, EnterThenHands
        <4>3. text \in Texts /\ N \in Nat
          BY <1>1, OwnKeys DEF Screens
        <4>4. ToSet(text) = {Prompt(i)}
          BY DEF ToSet
        <4>5. CleanText(text, i, typed', Len(through'))
          BY <4>4 DEF CleanText
        <4>6. Unsent(tui, i)
          BY <2>2 DEF NoneBy, Unsent
        <4> HIDE DEF text, N
        <4> QED BY <2>3, <4>2, <4>3, <4>5, <4>6, SendingStep
      <3> QED BY <3>2, <3>3
    <2> QED BY <1>4, <1>6, <2>4, <2>5, StepWrites
  <1>7. CASE pc[i] = "looked"
    <2>1. Looked(i)
      BY <1>7 DEF Step, Begin, Left, Look, Settled, EditWrites, EditEnds
    <2>2. CASE Retry(i) /\ ~tui.dialog
      <3>1. Belongs(tui, i, draft, typed, Len(through)) /\ (tui.alive /\ HasPrompt(tui, i) => Unsent(tui, i))
        BY <1>2, <1>7 DEF Carries
      <3>2. typed' = typed
        BY <2>2 DEF Retry
      <3>3. PICK N \in Nat, text \in Texts :
              /\ Adds(tui, tui', {<<N, Turn(i, text)>>}) /\ CleanText(text, i, typed, Len(through'))
              /\ Prompt(i) \in ToSet(text) => Unsent(tui, i)
        BY <1>2, <2>2, <3>1, RetrySends
      <3>4. /\ CleanTurns(tui', typed', Len(through')) /\ Once(tui')
            /\ \A j \in Subs \ {i} : NoneBy(tui, j) => NoneBy(tui', j)
        BY <3>2, <3>3, SendingStep
      <3>5. /\ ~LastPoll(i) => Belongs(tui', i, draft', typed, Len(through'))
            /\ tui'.alive /\ HasPrompt(tui', i) => Unsent(tui', i)
        BY <1>2, <2>2, <3>1, RetrySends
      <3>6. IF LastPoll(i) THEN pc'[i] = "done" ELSE pc'[i] = "polling"
        BY <1>1, <2>2 DEF Retry
      <3>7. Carries(i)'
        BY <3>2, <3>5, <3>6 DEF Carries
      <3> QED BY <3>4, <3>7
    <2>3. CASE ~(Retry(i) /\ ~tui.dialog)
      <3>1. Adds(tui, tui', {})
        BY <1>4, <1>7, <2>3, StepWrites
      <3>2. pc'[i] = "done"
        BY <1>1, <2>1, <2>3 DEF Looked, Missing, End
      <3>3. Carries(i)'
        BY <3>2 DEF Carries
      <3> QED BY <1>3, <3>1, <3>3
    <2> QED BY <2>2, <2>3
  <1> QED BY <1>5, <1>6, <1>7

(* The person presses a key. *)
LEMMA TypedBelongs ==
  ASSUME Base, SendInv, [Next]_vars, NEW key \in UserKeys, Type(key), ~tui.cut, NEW i \in Subs
  PROVE  /\ Adds(tui, tui', {}) /\ (tui'.alive => tui.alive) /\ (HasPrompt(tui', i) => HasPrompt(tui, i))
         /\ Belongs(tui, i, draft, typed, Len(through)) => Belongs(tui', i, draft', typed', Len(through'))
PROOF
  <1>1. /\ tui \in Screens /\ Sound(tui) /\ draft \in Texts /\ TypingInv /\ TypingInv'
        /\ through \in Seq(UserKeys) /\ held \in Seq(UserKeys) /\ typed \in Seq(UserKeys) /\ typed' \in Seq(UserKeys)
    <2>1. TypingInv /\ TypingInv' /\ tui \in Screens /\ Sound(tui) /\ draft \in Texts
      BY TypeStep DEF Base, TypeInv, ScreenInv, HandlingInv
    <2>2. typed \in Seq(UserKeys)
      BY <2>1, LogParts
    <2>3. typed' = through' \o held' /\ through' \in Seq(UserKeys) /\ held' \in Seq(UserKeys)
      BY <2>1 DEF TypingInv, TypingKept
    <2> QED BY <2>1, <2>2, <2>3 DEF TypingInv
  <1>2. /\ Placed(typed') /\ Len(through) \in Nat /\ Len(through') \in Nat /\ Len(through) <= Len(through')
        /\ \A m \in 1..Len(through) : typed'[m] = typed[m]
    BY LogStep DEF SendInv
  <1>3. CASE goingIn
    <2>1. UNCHANGED <<tui, draft, through>>
      BY <1>3 DEF Type
    <2>2. Belongs(tui, i, draft, typed, Len(through)) => Belongs(tui, i, draft, typed', Len(through))
      <3>1. Len(through) <= Len(through)
        BY <1>2
      <3> QED BY <1>2, <3>1, BelongsStill
    <2> QED BY <2>1, <2>2, AddsSame
  <1>4. CASE ~goingIn
    <2>1. tui' \in Pressed(<<key>>) /\ draft' = Track(draft, key) /\ key \in Keys /\ key \in Hands
      BY <1>4, HandsAreKeys DEF Type, WriteAll
    <2>2. tui' \in Press(tui, key)
      BY <1>1, <2>1, PressedOne
    <2>3. Adds(tui, tui', {}) /\ (tui'.alive => tui.alive) /\ (HasPrompt(tui', i) => HasPrompt(tui, i))
      BY <1>1, <2>1, <2>2, HandAdds, UserPress
    <2> DEFINE l == Len(through)
    <2>4. typed = through /\ typed' = Append(through, key) /\ through' = Append(through, key)
      <3>1. held = <<>>
        BY <1>1, <1>4 DEF TypingInv, TypingKept
      <3>2. typed = through
        BY <1>1, <3>1 DEF TypingInv, TypingKept
      <3> QED BY <1>4, <3>2 DEF Type
    <2>5. Len(through') = l + 1 /\ l + 1 \in DOMAIN typed' /\ typed'[l + 1] = key
      BY <1>1, <2>4
    <2>6. ASSUME Belongs(tui, i, draft, typed, l) PROVE Belongs(tui', i, draft', typed', Len(through'))
      <3>1. Belongs(tui, i, draft, typed', l)
        <4>1. l <= l
          BY <1>2
        <4> QED BY <1>2, <2>6, <4>1, BelongsStill
      <3> HIDE DEF l
      <3>2. l \in Nat /\ tui' \in Press(tui, typed'[l + 1])
        BY <1>2, <2>2, <2>5 DEF l
      <3>3. Belongs(tui', i, Track(draft, typed'[l + 1]), typed', l + 1)
        BY <1>1, <1>2, <2>5, <3>1, <3>2, KeyBelongs
      <3> QED BY <2>1, <2>5, <3>3
    <2> QED BY <2>3, <2>6
  <1> QED BY <1>3, <1>4

LEMMA SendStep == Base /\ SendInv /\ [Next]_vars => SendInv'
PROOF
  <1> SUFFICES ASSUME Base, SendInv, [Next]_vars PROVE SendInv'
    OBVIOUS
  <1>1. Placed(typed')
    BY LogStep DEF SendInv
  <1> SUFFICES ASSUME ~tui'.cut
               PROVE  /\ CleanTurns(tui', typed', Len(through')) /\ Once(tui')
                      /\ \A j \in Subs : Carries(j)'
    BY <1>1 DEF SendInv
  <1>2. /\ tui \in Screens /\ tui' \in Screens /\ Later(tui, tui') /\ pc \in [Subs -> Phases]
        /\ \A j \in Subs : Handled(j)
    BY ScreenStep DEF Base, TypeInv, ScreenInv, LockInv, HandlingInv
  <1>3. ~tui.cut
    BY <1>2 DEF Later
  <1>4. \A j \in Subs : Carries(j)
    BY <1>3 DEF SendInv
  <1>5. ASSUME Adds(tui, tui', {})
        PROVE  /\ CleanTurns(tui', typed', Len(through')) /\ Once(tui')
               /\ \A j \in Subs : (NoneBy(tui, j) => NoneBy(tui', j)) /\ (Unsent(tui, j) => Unsent(tui', j))
    BY <1>3, <1>5, QuietStep
  <1>6. ASSUME NEW j \in Subs, pc'[j] = pc[j], Adds(tui, tui', {}), UNCHANGED <<draft, typed, through>>,
               tui'.composer = tui.composer, tui'.cut = tui.cut, tui'.alive => tui.alive,
               tui.dialog => tui'.dialog, tui.mode => tui'.mode
        PROVE  Carries(j)'
    <2>1. (NoneBy(tui, j) => NoneBy(tui', j)) /\ (Unsent(tui, j) => Unsent(tui', j))
      BY <1>5, <1>6
    <2>2. pc[j] \in {"polling", "looked"} => Belongs(tui', j, draft', typed', Len(through'))
      BY <1>4, <1>6 DEF Carries, Belongs, Covered
    <2> QED BY <1>4, <1>6, <2>1, <2>2 DEF Carries, HasPrompt
  <1>7. CASE UNCHANGED <<tui, draft, typed, through, pc>>
    <2>1. Adds(tui, tui', {})
      BY <1>7, AddsSame
    <2> QED BY <1>5, <1>6, <1>7, <2>1
  <1>8. ASSUME NEW i \in Subs, NEW k \in Kinds, Start(i, k)
        PROVE  CleanTurns(tui', typed', Len(through')) /\ Once(tui') /\ \A j \in Subs : Carries(j)'
    <2>1. /\ UNCHANGED <<tui, draft, typed, through>> /\ pc[i] = "idle" /\ pc'[i] = "waiting"
          /\ \A j \in Subs \ {i} : pc'[j] = pc[j]
      BY <1>2, <1>8 DEF Start
    <2>2. Adds(tui, tui', {})
      BY <2>1, AddsSame
    <2>3. Carries(i)'
      <3>1. NoneBy(tui', i)
        BY <1>4, <2>1 DEF Carries
      <3> QED BY <2>1, <3>1 DEF Carries
    <2> QED BY <1>5, <1>6, <2>1, <2>2, <2>3
  <1>9. ASSUME NEW i \in Subs, Step(i)
        PROVE  CleanTurns(tui', typed', Len(through')) /\ Once(tui') /\ \A j \in Subs : Carries(j)'
    <2>1. /\ CleanTurns(tui', typed', Len(through')) /\ Once(tui') /\ Carries(i)'
          /\ \A j \in Subs \ {i} : NoneBy(tui, j) => NoneBy(tui', j)
      BY <1>3, <1>9, StepSends
    <2>2. ASSUME NEW j \in Subs \ {i} PROVE Carries(j)'
      <3>1. ~GoesIn(j) /\ pc'[j] = pc[j]
        BY <1>9, StepOf DEF Base
      <3>2. pc[j] \in {"idle", "waiting", "done"}
        BY <1>2, <3>1 DEF GoesIn, Phases
      <3>3. pc[j] \in {"idle", "waiting"} => NoneBy(tui', j)
        BY <1>4, <2>1 DEF Carries
      <3> QED BY <3>1, <3>2, <3>3 DEF Carries
    <2> QED BY <2>1, <2>2
  <1>10. ASSUME NEW key \in UserKeys, Type(key)
         PROVE  CleanTurns(tui', typed', Len(through')) /\ Once(tui') /\ \A j \in Subs : Carries(j)'
    <2>1. pc' = pc /\ (goingIn => tui' = tui)
      BY <1>10 DEF Type
    <2>2. Adds(tui, tui', {})
      <3>1. CASE goingIn
        BY <2>1, <3>1, AddsSame
      <3>2. CASE ~goingIn
        <4>1. tui' \in Pressed(<<key>>) /\ key \in Keys /\ key \in Hands
          BY <1>10, <3>2, HandsAreKeys DEF Type, WriteAll
        <4>2. tui' \in Press(tui, key)
          BY <1>2, <4>1, PressedOne
        <4> QED BY <1>2, <4>1, <4>2, HandAdds
      <3> QED BY <3>1, <3>2
    <2>3. ASSUME NEW j \in Subs PROVE Carries(j)'
      <3>1. /\ (tui'.alive => tui.alive) /\ (HasPrompt(tui', j) => HasPrompt(tui, j))
            /\ Belongs(tui, j, draft, typed, Len(through)) => Belongs(tui', j, draft', typed', Len(through'))
        BY <1>3, <1>10, TypedBelongs
      <3>2. (NoneBy(tui, j) => NoneBy(tui', j)) /\ (Unsent(tui, j) => Unsent(tui', j))
        BY <1>5, <2>2
      <3>3. Carries(j) /\ (pc[j] = "settling" => goingIn)
        BY <1>2, <1>4 DEF Handled
      <3> QED BY <2>1, <3>1, <3>2, <3>3 DEF Carries
    <2> QED BY <1>5, <2>2, <2>3
  <1>11. CASE Type(Word(Len(typed) + 1)) \/ Type(Enter(Person)) \/ Type(Tab)
    <2>1. Len(typed) < MaxTyped
      BY <1>11 DEF Type
    <2>2. Word(Len(typed) + 1) \in UserKeys /\ Enter(Person) \in UserKeys /\ Tab \in UserKeys
      BY <2>1, NextKeys DEF UserKeys, Base, TypeInv
    <2> QED BY <1>10, <1>11, <2>2
  <1>12. CASE ScreenChanges
    <2>1. /\ tui'.composer = tui.composer /\ tui'.cut = tui.cut /\ (tui'.alive => tui.alive) /\ tui'.turns = tui.turns
          /\ (tui.dialog => tui'.dialog) /\ (tui.mode => tui'.mode)
      BY <1>2, <1>12 DEF ScreenChanges, Screens
    <2>2. Adds(tui, tui', {}) /\ UNCHANGED <<draft, typed, through, pc>>
      BY <1>12, <2>1, AddsSame DEF ScreenChanges
    <2> QED BY <1>5, <1>6, <2>1, <2>2
  <1>13. CASE QueueDrains
    <2> DEFINE turn == Turn(Person, Head(tui.queue))
    <2>1. /\ tui'.composer = tui.composer /\ tui'.cut = tui.cut /\ tui'.alive = tui.alive
          /\ tui'.dialog = tui.dialog /\ tui'.mode = tui.mode /\ tui'.turns = Append(tui.turns, turn)
      BY <1>2, <1>13 DEF QueueDrains, Screens
    <2>2. turn.by = Person
      BY DEF Turn
    <2> HIDE DEF turn
    <2>3. Adds(tui, tui', {}) /\ UNCHANGED <<draft, typed, through, pc>>
      BY <1>2, <1>13, <2>1, <2>2, OneTurnAdded DEF QueueDrains
    <2> QED BY <1>5, <1>6, <2>1, <2>3
  <1>14. CASE TurnRecorded \/ UNCHANGED vars
    BY <1>7, <1>14 DEF TurnRecorded, vars
  <1> QED
    BY <1>8, <1>9, <1>11, <1>12, <1>13, <1>14 DEF Next

(* _press_enter_until_prompt_lands and _end_prompt_submit: whatever the screen
   absorbs, covers or uncovers and whatever the person types, holds or queues
   meanwhile, an Enter that TermDeck presses for a prompt sends that prompt, once,
   and beside it no word that the person had not pressed Enter for, on every
   screen that has seen the end of each paste. *)
THEOREM PromptsSendThemselves == Spec => []SendsOnlyItsPrompt
PROOF
  <1>1. Init => SendInv
    <2> SUFFICES ASSUME Init PROVE SendInv
      OBVIOUS
    <2>1. typed = <<>> /\ tui.turns = <<>> /\ \A i \in Subs : pc[i] = "idle"
      BY DEF Init
    <2> QED BY <2>1 DEF SendInv, Placed, CleanTurns, Once, Carries, NoneBy
  <1>2. Base /\ SendInv => SendsOnlyItsPrompt
    <2> SUFFICES ASSUME Base, SendInv, ~tui.cut, NEW n \in DOMAIN tui.turns, tui.turns[n].by # Person
                 PROVE  /\ \A p \in ToSet(tui.turns[n].text) :
                             p = Prompt(tui.turns[n].by) \/ (p[1] = "word" /\ Entered(p[2]))
                        /\ \A m \in DOMAIN tui.turns :
                             m # n /\ tui.turns[m].by = tui.turns[n].by
                               => Prompt(tui.turns[n].by) \notin ToSet(tui.turns[n].text) \cap ToSet(tui.turns[m].text)
      BY DEF SendsOnlyItsPrompt
    <2>1. TypingInv /\ through \in Seq(UserKeys) /\ DOMAIN through = 1..Len(through)
      BY DEF Base, TypeInv, TypingInv
    <2>2. \A m \in 1..Len(through) : typed[m] = through[m]
      BY <2>1, LogParts
    <2>3. ASSUME NEW k, Signed(typed, Len(through), k) PROVE Entered(k)
      BY <2>1, <2>2, <2>3 DEF Signed, Entered
    <2>4. CleanText(tui.turns[n].text, tui.turns[n].by, typed, Len(through)) /\ Once(tui)
      BY DEF SendInv, CleanTurns
    <2> QED BY <2>3, <2>4 DEF CleanText, Once
  <1> QED BY <1>1, <1>2, BaseInit, BaseStep, SendStep, PTL DEF Spec

=============================================================================
