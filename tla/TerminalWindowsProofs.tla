------------------------ MODULE TerminalWindowsProofs ------------------------
(***************************************************************************)
(* The windows of a terminal are sent every chunk once and in order, and   *)
(* show no gap, for any number of windows, connections and chunks, and any *)
(* length of a queue: TypeOK, StreamWhole and ScreenReplays of             *)
(* TerminalWindows.                                                        *)
(*                                                                         *)
(* The invariant says, of each connection that is open and carried, which  *)
(* chunks have been delivered: the wire and then the queue go on from the  *)
(* next one, and what the view shows ends with those since the attach.     *)
(***************************************************************************)
EXTENDS TerminalWindows, InductionLemmas

(* What a connection carries in one message: the replay or a chunk, or the close. *)
Messages == Seq(1..MaxOutput) \cup {<<Close>>}

Connections ==
  [view : Views, keep : BOOLEAN, link : BOOLEAN,
   client : {"open", "closing", "closed"}, server : {"none", "attached", "ended"},
   queue : Seq(0..MaxOutput), over : BOOLEAN, wire : Seq(Messages), at : 0..MaxOutput]

ViewStates ==
  [ws : Nat, timer : BOOLEAN, active : BOOLEAN, again : BOOLEAN, scratch : BOOLEAN,
   awaiting : BOOLEAN, preserve : BOOLEAN, screen : Seq(1..MaxOutput)]

(* In what follows S are the connections and V the views, c is a connection and
   w a view's state, o the chunks printed, u those unseen, and kd what runs. *)

Typed(S, V, o, u, kd) ==
  /\ S \in Seq(Connections) /\ V \in [Views -> ViewStates]
  /\ o \in 1..MaxOutput /\ u \subseteq 1..o /\ kd \in {"shell", "agent"}

(* A view has one connection that is not closed, or none and perhaps a timer; an
   agent's view that is without an open one is to be rebuilt. *)
Away(S, w) == w.ws = None \/ S[w.ws].client = "closing"

LinkedView(S, v, w, kd) ==
  /\ w.ws # None => /\ w.ws \in 1..Len(S)
                    /\ S[w.ws].view = v /\ S[w.ws].client # "closed" /\ ~w.timer
  /\ w.again => w.ws # None /\ S[w.ws].client = "closing"
  /\ kd = "agent" /\ Away(S, w) => w.screen = <<>> \/ w.scratch

Linked(S, V, kd) ==
  /\ \A v \in Views : LinkedView(S, v, V[v], kd)
  /\ \A s \in 1..Len(S) : S[s].client # "closed" => V[S[s].view].ws = s

(* A connection on its own. *)
Tidy(c, o, kd) ==
  /\ Len(c.queue) <= MaxItems /\ c.at <= o
  /\ c.over => c.queue \in {<<>>, <<Close>>}
  /\ c.server = "none" => c.wire = <<>> /\ c.queue = <<>> /\ ~c.over
  /\ c.server = "ended" => c.queue = <<>>
  /\ ~c.link => c.wire = <<>>
  /\ kd = "agent" => ~c.keep

(* A screen is in order, and an agent's has no gap. *)
Covers(screen, u, n) ==
  \A k \in 1..n : k \in u \/ \E j \in 1..Len(screen) : screen[j] = k

Sound(screen, o, u, kd) ==
  /\ \A j \in 1..Len(screen) : screen[j] <= o
  /\ \A j \in 1..Len(screen), k \in 1..Len(screen) : j < k => screen[j] < screen[k]
  /\ kd = "agent" => \A j \in 1..Len(screen) : Covers(screen, u, screen[j])

(* The replay a connection starts with. *)
Replays(c, chunks, u, kd) ==
  IF c.keep THEN chunks = <<>>
  ELSE \E n \in 1..c.at : chunks = Upto(n) /\ (kd = "agent" => (n + 1)..c.at \subseteq u)

(* The last chunk delivered over c is d: what is on its way goes on from there. *)
OnWire(c, w, d, o) ==
  \A k \in 1..Len(c.wire) :
    \/ w.awaiting /\ k = 1
    \/ c.wire[k] = <<d + k>> /\ d + k <= o
    \/ c.wire[k] = <<Close>> /\ c.server = "ended" /\ k = Len(c.wire)

InQueue(c, d, o) ==
  c.server = "attached" /\ ~c.over =>
    /\ d + Len(c.wire) + Len(c.queue) = o
    /\ \A k \in 1..Len(c.queue) : c.queue[k] = d + Len(c.wire) + k

Awaits(c, w, d, u, kd) ==
  w.awaiting =>
    /\ d + 1 = c.at /\ c.wire # <<>> /\ Replays(c, c.wire[1], u, kd)
    /\ c.keep => \A j \in 1..Len(w.screen) : w.screen[j] <= c.at

(* The screen ends with the chunks at + 1 to d. *)
Ends(screen, at, d) ==
  /\ at <= d /\ d - at <= Len(screen)
  /\ \A j \in 1..Len(screen) :
       IF j <= Len(screen) - (d - at) THEN screen[j] <= at
       ELSE screen[j] = at + (j - (Len(screen) - (d - at)))

Goes(c, w, d, u, kd) ==
  ~w.awaiting => Ends(w.screen, c.at, d) /\ (kd = "agent" => Covers(w.screen, u, d))

Flows(c, w, d, o, u, kd) ==
  /\ OnWire(c, w, d, o) /\ InQueue(c, d, o)
  /\ Awaits(c, w, d, u, kd) /\ Goes(c, w, d, u, kd)

Carried(c, w, o, u, kd) ==
  c.client = "open" =>
    /\ w.preserve = c.keep
    /\ c.server = "none" => w.awaiting
    /\ c.server # "none" /\ c.link => \E d \in Nat : Flows(c, w, d, o, u, kd)

Good(S, V, o, u, kd) ==
  /\ Typed(S, V, o, u, kd) /\ Linked(S, V, kd)
  /\ \A s \in 1..Len(S) : Tidy(S[s], o, kd) /\ Carried(S[s], V[S[s].view], o, u, kd)
  /\ \A v \in Views : Sound(V[v].screen, o, u, kd)

-----------------------------------------------------------------------------
(* Sequences of anything *)

LEMMA ChangeOne ==
  ASSUME NEW D, NEW S \in Seq(D), NEW s \in 1..Len(S), NEW c \in D
  PROVE  /\ [S EXCEPT ![s] = c] \in Seq(D) /\ Len([S EXCEPT ![s] = c]) = Len(S)
         /\ \A t \in 1..Len(S) : [S EXCEPT ![s] = c][t] = IF t = s THEN c ELSE S[t]
OBVIOUS

LEMMA AddOne ==
  ASSUME NEW D, NEW S \in Seq(D), NEW c \in D
  PROVE  /\ Append(S, c) \in Seq(D) /\ Len(Append(S, c)) = Len(S) + 1
         /\ \A t \in 1..(Len(S) + 1) : Append(S, c)[t] = IF t <= Len(S) THEN S[t] ELSE c
OBVIOUS

LEMMA ElementOf ==
  ASSUME NEW D, NEW S \in Seq(D)
  PROVE  Len(S) \in Nat /\ \A t \in 1..Len(S) : S[t] \in D
OBVIOUS

LEMMA TakeOne ==
  ASSUME NEW D, NEW S \in Seq(D), S # <<>>
  PROVE  /\ Tail(S) \in Seq(D) /\ Len(Tail(S)) = Len(S) - 1 /\ Len(S) \in Nat \ {0}
         /\ Head(S) = S[1] /\ S[1] \in D
         /\ \A t \in 1..(Len(S) - 1) : Tail(S)[t] = S[t + 1]
OBVIOUS

LEMMA IsSequence ==
  ASSUME NEW D, NEW n \in Nat, NEW f \in [1..n -> D]
  PROVE  f \in Seq(D) /\ Len(f) = n
OBVIOUS

(* The first n chunks. *)
LEMMA UptoIs ==
  ASSUME NEW n \in 1..MaxOutput
  PROVE  /\ Upto(n) \in Seq(1..MaxOutput) /\ Len(Upto(n)) = n /\ Upto(n) # <<>>
         /\ \A k \in 1..n : Upto(n)[k] = k
PROOF
  <1>1. n \in Nat /\ Upto(n) \in [1..n -> 1..MaxOutput] /\ \A k \in 1..n : Upto(n)[k] = k
    BY WindowConstants DEF Upto
  <1>2. Upto(n) \in Seq(1..MaxOutput) /\ Len(Upto(n)) = n
    BY <1>1, IsSequence
  <1> QED BY <1>1, <1>2

-----------------------------------------------------------------------------
(* What changes of a connection or a view leave as it was *)

(* A message or a close takes its place at the end of the wire. *)
LEMMA MessageTypes ==
  /\ <<Close>> \in Messages /\ <<>> \in Messages
  /\ \A n \in 1..MaxOutput : <<n>> \in Messages /\ <<n>> # <<Close>> /\ Upto(n) \in Messages
  /\ \A m \in Messages : m # <<Close>> => m \in Seq(1..MaxOutput)
PROOF
  <1>1. \A n \in 1..MaxOutput : <<n>> \in Seq(1..MaxOutput) /\ <<n>> # <<Close>>
    BY DEF Close
  <1> QED BY <1>1, UptoIs DEF Messages

LEMMA ViewOf ==
  ASSUME NEW S \in Seq(Connections), NEW t \in 1..Len(S)
  PROVE  S[t] \in Connections /\ S[t].view \in Views
PROOF
  <1>1. S[t] \in Connections
    OBVIOUS
  <1> QED BY <1>1 DEF Connections

(* Only some parts of a view matter for what a connection carries. *)
LEMMA CarriedSame ==
  ASSUME NEW c, NEW w, NEW x, NEW o, NEW u, NEW kd, Carried(c, w, o, u, kd),
         x.preserve = w.preserve, x.awaiting = w.awaiting, x.screen = w.screen
  PROVE  Carried(c, x, o, u, kd)
BY DEF Carried, Flows, OnWire, Awaits, Goes

LEMMA CarriedNotOpen ==
  ASSUME NEW c, NEW w, NEW o, NEW u, NEW kd, c.client # "open"
  PROVE  Carried(c, w, o, u, kd)
BY DEF Carried

(* Who is connected depends on the ends of the connections and on no more of them. *)
LEMMA LinkedSame ==
  ASSUME NEW S, NEW T, NEW V, NEW kd, Linked(S, V, kd), Len(T) = Len(S),
         \A t \in 1..Len(S) : T[t].view = S[t].view /\ T[t].client = S[t].client
  PROVE  Linked(T, V, kd)
BY DEF Linked, LinkedView, Away

(* A connection changes, and no view, nor who is connected to it. *)
LEMMA ConnectionGood ==
  ASSUME NEW S, NEW V, NEW o, NEW u, NEW kd, Good(S, V, o, u, kd),
         NEW s \in 1..Len(S), NEW c \in Connections,
         c.view = S[s].view, c.client = S[s].client,
         Tidy(c, o, kd), Carried(c, V[c.view], o, u, kd)
  PROVE  Good([S EXCEPT ![s] = c], V, o, u, kd)
PROOF
  <1> DEFINE T == [S EXCEPT ![s] = c]
  <1>1. S \in Seq(Connections) /\ V \in [Views -> ViewStates]
    BY DEF Good, Typed
  <1>2. /\ T \in Seq(Connections) /\ Len(T) = Len(S)
        /\ \A t \in 1..Len(S) : T[t] = IF t = s THEN c ELSE S[t]
    BY <1>1, ChangeOne
  <1> HIDE DEF T
  <1>3. \A t \in 1..Len(S) : T[t].view = S[t].view /\ T[t].client = S[t].client
    BY <1>2
  <1>4. Linked(T, V, kd)
    BY <1>2, <1>3, LinkedSame DEF Good
  <1>5. \A t \in 1..Len(T) : Tidy(T[t], o, kd) /\ Carried(T[t], V[T[t].view], o, u, kd)
    BY <1>2, <1>3 DEF Good
  <1>6. Good(T, V, o, u, kd)
    BY <1>2, <1>4, <1>5 DEF Good, Typed
  <1> QED BY <1>6 DEF T

(* A view changes, and not its connection nor what it has been shown over it. *)
LEMMA ViewGood ==
  ASSUME NEW S, NEW V, NEW o, NEW u, NEW kd, Good(S, V, o, u, kd),
         NEW v \in Views, NEW w \in ViewStates,
         w.ws = V[v].ws, w.awaiting = V[v].awaiting, w.preserve = V[v].preserve,
         w.screen = V[v].screen,
         LinkedView(S, v, w, kd)
  PROVE  Good(S, [V EXCEPT ![v] = w], o, u, kd)
PROOF
  <1> DEFINE X == [V EXCEPT ![v] = w]
  <1>1. S \in Seq(Connections) /\ V \in [Views -> ViewStates]
    BY DEF Good, Typed
  <1>2. X \in [Views -> ViewStates] /\ \A x \in Views : X[x] = IF x = v THEN w ELSE V[x]
    BY <1>1
  <1> HIDE DEF X
  <1>3. \A x \in Views : /\ X[x].ws = V[x].ws /\ X[x].awaiting = V[x].awaiting
                         /\ X[x].preserve = V[x].preserve /\ X[x].screen = V[x].screen
    BY <1>2
  <1>4. \A t \in 1..Len(S) : S[t].view \in Views
    BY <1>1, ViewOf
  <1>5. Linked(S, X, kd)
    <2>1. \A x \in Views : LinkedView(S, x, X[x], kd)
      BY <1>2 DEF Good, Linked
    <2> QED BY <1>3, <1>4, <2>1 DEF Good, Linked
  <1>6. ASSUME NEW t \in 1..Len(S) PROVE Tidy(S[t], o, kd) /\ Carried(S[t], X[S[t].view], o, u, kd)
    BY <1>3, <1>4, CarriedSame DEF Good
  <1>7. \A x \in Views : Sound(X[x].screen, o, u, kd)
    BY <1>3 DEF Good
  <1>8. Good(S, X, o, u, kd)
    BY <1>2, <1>5, <1>6, <1>7 DEF Good, Typed
  <1> QED BY <1>8 DEF X

-----------------------------------------------------------------------------
(* The pump *)

(* The order to close goes out after what was sent. *)
LEMMA CloseFlows ==
  ASSUME NEW c \in Connections, NEW w, NEW d \in Nat, NEW o \in Nat, NEW u, NEW kd,
         Flows(c, w, d, o, u, kd), c.server = "attached", NEW e \in Connections,
         e.view = c.view, e.keep = c.keep, e.at = c.at, e.server = "ended",
         e.wire = Append(c.wire, <<Close>>)
  PROVE  Flows(e, w, d, o, u, kd)
PROOF
  <1>1. c.wire \in Seq(Messages) /\ <<Close>> \in Messages
    BY MessageTypes DEF Connections
  <1>2. /\ Len(e.wire) = Len(c.wire) + 1 /\ Len(c.wire) \in Nat
        /\ \A t \in 1..(Len(c.wire) + 1) :
             e.wire[t] = IF t <= Len(c.wire) THEN c.wire[t] ELSE <<Close>>
    BY <1>1, AddOne
  <1>3. OnWire(e, w, d, o)
    <2> SUFFICES ASSUME NEW k \in 1..Len(e.wire)
                 PROVE  \/ w.awaiting /\ k = 1
                        \/ e.wire[k] = <<d + k>> /\ d + k <= o
                        \/ e.wire[k] = <<Close>> /\ e.server = "ended" /\ k = Len(e.wire)
      BY DEF OnWire
    <2>1. CASE k <= Len(c.wire)
      <3>1. k \in 1..Len(c.wire) /\ e.wire[k] = c.wire[k]
        BY <1>2, <2>1
      <3> QED BY <3>1 DEF Flows, OnWire
    <2>2. CASE ~(k <= Len(c.wire))
      BY <1>2, <2>2
    <2> QED BY <2>1, <2>2
  <1>4. InQueue(e, d, o)
    BY DEF InQueue
  <1>5. Awaits(e, w, d, u, kd)
    <2>1. c.wire # <<>> => e.wire # <<>> /\ e.wire[1] = c.wire[1]
      <3>1. c.wire # <<>> => Len(c.wire) > 0
        BY <1>1
      <3>2. e.wire # <<>>
        BY <1>1
      <3> QED BY <1>2, <3>1, <3>2
    <2> QED BY <2>1 DEF Flows, Awaits, Replays
  <1>6. Goes(e, w, d, u, kd)
    BY DEF Flows, Goes
  <1> QED BY <1>3, <1>4, <1>5, <1>6 DEF Flows

(* The next chunk of the queue follows what was sent. *)
LEMMA NextFlows ==
  ASSUME NEW c \in Connections, NEW w, NEW d \in Nat, NEW o \in Nat, NEW u, NEW kd,
         Flows(c, w, d, o, u, kd), c.server = "attached", ~c.over, c.queue # <<>>,
         NEW e \in Connections,
         e.view = c.view, e.keep = c.keep, e.at = c.at,
         e.queue = Tail(c.queue), e.wire = Append(c.wire, <<Head(c.queue)>>)
  PROVE  Flows(e, w, d, o, u, kd) /\ Head(c.queue) # Close
PROOF
  <1> DEFINE n == Len(c.wire)
             m == Len(c.queue)
             h == Head(c.queue)
  <1>1. c.wire \in Seq(Messages) /\ c.queue \in Seq(0..MaxOutput)
    BY DEF Connections
  <1>2. /\ Len(e.queue) = m - 1 /\ m \in Nat \ {0} /\ h = c.queue[1] /\ h \in 0..MaxOutput
        /\ \A t \in 1..(m - 1) : e.queue[t] = c.queue[t + 1]
    BY <1>1, TakeOne, ZenonT(30)
  <1>3. n \in Nat /\ 1 \in 1..m
    BY <1>1, <1>2
  <1>4. d + n + m = o /\ \A k \in 1..m : c.queue[k] = d + n + k
    BY DEF Flows, InQueue
  <1>5. Len(e.wire) = n + 1 /\ \A t \in 1..(n + 1) : e.wire[t] = IF t <= n THEN c.wire[t] ELSE <<h>>
    <2>1. /\ c.wire \in Seq(Nat \cup Messages \cup {<<h>>})
          /\ <<h>> \in Nat \cup Messages \cup {<<h>>}
      BY <1>1
    <2> QED BY <2>1, AddOne
  <1> HIDE DEF n, m, h
  <1>6. h = d + (n + 1) /\ h <= o /\ h # Close
    BY <1>2, <1>3, <1>4 DEF Close
  <1>7. OnWire(e, w, d, o)
    <2> SUFFICES ASSUME NEW k \in 1..Len(e.wire)
                 PROVE  \/ w.awaiting /\ k = 1
                        \/ e.wire[k] = <<d + k>> /\ d + k <= o
                        \/ e.wire[k] = <<Close>> /\ e.server = "ended" /\ k = Len(e.wire)
      BY DEF OnWire
    <2>1. CASE k <= n
      <3>1. k \in 1..n /\ e.wire[k] = c.wire[k]
        BY <1>3, <1>5, <2>1
      <3> QED BY <3>1 DEF Flows, OnWire, n
    <2>2. CASE ~(k <= n)
      <3>1. k = n + 1 /\ e.wire[k] = <<h>>
        BY <1>3, <1>5, <2>2
      <3> QED BY <1>6, <3>1
    <2> QED BY <2>1, <2>2
  <1>8. InQueue(e, d, o)
    <2>1. d + (n + 1) + (m - 1) = o
      BY <1>2, <1>3, <1>4
    <2>2. ASSUME NEW k \in 1..Len(e.queue) PROVE e.queue[k] = d + Len(e.wire) + k
      <3>1. k \in 1..(m - 1) /\ k + 1 \in 1..m
        BY <1>2, <2>2
      <3>2. e.queue[k] = d + n + (k + 1)
        BY <1>2, <1>4, <3>1
      <3>3. d + n + (k + 1) = d + (n + 1) + k
        BY <1>2, <1>3, <3>1
      <3> QED BY <1>5, <3>2, <3>3
    <2> QED BY <1>2, <1>5, <2>1, <2>2 DEF InQueue
  <1>9. Awaits(e, w, d, u, kd)
    <2>1. c.wire # <<>> => e.wire # <<>> /\ e.wire[1] = c.wire[1]
      <3>1. c.wire # <<>> => n > 0
        BY <1>1 DEF n
      <3>2. e.wire = <<>> => Len(e.wire) = 0
        OBVIOUS
      <3>3. n + 1 # 0 /\ (n > 0 => 1 \in 1..(n + 1) /\ 1 <= n)
        BY <1>3
      <3> QED BY <1>5, <3>1, <3>2, <3>3
    <2> QED BY <2>1 DEF Flows, Awaits, Replays
  <1>10. Goes(e, w, d, u, kd)
    BY DEF Flows, Goes
  <1> QED BY <1>6, <1>7, <1>8, <1>9, <1>10 DEF Flows, h

(* A connection of which the next item has gone out. *)
Pumped(c) ==
  IF Head(c.queue) = Close
    THEN [c EXCEPT !.queue = <<>>, !.wire = Append(@, <<Close>>), !.server = "ended"]
    ELSE [c EXCEPT !.queue = Tail(@), !.wire = Append(@, <<Head(c.queue)>>)]

LEMMA PumpGood ==
  ASSUME NEW S, NEW V, NEW o, NEW u, NEW kd, Good(S, V, o, u, kd),
         NEW s \in 1..Len(S), NEW c \in Connections, S[s] = c,
         c.server = "attached", c.link, c.queue # <<>>,
         NEW e \in Connections, e = Pumped(c)
  PROVE  Good([S EXCEPT ![s] = e], V, o, u, kd)
PROOF
  <1>1. Tidy(c, o, kd) /\ Carried(c, V[c.view], o, u, kd) /\ o \in Nat
    BY WindowConstants DEF Good, Typed
  <1>2. e.view = c.view /\ e.client = c.client /\ e.keep = c.keep /\ e.at = c.at /\ e.link
        /\ e.over = c.over /\ e.server # "none"
    BY DEF Connections, Pumped
  <1>3. CASE Head(c.queue) = Close
    <2>1. e.server = "ended" /\ e.queue = <<>> /\ e.wire = Append(c.wire, <<Close>>)
      BY <1>3 DEF Connections, Pumped
    <2>2. Tidy(e, o, kd)
      BY <1>1, <1>2, <2>1, WindowConstants DEF Tidy
    <2>3. Carried(e, V[e.view], o, u, kd)
      <3> SUFFICES ASSUME c.client = "open"
                   PROVE  /\ V[c.view].preserve = c.keep
                          /\ \E d \in Nat : Flows(e, V[c.view], d, o, u, kd)
        BY <1>2 DEF Carried
      <3>1. PICK d \in Nat : Flows(c, V[c.view], d, o, u, kd)
        BY <1>1 DEF Carried
      <3>2. Flows(e, V[c.view], d, o, u, kd)
        BY <1>1, <1>2, <2>1, <3>1, CloseFlows
      <3> QED BY <1>1, <3>2 DEF Carried
    <2> QED BY <1>2, <2>2, <2>3, ConnectionGood
  <1>4. CASE Head(c.queue) # Close
    <2>1. e.server = "attached" /\ e.queue = Tail(c.queue) /\ e.wire = Append(c.wire, <<Head(c.queue)>>)
      BY <1>4 DEF Connections, Pumped
    <2>2. ~c.over
      BY <1>1, <1>4 DEF Tidy
    <2>3. Len(e.queue) <= MaxItems
      <3>1. c.queue \in Seq(0..MaxOutput)
        BY DEF Connections
      <3>2. Len(e.queue) = Len(c.queue) - 1 /\ Len(c.queue) \in Nat
        BY <2>1, <3>1, TakeOne
      <3> QED BY <1>1, <3>2, WindowConstants DEF Tidy
    <2>4. Tidy(e, o, kd)
      BY <1>1, <1>2, <2>1, <2>2, <2>3 DEF Tidy
    <2>5. Carried(e, V[e.view], o, u, kd)
      <3> SUFFICES ASSUME c.client = "open"
                   PROVE  /\ V[c.view].preserve = c.keep
                          /\ \E d \in Nat : Flows(e, V[c.view], d, o, u, kd)
        BY <1>2 DEF Carried
      <3>1. PICK d \in Nat : Flows(c, V[c.view], d, o, u, kd)
        BY <1>1 DEF Carried
      <3>2. Flows(e, V[c.view], d, o, u, kd)
        BY <1>1, <1>2, <2>1, <2>2, <3>1, NextFlows
      <3> QED BY <1>1, <3>2 DEF Carried
    <2> QED BY <1>2, <2>4, <2>5, ConnectionGood
  <1> QED BY <1>3, <1>4

(* A send takes too long, or the handler sees that the connection is gone. *)
LEMMA EndedGood ==
  ASSUME NEW S, NEW V, NEW o, NEW u, NEW kd, Good(S, V, o, u, kd),
         NEW s \in 1..Len(S), NEW c \in Connections, S[s] = c,
         c.server = "attached", NEW e \in Connections,
         \/ c.link /\ e = [c EXCEPT !.queue = <<>>, !.server = "ended", !.wire = Append(@, <<Close>>)]
         \/ (~c.link \/ c.client # "open") /\ e = [c EXCEPT !.server = "ended", !.queue = <<>>]
  PROVE  Good([S EXCEPT ![s] = e], V, o, u, kd)
PROOF
  <1>1. Tidy(c, o, kd) /\ Carried(c, V[c.view], o, u, kd) /\ o \in Nat
    BY WindowConstants DEF Good, Typed
  <1>2. e.view = c.view /\ e.client = c.client /\ e.keep = c.keep /\ e.at = c.at /\ e.link = c.link
        /\ e.over = c.over /\ e.server = "ended" /\ e.queue = <<>>
        /\ (c.link /\ c.client = "open" => e.wire = Append(c.wire, <<Close>>))
        /\ (~c.link => e.wire = c.wire)
    BY DEF Connections
  <1>3. Tidy(e, o, kd)
    BY <1>1, <1>2, WindowConstants DEF Tidy
  <1>4. Carried(e, V[e.view], o, u, kd)
    <2> SUFFICES ASSUME c.client = "open"
                 PROVE  /\ V[c.view].preserve = c.keep
                        /\ c.link => \E d \in Nat : Flows(e, V[c.view], d, o, u, kd)
      BY <1>2 DEF Carried
    <2>1. ASSUME c.link PROVE \E d \in Nat : Flows(e, V[c.view], d, o, u, kd)
      <3>1. PICK d \in Nat : Flows(c, V[c.view], d, o, u, kd)
        BY <1>1, <2>1 DEF Carried
      <3>2. Flows(e, V[c.view], d, o, u, kd)
        BY <1>1, <1>2, <2>1, <3>1, CloseFlows
      <3> QED BY <3>2
    <2> QED BY <1>1, <2>1 DEF Carried
  <1> QED BY <1>2, <1>3, <1>4, ConnectionGood

(* The network drops a connection and what it carries. *)
LEMMA DropGood ==
  ASSUME NEW S, NEW V, NEW o, NEW u, NEW kd, Good(S, V, o, u, kd),
         NEW s \in 1..Len(S), NEW c \in Connections, S[s] = c,
         NEW e \in Connections, e = [c EXCEPT !.link = FALSE, !.wire = <<>>]
  PROVE  Good([S EXCEPT ![s] = e], V, o, u, kd)
PROOF
  <1>1. Tidy(c, o, kd) /\ Carried(c, V[c.view], o, u, kd)
    BY DEF Good
  <1>2. e.view = c.view /\ e.client = c.client /\ e.keep = c.keep /\ e.at = c.at /\ ~e.link
        /\ e.over = c.over /\ e.server = c.server /\ e.queue = c.queue /\ e.wire = <<>>
    BY DEF Connections
  <1>3. Tidy(e, o, kd)
    BY <1>1, <1>2 DEF Tidy
  <1>4. Carried(e, V[e.view], o, u, kd)
    BY <1>1, <1>2 DEF Carried
  <1> QED BY <1>2, <1>3, <1>4, ConnectionGood

-----------------------------------------------------------------------------
(* Output *)

(* More chunks, and more of them unseen, leave what was true of a screen. *)
LEMMA SoundGrows ==
  ASSUME NEW screen \in Seq(Nat), NEW o \in Nat, NEW p \in Nat, o <= p, NEW u, NEW x, u \subseteq x, NEW kd
  PROVE  /\ Sound(screen, o, u, kd) => Sound(screen, p, x, kd)
         /\ \A n : Covers(screen, u, n) => Covers(screen, x, n)
PROOF
  <1>1. ASSUME NEW n, Covers(screen, u, n) PROVE Covers(screen, x, n)
    BY <1>1 DEF Covers
  <1>2. ASSUME Sound(screen, o, u, kd) PROVE Sound(screen, p, x, kd)
    <2>1. ASSUME NEW j \in 1..Len(screen) PROVE screen[j] <= p
      <3>1. screen[j] <= o /\ screen[j] \in Nat
        BY <1>2 DEF Sound
      <3> QED BY <3>1
    <2>2. \A j \in 1..Len(screen), k \in 1..Len(screen) : j < k => screen[j] < screen[k]
      BY <1>2 DEF Sound
    <2>3. kd = "agent" => \A j \in 1..Len(screen) : Covers(screen, x, screen[j])
      BY <1>1, <1>2 DEF Sound
    <2> QED BY <2>1, <2>2, <2>3 DEF Sound
  <1> QED BY <1>1, <1>2

LEMMA CarriedGrows ==
  ASSUME NEW c \in Connections, NEW w \in ViewStates, NEW o \in Nat, NEW p \in Nat, o <= p,
         NEW u, NEW x, u \subseteq x, NEW kd,
         c.server # "attached" \/ c.over, Carried(c, w, o, u, kd)
  PROVE  Carried(c, w, p, x, kd)
PROOF
  <1> SUFFICES ASSUME c.client = "open", c.server # "none", c.link
               PROVE  \E d \in Nat : Flows(c, w, d, p, x, kd)
    BY DEF Carried
  <1>1. PICK d \in Nat : Flows(c, w, d, o, u, kd)
    BY DEF Carried
  <1>2. OnWire(c, w, d, p)
    <2>1. \A k \in 1..Len(c.wire) : d + k <= o => d + k <= p
      OBVIOUS
    <2> QED BY <1>1, <2>1 DEF Flows, OnWire
  <1>3. InQueue(c, d, p)
    BY DEF InQueue
  <1>4. Awaits(c, w, d, x, kd)
    <2>1. \A m : Replays(c, m, u, kd) => Replays(c, m, x, kd)
      BY DEF Replays
    <2> QED BY <1>1, <2>1 DEF Flows, Awaits
  <1>5. Goes(c, w, d, x, kd)
    <2>1. w.screen \in Seq(Nat)
      BY WindowConstants DEF ViewStates
    <2>2. Covers(w.screen, u, d) => Covers(w.screen, x, d)
      BY <2>1, SoundGrows
    <2> QED BY <1>1, <2>2 DEF Flows, Goes
  <1> QED BY <1>2, <1>3, <1>4, <1>5 DEF Flows

(* Of one connection, what _handle_output leaves. *)
LEMMA PutGood ==
  ASSUME NEW c \in Connections, NEW w \in ViewStates, NEW o \in Nat, o + 1 <= MaxOutput, NEW u, NEW kd,
         Tidy(c, o, kd), Carried(c, w, o, u, kd), c.server = "attached",
         NEW e, e = Put(c, o + 1)
  PROVE  /\ e \in Connections /\ e.view = c.view /\ e.client = c.client
         /\ Tidy(e, o + 1, kd) /\ Carried(e, w, o + 1, u, kd) /\ e.server = c.server
PROOF
  <1>1. /\ c.queue \in Seq(0..MaxOutput) /\ c.at \in Nat /\ o + 1 \in 0..MaxOutput
        /\ o + 1 \in Nat /\ o <= o + 1 /\ u \subseteq u
    BY WindowConstants DEF Connections
  <1>2. CASE c.over
    <2>1. e = c
      BY <1>2 DEF Put
    <2>2. Tidy(c, o + 1, kd)
      BY <1>1 DEF Tidy
    <2> QED BY <1>1, <1>2, <2>1, <2>2, CarriedGrows
  <1>3. CASE ~c.over /\ Full(c)
    <2>1. e = [c EXCEPT !.over = TRUE, !.queue = <<Close>>]
      BY <1>3 DEF Put
    <2> DEFINE q == <<Close>>
    <2>2. q \in Seq(0..MaxOutput) /\ Len(q) <= MaxItems
      BY WindowConstants DEF Close
    <2>3. e = [c EXCEPT !.over = TRUE, !.queue = q]
      BY <2>1
    <2>4. q = <<Close>>
      OBVIOUS
    <2> HIDE DEF q
    <2>5. /\ e \in Connections /\ e.view = c.view /\ e.client = c.client /\ e.server = c.server
          /\ e.keep = c.keep /\ e.at = c.at /\ e.link = c.link /\ e.wire = c.wire
          /\ e.over /\ e.queue = q
      BY <1>1, <2>2, <2>3 DEF Connections
    <2>6. Tidy(e, o + 1, kd)
      <3>1. c.at <= o + 1
        BY <1>1 DEF Tidy
      <3>2. e.queue \in {<<>>, <<Close>>} /\ e.server = "attached"
        BY <2>5, <2>4
      <3>3. (~e.link => e.wire = <<>>) /\ (kd = "agent" => ~e.keep)
        BY <2>5 DEF Tidy
      <3> QED BY <2>5, <2>2, <3>1, <3>2, <3>3 DEF Tidy
    <2>7. Carried(e, w, o, u, kd)
      <3>1. ASSUME NEW d \in Nat, Flows(c, w, d, o, u, kd) PROVE Flows(e, w, d, o, u, kd)
        BY <2>5, <3>1, ZenonT(30) DEF Flows, OnWire, InQueue, Awaits, Goes, Replays
      <3> QED BY <2>5, <3>1 DEF Carried
    <2>8. Carried(e, w, o + 1, u, kd)
      BY <1>1, <2>5, <2>7, CarriedGrows
    <2> QED BY <2>5, <2>6, <2>8
  <1>4. CASE ~c.over /\ ~Full(c)
    <2> DEFINE q == Append(c.queue, o + 1)
    <2>1. e = [c EXCEPT !.queue = q]
      BY <1>4 DEF Put
    <2>2. /\ q \in Seq(0..MaxOutput) /\ Len(q) = Len(c.queue) + 1 /\ Len(c.queue) \in Nat
          /\ \A t \in 1..(Len(c.queue) + 1) : q[t] = IF t <= Len(c.queue) THEN c.queue[t] ELSE o + 1
      BY <1>1, AddOne
    <2>3. Len(q) <= MaxItems
      BY <1>4, <2>2, WindowConstants DEF Full
    <2> HIDE DEF q
    <2>4. /\ e \in Connections /\ e.view = c.view /\ e.client = c.client /\ e.server = c.server
          /\ e.keep = c.keep /\ e.at = c.at /\ e.link = c.link /\ e.wire = c.wire
          /\ e.over = c.over /\ e.queue = q
      BY <2>1, <2>2 DEF Connections
    <2>5. Tidy(e, o + 1, kd)
      BY <1>1, <1>4, <2>3, <2>4 DEF Tidy
    <2>6. ASSUME NEW d \in Nat, Flows(c, w, d, o, u, kd) PROVE Flows(e, w, d, o + 1, u, kd)
      <3>1. OnWire(e, w, d, o + 1)
        <4>1. \A k \in 1..Len(c.wire) : d + k <= o => d + k <= o + 1
          OBVIOUS
        <4> QED BY <2>4, <2>6, <4>1 DEF Flows, OnWire
      <3>2. InQueue(e, d, o + 1)
        <4> DEFINE n == Len(c.wire)
                   m == Len(c.queue)
        <4>1. n \in Nat /\ m \in Nat
          BY DEF Connections
        <4>2. d + n + m = o /\ \A k \in 1..m : c.queue[k] = d + n + k
          BY <1>4, <2>6 DEF Flows, InQueue
        <4>3. Len(q) = m + 1 /\ \A t \in 1..(m + 1) : q[t] = IF t <= m THEN c.queue[t] ELSE o + 1
          BY <2>2
        <4> HIDE DEF n, m
        <4>4. ASSUME NEW k \in 1..Len(q) PROVE q[k] = d + n + k
          <5>1. CASE k <= m
            <6>1. k \in 1..m
              BY <4>1, <4>3, <5>1
            <6> QED BY <4>2, <4>3, <5>1, <6>1
          <5>2. CASE ~(k <= m)
            BY <4>1, <4>2, <4>3, <5>2
          <5> QED BY <5>1, <5>2
        <4>5. d + n + Len(q) = o + 1
          BY <4>1, <4>2, <4>3
        <4> QED BY <2>4, <4>4, <4>5 DEF InQueue, n
      <3>3. Awaits(e, w, d, u, kd)
        BY <2>4, <2>6 DEF Flows, Awaits, Replays
      <3>4. Goes(e, w, d, u, kd)
        BY <2>4, <2>6 DEF Flows, Goes
      <3> QED BY <3>1, <3>2, <3>3, <3>4 DEF Flows
    <2>7. Carried(e, w, o + 1, u, kd)
      BY <2>4, <2>6 DEF Carried
    <2> QED BY <2>4, <2>5, <2>7
  <1> QED BY <1>2, <1>3, <1>4

(* _handle_output of one more chunk. *)
LEMMA PrintsGood ==
  ASSUME NEW S, NEW V, NEW o, NEW u, NEW kd, Good(S, V, o, u, kd), o + 1 <= MaxOutput,
         NEW T, T = [s \in DOMAIN S |-> IF S[s].server = "attached" THEN Put(S[s], o + 1) ELSE S[s]]
  PROVE  /\ Good(T, V, o + 1, u, kd) /\ Len(T) = Len(S)
         /\ \A s \in 1..Len(S) : T[s].server = S[s].server
PROOF
  <1>1. /\ S \in Seq(Connections) /\ V \in [Views -> ViewStates] /\ o \in 1..MaxOutput /\ u \subseteq 1..o
        /\ DOMAIN S = 1..Len(S) /\ Len(S) \in Nat
    BY DEF Good, Typed
  <1>2. o \in Nat /\ o + 1 \in 1..MaxOutput /\ o <= o + 1 /\ u \subseteq u /\ o + 1 \in Nat /\ u \subseteq 1..(o + 1)
    BY <1>1, WindowConstants
  <1>3. \A s \in 1..Len(S) : T[s] = IF S[s].server = "attached" THEN Put(S[s], o + 1) ELSE S[s]
    BY <1>1
  <1>4. ASSUME NEW s \in 1..Len(S)
        PROVE  /\ T[s] \in Connections /\ T[s].view = S[s].view /\ T[s].client = S[s].client
               /\ Tidy(T[s], o + 1, kd) /\ Carried(T[s], V[T[s].view], o + 1, u, kd)
               /\ T[s].server = S[s].server
    <2> DEFINE c == S[s]
               w == V[S[s].view]
    <2>1. c \in Connections /\ S[s].view \in Views
      BY <1>1, ViewOf
    <2>2. w \in ViewStates /\ Tidy(c, o, kd) /\ Carried(c, w, o, u, kd)
      BY <1>1, <2>1 DEF Good
    <2>3. T[s] = IF c.server = "attached" THEN Put(c, o + 1) ELSE c
      BY <1>3
    <2>4. c.view = S[s].view /\ w = V[c.view] /\ c = S[s]
      OBVIOUS
    <2> HIDE DEF c, w
    <2>5. CASE c.server = "attached"
      <3>1. T[s] = Put(c, o + 1)
        BY <2>3, <2>5
      <3> QED BY <1>2, <2>1, <2>2, <2>4, <2>5, <3>1, PutGood
    <2>6. CASE c.server # "attached"
      <3>1. T[s] = c
        BY <2>3, <2>6
      <3>2. Carried(c, w, o + 1, u, kd)
        BY <1>2, <2>1, <2>2, <2>6, CarriedGrows
      <3>3. Tidy(c, o + 1, kd)
        <4>1. c.at \in Nat
          BY <2>1, WindowConstants DEF Connections
        <4> QED BY <1>2, <2>2, <4>1 DEF Tidy
      <3> QED BY <2>1, <2>4, <3>1, <3>2, <3>3
    <2> QED BY <2>5, <2>6
  <1>5. T \in Seq(Connections) /\ Len(T) = Len(S)
    <2>1. T \in [1..Len(S) -> Connections]
      BY <1>1, <1>4
    <2> QED BY <1>1, <2>1, IsSequence
  <1>6. Linked(T, V, kd)
    <2>1. \A t \in 1..Len(S) : T[t].view = S[t].view /\ T[t].client = S[t].client
      BY <1>4
    <2>2. Linked(S, V, kd)
      BY DEF Good
    <2> QED BY ONLY <1>5, <2>1, <2>2, LinkedSame
  <1>7. ASSUME NEW v \in Views PROVE Sound(V[v].screen, o + 1, u, kd)
    <2>1. V[v].screen \in Seq(Nat)
      BY <1>1, WindowConstants DEF ViewStates
    <2>2. Sound(V[v].screen, o, u, kd)
      BY DEF Good
    <2> QED BY <1>2, <2>1, <2>2, SoundGrows
  <1> QED BY <1>1, <1>2, <1>4, <1>5, <1>6, <1>7 DEF Good, Typed

(* A terminal that starts prints before anything is attached to it. *)
LEMMA StartGood ==
  ASSUME NEW S, NEW V, NEW o, NEW u, NEW kd, Good(S, V, o, u, kd),
         NEW p \in 1..MaxOutput, NEW x, o <= p, u \subseteq x, x \subseteq 1..p,
         \A s \in 1..Len(S) : S[s].server = "none"
  PROVE  Good(S, V, p, x, kd)
PROOF
  <1>1. S \in Seq(Connections) /\ V \in [Views -> ViewStates] /\ o \in Nat /\ p \in Nat
    BY WindowConstants DEF Good, Typed
  <1>2. ASSUME NEW s \in 1..Len(S) PROVE Tidy(S[s], p, kd) /\ Carried(S[s], V[S[s].view], p, x, kd)
    <2>1. S[s] \in Connections /\ S[s].view \in Views
      BY <1>1, ViewOf
    <2>2. V[S[s].view] \in ViewStates /\ Tidy(S[s], o, kd) /\ Carried(S[s], V[S[s].view], o, u, kd)
      BY <1>1, <2>1 DEF Good
    <2>3. S[s].at \in Nat /\ S[s].server # "attached"
      BY <2>1, WindowConstants DEF Connections
    <2>4. Carried(S[s], V[S[s].view], p, x, kd)
      BY <1>1, <2>1, <2>2, <2>3, CarriedGrows
    <2>5. S[s].at <= p
      BY <1>1, <2>2, <2>3 DEF Tidy
    <2> QED BY <2>2, <2>4, <2>5 DEF Tidy
  <1>3. ASSUME NEW v \in Views PROVE Sound(V[v].screen, p, x, kd)
    <2>1. V[v].screen \in Seq(Nat)
      BY <1>1, WindowConstants DEF ViewStates
    <2>2. Sound(V[v].screen, o, u, kd)
      BY DEF Good
    <2> QED BY <1>1, <2>1, <2>2, SoundGrows
  <1> QED BY <1>1, <1>2, <1>3 DEF Good, Typed

(* A connection whose queue is registered, with the replay r sent. *)
Registers(c, o, r) == [c EXCEPT !.server = "attached", !.at = o, !.wire = <<r>>]

(* attach_client: the replay is read and the queue registered. *)
LEMMA AttachGood ==
  ASSUME NEW S, NEW V, NEW o, NEW u, NEW kd, Good(S, V, o, u, kd),
         NEW s \in 1..Len(S), NEW c \in Connections, S[s] = c,
         c.server = "none", c.client = "open", c.link,
         NEW n \in 1..o, kd = "agent" => (n + 1)..o \subseteq u,
         NEW e, e = Registers(c, o, IF c.keep THEN <<>> ELSE Upto(n))
  PROVE  e \in Connections /\ Good([S EXCEPT ![s] = e], V, o, u, kd)
PROOF
  <1> DEFINE r == IF c.keep THEN <<>> ELSE Upto(n)
             w == V[c.view]
  <1>1. /\ Tidy(c, o, kd) /\ Carried(c, w, o, u, kd) /\ o \in 1..MaxOutput /\ o \in Nat
        /\ V \in [Views -> ViewStates] /\ c.view \in Views
    <2>1. Tidy(c, o, kd) /\ Carried(c, V[c.view], o, u, kd)
      BY DEF Good
    <2>2. o \in 1..MaxOutput /\ o \in Nat /\ V \in [Views -> ViewStates]
      BY WindowConstants DEF Good, Typed
    <2>3. c.view \in Views
      BY DEF Connections
    <2> QED BY <2>1, <2>2, <2>3
  <1>2. r \in Messages /\ n \in 1..MaxOutput /\ n \in Nat
    <2>1. n \in 1..MaxOutput /\ n \in Nat
      BY <1>1, WindowConstants
    <2> QED BY <2>1, MessageTypes
  <1>3. Replays([c EXCEPT !.at = o], r, u, kd)
    BY <1>1, <1>2 DEF Replays, Connections
  <1>4. w.awaiting /\ w.preserve = c.keep /\ c.queue = <<>> /\ ~c.over /\ \A j \in 1..Len(w.screen) : w.screen[j] <= o
    BY <1>1 DEF Carried, Tidy, Good, Sound
  <1>5. e = Registers(c, o, r)
    OBVIOUS
  <1> HIDE DEF r, w
  <1>6. <<r>> \in Seq(Messages) /\ Len(<<r>>) = 1 /\ <<r>>[1] = r /\ <<r>> # <<>> /\ o \in 0..MaxOutput
    BY <1>1, <1>2
  <1>7. /\ e \in Connections /\ e.view = c.view /\ e.client = c.client /\ e.keep = c.keep /\ e.link = c.link
        /\ e.at = o /\ e.server = "attached" /\ e.queue = <<>> /\ e.over = c.over /\ e.wire = <<r>>
    BY <1>1, <1>4, <1>5, <1>6 DEF Connections, Registers
  <1>8. Tidy(e, o, kd) /\ Len(e.queue) = 0
    <2>1. Len(<<>>) = 0 /\ 0 <= MaxItems
      BY WindowConstants
    <2>2. kd = "agent" => ~e.keep
      BY <1>1, <1>7 DEF Tidy
    <2>3. Len(e.queue) = 0
      BY <1>7, <2>1
    <2>4. ~e.over /\ e.link
      BY <1>4, <1>7, Zenon
    <2>5. e.at <= o
      BY <1>1, <1>7
    <2> QED BY <1>7, <2>1, <2>2, <2>3, <2>4, <2>5 DEF Tidy
  <1>9. Flows(e, w, o - 1, o, u, kd) /\ o - 1 \in Nat
    <2>1. o - 1 \in Nat /\ (o - 1) + 1 = o /\ (o - 1) + 1 + 0 = o
      BY <1>1
    <2>2. OnWire(e, w, o - 1, o)
      BY <1>4, <1>6, <1>7 DEF OnWire
    <2>3. InQueue(e, o - 1, o)
      BY ONLY <1>6, <1>7, <1>8, <2>1 DEF InQueue
    <2>4. Replays(e, r, u, kd)
      BY <1>3, <1>7 DEF Replays, Connections
    <2>5. Awaits(e, w, o - 1, u, kd)
      BY <1>4, <1>6, <1>7, <2>1, <2>4 DEF Awaits
    <2>6. Goes(e, w, o - 1, u, kd)
      BY <1>4 DEF Goes
    <2> QED BY <2>1, <2>2, <2>3, <2>5, <2>6 DEF Flows
  <1>10. Carried(e, V[e.view], o, u, kd)
    BY <1>4, <1>7, <1>9 DEF Carried, w
  <1> QED BY <1>7, <1>8, <1>10, ConnectionGood

-----------------------------------------------------------------------------
(* The view's end *)

(* A view changes with its connection s. *)
LEMMA BothGood ==
  ASSUME NEW S, NEW V, NEW o, NEW u, NEW kd, Good(S, V, o, u, kd),
         NEW s \in 1..Len(S), S[s].client # "closed",
         NEW e \in Connections, NEW v \in Views, e.view = v, S[s].view = v, NEW w \in ViewStates,
         e.client # "closed" => w.ws = s,
         LinkedView([S EXCEPT ![s] = e], v, w, kd),
         Tidy(e, o, kd), Carried(e, w, o, u, kd), Sound(w.screen, o, u, kd)
  PROVE  Good([S EXCEPT ![s] = e], [V EXCEPT ![v] = w], o, u, kd)
PROOF
  <1> DEFINE T == [S EXCEPT ![s] = e]
             X == [V EXCEPT ![v] = w]
  <1>1. S \in Seq(Connections) /\ V \in [Views -> ViewStates]
    BY DEF Good, Typed
  <1>2. /\ T \in Seq(Connections) /\ Len(T) = Len(S)
        /\ \A t \in 1..Len(S) : T[t] = IF t = s THEN e ELSE S[t]
    BY <1>1, ChangeOne
  <1>3. X \in [Views -> ViewStates] /\ \A x \in Views : X[x] = IF x = v THEN w ELSE V[x]
    BY <1>1
  <1>4. LinkedView(T, v, w, kd)
    OBVIOUS
  <1> HIDE DEF T, X
  <1>5. Linked(S, V, kd) /\ V[v].ws = s
    BY DEF Good, Linked
  <1>6. \A t \in 1..Len(S) : S[t].view \in Views
    BY <1>1, ViewOf
  <1>7. ASSUME NEW t \in 1..Len(S), t # s PROVE S[t].client = "closed" \/ S[t].view # v
    BY <1>5, <1>7 DEF Linked
  <1>8. ASSUME NEW x \in Views, x # v PROVE V[x].ws # s
    <2>1. s # None
      BY DEF None
    <2> QED BY <1>5, <1>8, <2>1 DEF Linked, LinkedView
  <1>9. Linked(T, X, kd)
    <2>1. ASSUME NEW x \in Views PROVE LinkedView(T, x, X[x], kd)
      <3>1. CASE x = v
        BY <1>3, <1>4, <3>1
      <3>2. CASE x # v
        <4>1. X[x] = V[x] /\ LinkedView(S, x, V[x], kd) /\ V[x].ws # s
          BY <1>3, <1>5, <1>8, <3>2 DEF Linked
        <4>2. V[x].ws # None => T[V[x].ws] = S[V[x].ws]
          BY <1>2, <4>1 DEF LinkedView
        <4> QED BY <1>2, <4>1, <4>2 DEF LinkedView, Away
      <3> QED BY <3>1, <3>2
    <2>2. ASSUME NEW t \in 1..Len(T), T[t].client # "closed" PROVE X[T[t].view].ws = t
      <3>1. CASE t = s
        BY <1>2, <1>3, <2>2, <3>1
      <3>2. CASE t # s
        <4>1. T[t] = S[t] /\ S[t].view # v /\ S[t].view \in Views
          BY <1>2, <1>6, <1>7, <2>2, <3>2
        <4>2. X[S[t].view] = V[S[t].view]
          BY <1>3, <4>1
        <4> QED BY <1>2, <1>5, <2>2, <4>1, <4>2 DEF Linked
      <3> QED BY <3>1, <3>2
    <2> QED BY <2>1, <2>2 DEF Linked
  <1>10. ASSUME NEW t \in 1..Len(T) PROVE Tidy(T[t], o, kd) /\ Carried(T[t], X[T[t].view], o, u, kd)
    <2>1. CASE t = s
      BY <1>2, <1>3, <2>1
    <2>2. CASE t # s
      <3>1. T[t] = S[t] /\ Tidy(S[t], o, kd) /\ Carried(S[t], V[S[t].view], o, u, kd)
        BY <1>2, <2>2 DEF Good
      <3>2. CASE S[t].view # v
        BY <1>2, <1>3, <1>6, <3>1, <3>2
      <3>3. CASE S[t].view = v
        <4>1. S[t].client = "closed"
          BY <1>2, <1>7, <2>2, <3>3
        <4> QED BY <3>1, <4>1, CarriedNotOpen
      <3> QED BY <3>2, <3>3
    <2> QED BY <2>1, <2>2
  <1>11. \A x \in Views : Sound(X[x].screen, o, u, kd)
    BY <1>3 DEF Good
  <1>12. Good(T, X, o, u, kd)
    BY <1>1, <1>2, <1>3, <1>9, <1>10, <1>11 DEF Good, Typed
  <1> QED BY <1>12 DEF T, X

(* An emptied screen is in order. *)
LEMMA EmptySound ==
  ASSUME NEW o, NEW u, NEW kd
  PROVE  Sound(<<>>, o, u, kd)
BY DEF Sound

(* A view closes its connection. *)
LEMMA ClosingGood ==
  ASSUME NEW S, NEW V, NEW o, NEW u, NEW kd, Good(S, V, o, u, kd),
         NEW v \in Views, V[v].ws # None, S[V[v].ws].client = "open",
         NEW e, e = [S[V[v].ws] EXCEPT !.client = "closing"],
         NEW w \in ViewStates, w.ws = V[v].ws, w.timer = V[v].timer,
         w.screen = V[v].screen \/ w.screen = <<>>, w.screen = <<>> \/ w.scratch
  PROVE  Good([S EXCEPT ![V[v].ws] = e], [V EXCEPT ![v] = w], o, u, kd)
PROOF
  <1> DEFINE s == V[v].ws
             c == S[s]
             T == [S EXCEPT ![s] = e]
  <1>1. S \in Seq(Connections) /\ Linked(S, V, kd) /\ LinkedView(S, v, V[v], kd)
    BY DEF Good, Typed, Linked
  <1>2. s \in 1..Len(S) /\ c.view = v /\ ~w.timer /\ s # None
    BY <1>1 DEF LinkedView
  <1>3. c \in Connections /\ Tidy(c, o, kd)
    BY <1>1, <1>2 DEF Good
  <1>4. w.ws = s /\ S[s] = c /\ c.client = "open" /\ e = [c EXCEPT !.client = "closing"]
    OBVIOUS
  <1>5. Sound(w.screen, o, u, kd)
    BY EmptySound DEF Good
  <1> HIDE DEF s, c
  <1>6. /\ e \in Connections /\ e.view = v /\ e.client = "closing"
        /\ e.queue = c.queue /\ e.at = c.at /\ e.over = c.over /\ e.server = c.server
        /\ e.wire = c.wire /\ e.link = c.link /\ e.keep = c.keep
    BY <1>2, <1>3, <1>4 DEF Connections
  <1>7. Tidy(e, o, kd)
    BY <1>3, <1>6 DEF Tidy
  <1>8. Carried(e, w, o, u, kd)
    BY <1>6, CarriedNotOpen
  <1>9. LinkedView(T, v, w, kd)
    <2>1. Len(T) = Len(S) /\ T[s] = e
      BY <1>1, <1>2, <1>6, ChangeOne
    <2> HIDE DEF T
    <2> QED BY <1>2, <1>4, <1>6, <2>1 DEF LinkedView
  <1>10. Good([S EXCEPT ![s] = e], [V EXCEPT ![v] = w], o, u, kd)
    BY <1>2, <1>4, <1>5, <1>6, <1>7, <1>8, <1>9, BothGood
  <1> QED BY <1>10 DEF s

(* The view learns that its connection is over. *)
LEMMA ClosedGood ==
  ASSUME NEW S, NEW V, NEW o, NEW u, NEW kd, Good(S, V, o, u, kd),
         NEW s \in 1..Len(S), NEW c \in Connections, S[s] = c, c.client # "closed",
         NEW e, e = [c EXCEPT !.client = "closed", !.wire = <<>>],
         NEW v, v = c.view,
         NEW w \in ViewStates, w.ws = None, ~w.again, w.screen = V[v].screen,
         V[v].scratch => w.scratch, ~V[v].again /\ kd = "agent" => w.scratch
  PROVE  Good([S EXCEPT ![s] = e], [V EXCEPT ![v] = w], o, u, kd) /\ ~V[v].timer
PROOF
  <1> DEFINE T == [S EXCEPT ![s] = e]
  <1>1. /\ S \in Seq(Connections) /\ Linked(S, V, kd) /\ v \in Views /\ LinkedView(S, v, V[v], kd)
        /\ Tidy(c, o, kd) /\ Sound(w.screen, o, u, kd)
    <2>1. v \in Views
      BY DEF Connections
    <2> QED BY <2>1 DEF Good, Typed, Linked
  <1>2. V[v].ws = s /\ s # None
    BY <1>1 DEF Linked, None
  <1>3. ~V[v].timer
    BY <1>1, <1>2 DEF LinkedView
  <1>4. /\ e \in Connections /\ e.view = v /\ e.client = "closed"
        /\ e.queue = c.queue /\ e.at = c.at /\ e.over = c.over /\ e.server = c.server
        /\ e.wire = <<>> /\ e.link = c.link /\ e.keep = c.keep
    <2> DEFINE r == <<>>
    <2>1. r \in Seq(Messages) /\ e = [c EXCEPT !.client = "closed", !.wire = r]
      OBVIOUS
    <2> HIDE DEF r
    <2>2. /\ e \in Connections /\ e.view = v /\ e.client = "closed"
          /\ e.queue = c.queue /\ e.at = c.at /\ e.over = c.over /\ e.server = c.server
          /\ e.wire = r /\ e.link = c.link /\ e.keep = c.keep
      BY <2>1 DEF Connections
    <2> QED BY <2>2 DEF r
  <1>5. Tidy(e, o, kd)
    BY <1>1, <1>4 DEF Tidy
  <1>6. Carried(e, w, o, u, kd)
    BY <1>4, CarriedNotOpen
  <1>7. kd = "agent" => w.screen = <<>> \/ w.scratch
    BY <1>1, <1>2 DEF LinkedView, Away
  <1>8. LinkedView(T, v, w, kd)
    BY <1>7 DEF LinkedView
  <1>9. Good(T, [V EXCEPT ![v] = w], o, u, kd)
    BY <1>1, <1>4, <1>5, <1>6, <1>8, BothGood
  <1> QED BY <1>3, <1>9

(* connect: a new connection, of a view that has none. *)
LEMMA ConnectGood ==
  ASSUME NEW S, NEW V, NEW o, NEW u, NEW kd, Good(S, V, o, u, kd),
         NEW v \in Views, V[v].ws = None, NEW keep \in BOOLEAN,
         NEW w \in ViewStates, ~w.again, ~w.timer, w.scratch = V[v].scratch,
         w.screen = V[v].screen \/ w.screen = <<>>,
         w.scratch \/ w.screen = <<>> => ~keep,
         NEW x, x = [w EXCEPT !.ws = Len(S) + 1, !.awaiting = TRUE, !.preserve = keep]
  PROVE  Good(Append(S, NewSocket(v, keep)), [V EXCEPT ![v] = x], o, u, kd)
PROOF
  <1> DEFINE c == NewSocket(v, keep)
             T == Append(S, c)
             X == [V EXCEPT ![v] = x]
             n == Len(S)
  <1>1. /\ S \in Seq(Connections) /\ V \in [Views -> ViewStates] /\ Linked(S, V, kd)
        /\ LinkedView(S, v, V[v], kd) /\ n \in Nat /\ o \in Nat
    BY WindowConstants DEF Good, Typed, Linked
  <1>2. /\ c \in Connections /\ c.view = v /\ c.keep = keep /\ c.client = "open" /\ c.server = "none"
        /\ c.queue = <<>> /\ ~c.over /\ c.wire = <<>> /\ c.at = 0
    <2>1. <<>> \in Seq(Messages) /\ <<>> \in Seq(0..MaxOutput) /\ 0 \in 0..MaxOutput
      BY WindowConstants
    <2> QED BY <2>1 DEF NewSocket, Connections
  <1>3. T \in Seq(Connections) /\ Len(T) = n + 1 /\ \A t \in 1..(n + 1) : T[t] = IF t <= n THEN S[t] ELSE c
    BY <1>1, <1>2, AddOne
  <1>4. /\ x \in ViewStates /\ x.ws = n + 1 /\ x.awaiting /\ x.preserve = keep
        /\ x.screen = w.screen /\ x.timer = w.timer /\ x.again = w.again /\ x.scratch = w.scratch
    <2>1. x = [w EXCEPT !.ws = n + 1, !.awaiting = TRUE, !.preserve = keep] /\ n + 1 \in Nat
      BY <1>1
    <2> HIDE DEF n
    <2> QED BY ONLY <2>1, w \in ViewStates, keep \in BOOLEAN DEF ViewStates
  <1>5. X \in [Views -> ViewStates] /\ \A y \in Views : X[y] = IF y = v THEN x ELSE V[y]
    BY <1>1, <1>4
  <1> HIDE DEF c, T, X, n
  <1>6. \A t \in 1..n : T[t] = S[t]
    BY <1>1, <1>3
  <1>7. T[n + 1] = c
    BY <1>1, <1>3
  <1>8. \A t \in 1..n : S[t].view \in Views /\ (S[t].client = "closed" \/ S[t].view # v)
    <2> SUFFICES ASSUME NEW t \in 1..n PROVE S[t].view \in Views /\ (S[t].client = "closed" \/ S[t].view # v)
      OBVIOUS
    <2>1. S[t].view \in Views
      BY <1>1, ViewOf DEF n
    <2>2. t # None
      BY <1>1 DEF None
    <2> QED BY <1>1, <2>1, <2>2 DEF Linked, n
  <1>9. Linked(T, X, kd)
    <2>1. ASSUME NEW y \in Views PROVE LinkedView(T, y, X[y], kd)
      <3>1. CASE y = v
        <4>1. X[y] = x /\ n + 1 \in 1..(n + 1) /\ n + 1 # None
          BY <1>1, <1>5, <3>1 DEF None
        <4> QED BY <1>2, <1>3, <1>4, <1>7, <3>1, <4>1 DEF LinkedView, Away
      <3>2. CASE y # v
        <4>1. X[y] = V[y] /\ LinkedView(S, y, V[y], kd)
          BY <1>1, <1>5, <3>2 DEF Linked
        <4>2. V[y].ws # None => V[y].ws \in 1..n /\ V[y].ws \in 1..(n + 1) /\ T[V[y].ws] = S[V[y].ws]
          BY <1>1, <1>6, <4>1 DEF LinkedView, n
        <4> QED BY <1>3, <4>1, <4>2 DEF LinkedView, Away
      <3> QED BY <3>1, <3>2
    <2>2. ASSUME NEW t \in 1..Len(T), T[t].client # "closed" PROVE X[T[t].view].ws = t
      <3>1. CASE t = n + 1
        <4>1. T[t].view = v
          BY ONLY <1>2, <1>7, <3>1
        <4>2. X[v].ws = n + 1
          BY ONLY <1>4, <1>5, v \in Views
        <4> QED BY ONLY <3>1, <4>1, <4>2
      <3>2. CASE t # n + 1
        <4>1. t \in 1..n
          BY <1>1, <1>3, <3>2
        <4>2. T[t] = S[t] /\ S[t].view # v /\ S[t].view \in Views /\ X[S[t].view] = V[S[t].view]
          BY <1>5, <1>6, <1>8, <2>2, <4>1
        <4>3. V[S[t].view].ws = t
          BY <1>1, <2>2, <4>1, <4>2 DEF Linked, n
        <4> QED BY ONLY <4>1, <4>2, <4>3
      <3> QED BY <3>1, <3>2
    <2> QED BY <2>1, <2>2 DEF Linked
  <1>10. Tidy(c, o, kd) /\ Carried(c, x, o, u, kd)
    <2>1. kd = "agent" => ~keep
      BY <1>1 DEF LinkedView, Away
    <2>2. Len(<<>>) = 0 /\ 0 <= MaxItems /\ 0 <= o
      BY <1>1, WindowConstants
    <2>3. Tidy(c, o, kd)
      BY <1>2, <2>1, <2>2 DEF Tidy
    <2>4. Carried(c, x, o, u, kd)
      BY <1>2, <1>4 DEF Carried
    <2> QED BY <2>3, <2>4
  <1>11. ASSUME NEW t \in 1..Len(T) PROVE Tidy(T[t], o, kd) /\ Carried(T[t], X[T[t].view], o, u, kd)
    <2>1. CASE t = n + 1
      BY <1>2, <1>5, <1>7, <1>10, <2>1
    <2>2. CASE t # n + 1
      <3>1. t \in 1..n
        BY <1>1, <1>3, <2>2
      <3>2. T[t] = S[t] /\ Tidy(S[t], o, kd) /\ Carried(S[t], V[S[t].view], o, u, kd)
        BY <1>6, <3>1 DEF Good, n
      <3>3. CASE S[t].view # v
        BY <1>5, <1>8, <3>1, <3>2, <3>3
      <3>4. CASE S[t].view = v
        <4>1. S[t].client = "closed"
          BY <1>8, <3>1, <3>4
        <4> QED BY <3>2, <4>1, CarriedNotOpen
      <3> QED BY <3>3, <3>4
    <2> QED BY <2>1, <2>2
  <1>12. \A y \in Views : Sound(X[y].screen, o, u, kd)
    <2>1. \A y \in Views : Sound(V[y].screen, o, u, kd)
      BY DEF Good
    <2>2. Sound(x.screen, o, u, kd)
      BY <1>4, <2>1, EmptySound
    <2> QED BY <1>5, <2>1, <2>2
  <1>13. Good(T, X, o, u, kd)
    BY <1>1, <1>3, <1>5, <1>9, <1>11, <1>12 DEF Good, Typed
  <1> QED BY <1>13 DEF T, X, c

(* What a screen shows when a replay takes its place. *)
LEMMA ReplayShown ==
  ASSUME NEW n \in 1..MaxOutput, NEW at \in Nat, n <= at, NEW o \in Nat, at <= o,
         NEW u, NEW kd, kd = "agent" => (n + 1)..at \subseteq u
  PROVE  /\ Sound(Upto(n), o, u, kd) /\ Ends(Upto(n), at, at)
         /\ kd = "agent" => Covers(Upto(n), u, at)
PROOF
  <1> DEFINE r == Upto(n)
  <1>1. n \in Nat /\ Len(r) = n /\ \A k \in 1..n : r[k] = k
    BY WindowConstants, UptoIs
  <1> HIDE DEF r
  <1>2. ASSUME NEW m \in 1..n PROVE Covers(r, u, m)
    BY <1>1 DEF Covers
  <1>3. Sound(r, o, u, kd)
    <2>1. \A j \in 1..Len(r) : r[j] <= o
      BY <1>1
    <2>2. \A j \in 1..Len(r), k \in 1..Len(r) : j < k => r[j] < r[k]
      BY <1>1
    <2>3. \A j \in 1..Len(r) : Covers(r, u, r[j])
      BY <1>1, <1>2
    <2> QED BY <2>1, <2>2, <2>3 DEF Sound
  <1>4. Ends(r, at, at)
    BY <1>1 DEF Ends
  <1>5. ASSUME kd = "agent" PROVE Covers(r, u, at)
    <2> SUFFICES ASSUME NEW k \in 1..at PROVE k \in u \/ \E j \in 1..Len(r) : r[j] = k
      BY DEF Covers
    <2>1. CASE k <= n
      <3>1. k \in 1..Len(r) /\ r[k] = k
        BY <1>1, <2>1
      <3> QED BY <3>1
    <2>2. CASE ~(k <= n)
      <3>1. k \in (n + 1)..at
        BY <1>1, <2>2
      <3> QED BY <1>5, <3>1
    <2> QED BY <2>1, <2>2
  <1> QED BY <1>3, <1>4, <1>5 DEF r

(* What a screen shows when the chunk after the last one delivered is added. *)
LEMMA ChunkShown ==
  ASSUME NEW screen \in Seq(1..MaxOutput), NEW at \in Nat, NEW d \in Nat, NEW o \in Nat, d + 1 <= o,
         NEW u, NEW kd, Sound(screen, o, u, kd), Ends(screen, at, d), o <= MaxOutput,
         kd = "agent" => Covers(screen, u, d),
         NEW x, x = screen \o <<d + 1>>
  PROVE  /\ x \in Seq(1..MaxOutput) /\ Sound(x, o, u, kd) /\ Ends(x, at, d + 1)
         /\ kd = "agent" => Covers(x, u, d + 1)
PROOF
  <1> DEFINE n == Len(screen)
  <1>1. n \in Nat /\ \A j \in 1..n : screen[j] \in Nat
    <2>1. n \in Nat /\ \A j \in 1..n : screen[j] \in 1..MaxOutput
      BY ElementOf
    <2> QED BY <2>1, WindowConstants
  <1>2. x \in Seq(1..MaxOutput) /\ Len(x) = n + 1 /\ (\A j \in 1..n : x[j] = screen[j]) /\ x[n + 1] = d + 1
    <2>1. d + 1 \in 1..MaxOutput
      BY WindowConstants
    <2>2. <<d + 1>> \in Seq(1..MaxOutput) /\ Len(<<d + 1>>) = 1 /\ <<d + 1>>[1] = d + 1 /\ 1 \in 1..1
      BY <2>1
    <2>3. /\ x \in Seq(1..MaxOutput) /\ Len(x) = n + Len(<<d + 1>>)
          /\ \A t \in 1..n : x[t] = screen[t]
          /\ \A t \in 1..Len(<<d + 1>>) : x[n + t] = <<d + 1>>[t]
      BY <2>2, JoinTwo
    <2> QED BY <2>2, <2>3
  <1>3. /\ at <= d /\ d - at <= n
        /\ \A j \in 1..n : IF j <= n - (d - at) THEN screen[j] <= at
                           ELSE screen[j] = at + (j - (n - (d - at)))
    BY DEF Ends
  <1>4. \A j \in 1..n : screen[j] <= o
    BY DEF Sound
  <1>5. \A j \in 1..n, k \in 1..n : j < k => screen[j] < screen[k]
    BY DEF Sound
  <1> HIDE DEF n
  <1>6. ASSUME NEW j \in 1..n PROVE screen[j] <= d
    <2>1. CASE j <= n - (d - at)
      BY <1>1, <1>3, <2>1
    <2>2. CASE ~(j <= n - (d - at))
      <3>1. screen[j] = at + (j - (n - (d - at)))
        BY <1>3, <2>2
      <3> QED BY <1>1, <1>3, <3>1
    <2> QED BY <2>1, <2>2
  <1>7. ASSUME NEW m, Covers(screen, u, m) PROVE Covers(x, u, m)
    BY <1>1, <1>2, <1>7 DEF Covers, n
  <1>8. Ends(x, at, d + 1)
    <2>1. at <= d + 1 /\ (d + 1) - at <= n + 1 /\ (n + 1) - ((d + 1) - at) = n - (d - at)
      BY <1>1, <1>3
    <2>2. ASSUME NEW j \in 1..(n + 1)
          PROVE IF j <= n - (d - at) THEN x[j] <= at ELSE x[j] = at + (j - (n - (d - at)))
      <3>1. CASE j <= n
        <4>1. j \in 1..n /\ x[j] = screen[j]
          BY <1>1, <1>2, <3>1
        <4> QED BY <1>3, <4>1
      <3>2. CASE ~(j <= n)
        <4>1. j = n + 1 /\ x[j] = d + 1
          BY <1>1, <1>2, <3>2
        <4>2. ~(j <= n - (d - at)) /\ d + 1 = at + (j - (n - (d - at)))
          BY <1>1, <1>3, <4>1
        <4> QED BY <4>1, <4>2
      <3> QED BY <3>1, <3>2
    <2> QED BY <1>2, <2>1, <2>2 DEF Ends
  <1>9. ASSUME kd = "agent" PROVE Covers(x, u, d + 1)
    <2>1. Covers(x, u, d)
      BY <1>7, <1>9
    <2> SUFFICES ASSUME NEW k \in 1..(d + 1) PROVE k \in u \/ \E j \in 1..Len(x) : x[j] = k
      BY DEF Covers
    <2>2. CASE k = d + 1
      <3>1. n + 1 \in 1..Len(x)
        BY <1>1, <1>2
      <3> QED BY <1>2, <2>2, <3>1
    <2>3. CASE k # d + 1
      <3>1. k \in 1..d
        BY <2>3
      <3> QED BY <2>1, <3>1 DEF Covers
    <2> QED BY <2>2, <2>3
  <1>10. Sound(x, o, u, kd)
    <2>1. ASSUME NEW j \in 1..(n + 1)
          PROVE  \/ j \in 1..n /\ x[j] = screen[j]
                 \/ j = n + 1 /\ x[j] = d + 1
      BY <1>1, <1>2
    <2>2. ASSUME NEW j \in 1..(n + 1) PROVE x[j] <= o
      BY <1>4, <2>1
    <2>3. ASSUME NEW j \in 1..(n + 1), NEW k \in 1..(n + 1), j < k PROVE x[j] < x[k]
      <3>. j \in 1..n
        BY <1>1, <2>3
      <3>1. x[j] = screen[j]
        BY <1>2
      <3>2. CASE k \in 1..n
        <4>1. x[k] = screen[k]
          BY <1>2, <3>2
        <4> QED BY <1>5, <2>3, <3>1, <3>2, <4>1
      <3>3. CASE k \notin 1..n
        <4>1. x[k] = d + 1 /\ screen[j] \in Nat /\ screen[j] <= d
          BY <1>1, <1>6, <2>1, <3>1, <3>3
        <4> QED BY ONLY <3>1, <4>1, d \in Nat
      <3> QED BY <3>2, <3>3
    <2>4. ASSUME kd = "agent", NEW j \in 1..(n + 1) PROVE Covers(x, u, x[j])
      <3>1. CASE j \in 1..n
        <4>1. x[j] = screen[j] /\ Covers(screen, u, screen[j])
          BY <1>2, <2>4, <3>1 DEF Sound, n
        <4> QED BY <1>7, <4>1
      <3>2. CASE j \notin 1..n
        BY <1>9, <2>1, <2>4, <3>2
      <3> QED BY <3>1, <3>2
    <2> QED BY <1>2, <2>2, <2>3, <2>4 DEF Sound
  <1> QED BY <1>2, <1>8, <1>9, <1>10

(* What is left on its way when one message has been delivered. *)
LEMMA RestFlows ==
  ASSUME NEW c \in Connections, NEW w, NEW d \in Nat, NEW o \in Nat,
         OnWire(c, w, d, o), InQueue(c, d, o), c.wire # <<>>,
         NEW e, e.wire = Tail(c.wire), e.server = c.server, e.over = c.over, e.queue = c.queue,
         NEW x
  PROVE  OnWire(e, x, d + 1, o) /\ InQueue(e, d + 1, o)
PROOF
  <1> DEFINE n == Len(c.wire)
             m == Len(c.queue)
  <1>1. c.wire \in Seq(Messages) /\ m \in Nat
    BY DEF Connections
  <1>2. Len(e.wire) = n - 1 /\ n \in Nat \ {0} /\ \A t \in 1..(n - 1) : e.wire[t] = c.wire[t + 1]
    BY <1>1, TakeOne
  <1>3. \A k \in 1..n : \/ w.awaiting /\ k = 1
                        \/ c.wire[k] = <<d + k>> /\ d + k <= o
                        \/ c.wire[k] = <<Close>> /\ c.server = "ended" /\ k = n
    BY DEF OnWire
  <1>4. c.server = "attached" /\ ~c.over =>
          d + n + m = o /\ \A k \in 1..m : c.queue[k] = d + n + k
    BY DEF InQueue
  <1> HIDE DEF n, m
  <1>5. ASSUME NEW k \in 1..(n - 1)
        PROVE  \/ e.wire[k] = <<(d + 1) + k>> /\ (d + 1) + k <= o
               \/ e.wire[k] = <<Close>> /\ e.server = "ended" /\ k = n - 1
    <2>1. k + 1 \in 1..n /\ k + 1 # 1 /\ d + (k + 1) = (d + 1) + k /\ (k + 1 = n <=> k = n - 1)
      BY <1>2
    <2>2. e.wire[k] = c.wire[k + 1]
      BY <1>2
    <2>3. \/ c.wire[k + 1] = <<d + (k + 1)>> /\ d + (k + 1) <= o
          \/ c.wire[k + 1] = <<Close>> /\ c.server = "ended" /\ k + 1 = n
      BY <1>3, <2>1
    <2> QED BY <2>1, <2>2, <2>3
  <1>6. (d + 1) + (n - 1) = d + n
    BY <1>2
  <1>7. InQueue(e, d + 1, o)
    BY <1>2, <1>4, <1>6 DEF InQueue, m
  <1> QED BY <1>2, <1>5, <1>7 DEF OnWire

(* onmessage of one message, of one connection and its view. *)
LEMMA Delivered ==
  ASSUME NEW c \in Connections, NEW w \in ViewStates, NEW o \in 1..MaxOutput, NEW u, NEW kd,
         Tidy(c, o, kd), Carried(c, w, o, u, kd), Sound(w.screen, o, u, kd),
         c.client = "open", c.wire # <<>>, Head(c.wire) # <<Close>>,
         NEW e, e = [c EXCEPT !.wire = Tail(@)], NEW x, x = Shown(w, Head(c.wire))
  PROVE  /\ e \in Connections /\ e.view = c.view /\ e.client = c.client
         /\ x \in ViewStates /\ x.ws = w.ws /\ x.timer = w.timer /\ x.again = w.again
         /\ Tidy(e, o, kd) /\ Carried(e, x, o, u, kd) /\ Sound(x.screen, o, u, kd)
PROOF
  <1> DEFINE h == Head(c.wire)
             r == Tail(c.wire)
  <1>1. c.wire \in Seq(Messages) /\ c.at \in Nat /\ o \in Nat /\ o <= MaxOutput
    BY WindowConstants DEF Connections
  <1>2. h = c.wire[1] /\ h \in Messages /\ r \in Seq(Messages) /\ Len(c.wire) \in Nat \ {0}
    BY <1>1, TakeOne
  <1>3. h \in Seq(1..MaxOutput) /\ w.screen \in Seq(1..MaxOutput)
    BY <1>2, MessageTypes DEF ViewStates
  <1>4. e = [c EXCEPT !.wire = r] /\ x = Shown(w, h) /\ h # <<Close>> /\ r = Tail(c.wire)
    OBVIOUS
  <1> HIDE DEF h, r
  <1>5. /\ e \in Connections /\ e.view = c.view /\ e.client = c.client /\ e.keep = c.keep /\ e.at = c.at
        /\ e.server = c.server /\ e.queue = c.queue /\ e.over = c.over /\ e.link = c.link /\ e.wire = r
    BY ONLY <1>2, <1>4, c \in Connections DEF Connections
  <1>6. c.server # "none" /\ c.link /\ w.preserve = c.keep
    BY DEF Tidy, Carried
  <1>7. PICK d \in Nat : Flows(c, w, d, o, u, kd)
    BY <1>6 DEF Carried
  <1>8. Tidy(e, o, kd)
    <2>1. Tidy(c, o, kd)
      OBVIOUS
    <2> QED BY ONLY <1>5, <1>6, <2>1 DEF Tidy
  <1>9. OnWire(e, x, d + 1, o) /\ InQueue(e, d + 1, o)
    <2>1. OnWire(c, w, d, o) /\ InQueue(c, d, o)
      BY <1>7 DEF Flows
    <2> QED BY <1>1, <1>4, <1>5, <2>1, RestFlows
  <1>10. /\ x \in ViewStates /\ x.ws = w.ws /\ x.timer = w.timer /\ x.again = w.again
         /\ x.preserve = w.preserve /\ ~x.awaiting
         /\ x.screen = IF w.awaiting /\ h # <<>> /\ ~w.preserve THEN h ELSE w.screen \o h
    <2>1. w.screen \o h \in Seq(1..MaxOutput)
      BY <1>3, JoinTwo
    <2> QED BY ONLY <1>3, <1>4, <2>1, w \in ViewStates DEF Shown, ViewStates
  <1>11. /\ Sound(x.screen, o, u, kd) /\ Ends(x.screen, c.at, d + 1)
         /\ kd = "agent" => Covers(x.screen, u, d + 1)
    <2>1. CASE w.awaiting
      <3>1. /\ d + 1 = c.at /\ Replays(c, h, u, kd) /\ c.at <= o
            /\ c.keep => \A j \in 1..Len(w.screen) : w.screen[j] <= c.at
        BY <1>2, <1>7, <2>1 DEF Flows, Awaits, Tidy
      <3>2. CASE c.keep
        <4>1. h = <<>> /\ x.screen = w.screen
          <5>1. h = <<>>
            BY <3>1, <3>2 DEF Replays
          <5>2. w.screen \o <<>> = w.screen
            BY <1>3
          <5> QED BY <1>10, <5>1, <5>2
        <4>2. kd # "agent"
          BY <3>2 DEF Tidy
        <4>3. Ends(w.screen, c.at, c.at)
          <5>1. Len(w.screen) \in Nat
            BY <1>3
          <5> QED BY <1>1, <3>1, <3>2, <5>1 DEF Ends
        <4> QED BY <3>1, <4>1, <4>2, <4>3
      <3>3. CASE ~c.keep
        <4>1. PICK n \in 1..c.at : h = Upto(n) /\ (kd = "agent" => (n + 1)..c.at \subseteq u)
          BY <3>1, <3>3 DEF Replays
        <4>2. n \in 1..MaxOutput /\ n <= c.at
          BY <1>1, <3>1, WindowConstants
        <4>3. x.screen = Upto(n)
          BY <1>6, <1>10, <2>1, <3>3, <4>1, <4>2, UptoIs
        <4> QED BY <1>1, <3>1, <4>1, <4>2, <4>3, ReplayShown
      <3> QED BY <3>2, <3>3
    <2>2. CASE ~w.awaiting
      <3>1. h = <<d + 1>> /\ d + 1 <= o
        <4>1. 1 \in 1..Len(c.wire)
          BY <1>2
        <4> QED BY <1>2, <1>4, <1>7, <2>2, <4>1 DEF Flows, OnWire
      <3>2. x.screen = w.screen \o <<d + 1>>
        BY <1>10, <2>2, <3>1
      <3>3. Ends(w.screen, c.at, d) /\ (kd = "agent" => Covers(w.screen, u, d))
        BY <1>7, <2>2 DEF Flows, Goes
      <3> QED BY <1>1, <1>3, <3>1, <3>2, <3>3, ChunkShown
    <2> QED BY <2>1, <2>2
  <1>12. Flows(e, x, d + 1, o, u, kd)
    <2>1. Awaits(e, x, d + 1, u, kd)
      BY <1>10 DEF Awaits
    <2>2. Goes(e, x, d + 1, u, kd)
      BY <1>5, <1>11 DEF Goes
    <2> QED BY <1>9, <2>1, <2>2 DEF Flows
  <1>13. Carried(e, x, o, u, kd)
    <2>1. d + 1 \in Nat
      OBVIOUS
    <2> QED BY ONLY <1>5, <1>6, <1>10, <1>12, <2>1 DEF Carried
  <1> QED BY ONLY <1>5, <1>8, <1>10, <1>11, <1>13

LEMMA MessageGood ==
  ASSUME NEW S, NEW V, NEW o, NEW u, NEW kd, Good(S, V, o, u, kd),
         NEW s \in 1..Len(S), NEW c \in Connections, S[s] = c,
         c.client = "open", c.wire # <<>>, Head(c.wire) # <<Close>>,
         NEW e, e = [c EXCEPT !.wire = Tail(@)],
         NEW x, x = Shown(V[c.view], Head(c.wire))
  PROVE  Good([S EXCEPT ![s] = e], [V EXCEPT ![c.view] = x], o, u, kd)
PROOF
  <1> DEFINE v == c.view
             w == V[v]
             T == [S EXCEPT ![s] = e]
  <1>1. /\ S \in Seq(Connections) /\ V \in [Views -> ViewStates] /\ Linked(S, V, kd) /\ o \in 1..MaxOutput
        /\ v \in Views /\ Tidy(c, o, kd) /\ Carried(c, w, o, u, kd)
    BY DEF Good, Typed, Connections
  <1>2. w \in ViewStates /\ Sound(w.screen, o, u, kd) /\ LinkedView(S, v, w, kd) /\ w.ws = s
    BY <1>1 DEF Good, Linked
  <1>3. /\ e \in Connections /\ e.view = c.view /\ e.client = c.client
        /\ x \in ViewStates /\ x.ws = w.ws /\ x.timer = w.timer /\ x.again = w.again
        /\ Tidy(e, o, kd) /\ Carried(e, x, o, u, kd) /\ Sound(x.screen, o, u, kd)
    <2> HIDE DEF w
    <2> QED BY <1>1, <1>2, Delivered DEF w
  <1>4. T[s] = e /\ Len(T) = Len(S)
    BY <1>1, <1>3, ChangeOne
  <1>5. LinkedView(T, v, x, kd)
    <2>1. s # None /\ s \in 1..Len(T) /\ e.client = "open" /\ e.view = v
      BY <1>3, <1>4 DEF None
    <2>2. ~w.timer /\ ~w.again
      BY <1>2, <2>1 DEF LinkedView
    <2>3. ~x.timer /\ ~x.again /\ x.ws = s
      BY <1>2, <1>3, <2>2
    <2> HIDE DEF T, w, v
    <2> QED BY ONLY <1>4, <2>1, <2>3 DEF LinkedView, Away
  <1>6. e.view = v /\ S[s].view = v /\ S[s].client # "closed" /\ x.ws = s
    BY <1>2, <1>3
  <1> HIDE DEF v, w
  <1>7. Good(T, [V EXCEPT ![v] = x], o, u, kd)
    BY <1>1, <1>3, <1>5, <1>6, BothGood
  <1> QED BY <1>7 DEF v

-----------------------------------------------------------------------------
(* The invariant of the specification *)

LazyInv == lazy => \A s \in 1..Len(sock) : sock[s].server = "none"

WinInv == Good(sock, view, out, unseen, kind) /\ LazyInv

LEMMA WinTyped ==
  ASSUME WinInv
  PROVE  /\ sock \in Seq(Connections) /\ view \in [Views -> ViewStates]
         /\ DOMAIN sock = 1..Len(sock) /\ Len(sock) \in Nat
         /\ out \in 1..MaxOutput /\ out \in Nat /\ unseen \subseteq 1..out /\ kind \in {"shell", "agent"}
         /\ \A s \in 1..Len(sock) : sock[s] \in Connections /\ sock[s].view \in Views
         /\ Linked(sock, view, kind)
BY ViewOf, WindowConstants DEF WinInv, Good, Typed

LEMMA WinInit == Init => WinInv
PROOF
  <1> SUFFICES ASSUME Init PROVE WinInv
    OBVIOUS
  <1>1. /\ sock = <<>> /\ Len(sock) = 0 /\ view = [v \in Views |-> NewView] /\ out = 1 /\ unseen = {}
        /\ kind \in {"shell", "agent"} /\ sock \in Seq(Connections)
    BY DEF Init
  <1>2. NewView \in ViewStates
    <2>1. None \in Nat /\ <<>> \in Seq(1..MaxOutput)
      BY DEF None
    <2> QED BY <2>1 DEF NewView, ViewStates
  <1>3. ASSUME NEW v \in Views PROVE LinkedView(sock, v, view[v], kind) /\ Sound(view[v].screen, out, unseen, kind)
    <2>1. view[v].ws = None /\ ~view[v].again /\ view[v].screen = <<>>
      BY <1>1 DEF NewView
    <2> QED BY <2>1, EmptySound DEF LinkedView
  <1>4. Linked(sock, view, kind)
    BY <1>1, <1>3 DEF Linked
  <1>5. Typed(sock, view, out, unseen, kind)
    BY <1>1, <1>2, WindowConstants DEF Typed
  <1> QED BY <1>1, <1>3, <1>4, <1>5 DEF WinInv, Good, LazyInv

LEMMA OutputKeeps ==
  ASSUME WinInv, Output \/ Repaints
  PROVE  WinInv'
PROOF
  <1>1. ~lazy /\ lazy' = lazy /\ out < MaxOutput /\ Prints(out + 1) /\ UNCHANGED <<kind, view, unseen>>
    BY DEF Output, Repaints
  <1>2. out + 1 <= MaxOutput
    BY <1>1, WinTyped, WindowConstants
  <1>3. sock' = [s \in DOMAIN sock |-> IF sock[s].server = "attached" THEN Put(sock[s], out + 1) ELSE sock[s]]
    BY <1>1 DEF Prints, Listening, Attached
  <1>4. Good(sock', view, out + 1, unseen, kind)
    BY <1>2, <1>3, PrintsGood DEF WinInv
  <1>5. out' = out + 1
    BY <1>1 DEF Prints
  <1> QED BY <1>1, <1>4, <1>5 DEF WinInv, LazyInv

(* A step of one connection that leaves the rest alone. *)
LEMMA ConnectionKeeps ==
  ASSUME WinInv, NEW s \in 1..Len(sock), NEW e, sock[s].server # "none",
         Good([sock EXCEPT ![s] = e], view, out, unseen, kind),
         sock' = [sock EXCEPT ![s] = e], UNCHANGED <<view, out, unseen, kind, lazy>>
  PROVE  WinInv'
BY DEF WinInv, LazyInv

LEMMA AcceptKeeps ==
  ASSUME WinInv, NEW s \in 1..Len(sock), Accept(s)
  PROVE  WinInv'
PROOF
  <1> DEFINE c == sock[s]
             e == Registers(c, out, IF c.keep THEN <<>> ELSE Upto(out))
  <1>1. /\ ~lazy /\ c.server = "none" /\ c.client = "open" /\ c.link /\ out' = out
        /\ sock' = Registered(s, out) /\ UNCHANGED <<kind, lazy, view, unseen>>
    BY DEF Accept
  <1>2. sock' = [sock EXCEPT ![s] = e]
    BY <1>1 DEF Registered, Registers
  <1>3. out \in 1..out /\ (out + 1)..out = {} /\ c \in Connections
    BY WinTyped
  <1> HIDE DEF e
  <1>4. Good([sock EXCEPT ![s] = e], view, out, unseen, kind)
    <2>1. (out + 1)..out \subseteq unseen
      BY <1>3
    <2> QED BY <1>1, <1>3, <2>1, AttachGood DEF WinInv, e
  <1> QED BY <1>1, <1>2, <1>4 DEF WinInv, LazyInv

LEMMA AcceptStartsKeeps ==
  ASSUME WinInv, NEW s \in 1..Len(sock), AcceptStarts(s)
  PROVE  WinInv'
PROOF
  <1> DEFINE c == sock[s]
  <1>1. /\ lazy /\ c.server = "none" /\ c.client = "open" /\ c.link /\ ~lazy'
        /\ UNCHANGED <<kind, view>>
    BY DEF AcceptStarts
  <1>2. c \in Connections /\ out \in 1..MaxOutput /\ out \in Nat /\ unseen \subseteq 1..out
    BY WinTyped
  <1>3. \A t \in 1..Len(sock) : sock[t].server = "none"
    BY <1>1 DEF WinInv, LazyInv
  <1>4. PICK n \in {out, out'} :
          /\ sock' = Registered(s, n)
          /\ out' = out \/ (out' = out + 1 /\ out < MaxOutput)
          /\ unseen' = unseen \/ (out' = out + 1 /\ unseen' = unseen \cup {out'})
          /\ n = out' \/ unseen' = unseen \cup {out'}
    <2>1. CASE /\ out < MaxOutput /\ out' = out + 1
               /\ sock' = Registered(s, IF kind = "agent" THEN out ELSE out')
               /\ unseen' = IF kind = "agent" THEN unseen \cup {out'} ELSE unseen
      BY <2>1
    <2>2. CASE /\ UNCHANGED <<out, unseen>> /\ sock' = Registered(s, out)
      BY <2>2
    <2> QED BY <1>1, <2>1, <2>2 DEF AcceptStarts
  <1>5. out' \in 1..MaxOutput /\ out <= out' /\ unseen \subseteq unseen' /\ unseen' \subseteq 1..out' /\ n \in 1..out'
    <2>1. CASE out' = out
      <3>1. out # out + 1 /\ out \in 1..out
        BY <1>2
      <3>2. unseen' = unseen /\ n = out
        BY <1>4, <2>1, <3>1
      <3> QED BY <1>2, <2>1, <3>1, <3>2
    <2>2. CASE out' = out + 1 /\ out < MaxOutput
      <3>1. out + 1 \in 1..MaxOutput /\ out <= out + 1 /\ out \in 1..(out + 1) /\ out + 1 \in 1..(out + 1)
        BY <1>2, <2>2, WindowConstants
      <3>2. 1..out \subseteq 1..(out + 1)
        BY <1>2
      <3>3. unseen' = unseen \/ unseen' = unseen \cup {out + 1}
        BY <1>4, <2>2
      <3> QED BY <1>2, <1>4, <2>2, <3>1, <3>2, <3>3
    <2> QED BY <1>4, <2>1, <2>2
  <1>6. (n + 1)..out' \subseteq unseen'
    BY <1>2, <1>4
  <1> DEFINE e == Registers(c, out', IF c.keep THEN <<>> ELSE Upto(n))
  <1>7. sock' = [sock EXCEPT ![s] = e]
    BY <1>4 DEF Registered, Registers
  <1>8. Good(sock, view, out', unseen', kind)
    BY <1>3, <1>5, StartGood DEF WinInv
  <1> HIDE DEF e
  <1>9. Good([sock EXCEPT ![s] = e], view, out', unseen', kind)
    BY <1>1, <1>2, <1>5, <1>6, <1>8, AttachGood DEF e
  <1> QED BY <1>1, <1>7, <1>9 DEF WinInv, LazyInv

LEMMA PumpKeeps ==
  ASSUME WinInv, NEW s \in 1..Len(sock), Pump(s)
  PROVE  WinInv'
PROOF
  <1> DEFINE c == sock[s]
             e == Pumped(c)
  <1>1. /\ c.server = "attached" /\ c.link /\ c.queue # <<>> /\ c \in Connections
        /\ sock' = [sock EXCEPT ![s] = e] /\ UNCHANGED <<kind, lazy, view, out, unseen>>
    BY WinTyped DEF Pump, Pumped
  <1>2. e \in Connections
    <2> DEFINE q == c.queue
               r == c.wire
    <2>1. q \in Seq(0..MaxOutput) /\ q # <<>> /\ r \in Seq(Messages)
      BY <1>1 DEF Connections
    <2>2. Tail(q) \in Seq(0..MaxOutput) /\ Head(q) \in 0..MaxOutput
      BY <2>1, TakeOne
    <2>3. Head(q) # Close => <<Head(q)>> \in Messages
      <3>1. Head(q) # Close => Head(q) \in 1..MaxOutput
        BY <2>2, WindowConstants DEF Close
      <3> QED BY <3>1, MessageTypes
    <2>4. Append(r, <<Close>>) \in Seq(Messages) /\ (Head(q) # Close => Append(r, <<Head(q)>>) \in Seq(Messages))
      BY <2>1, <2>3, MessageTypes, AddOne
    <2>5. <<>> \in Seq(0..MaxOutput)
      OBVIOUS
    <2> QED BY <1>1, <2>2, <2>4, <2>5 DEF Connections, Pumped
  <1>3. Good(sock, view, out, unseen, kind)
    BY DEF WinInv
  <1> HIDE DEF e
  <1>4. Good([sock EXCEPT ![s] = e], view, out, unseen, kind)
    BY <1>1, <1>2, <1>3, PumpGood DEF e
  <1> QED BY <1>1, <1>4, ConnectionKeeps

LEMMA EndedKeeps ==
  ASSUME WinInv, NEW s \in 1..Len(sock), Stalls(s) \/ Detach(s)
  PROVE  WinInv'
PROOF
  <1> DEFINE c == sock[s]
             q == <<>>
  <1>1. c.server = "attached" /\ c \in Connections /\ UNCHANGED <<kind, lazy, view, out, unseen>>
    BY WinTyped DEF Stalls, Detach
  <1>2. PICK e \in Connections :
          /\ \/ c.link /\ e = [c EXCEPT !.queue = <<>>, !.server = "ended", !.wire = Append(@, <<Close>>)]
             \/ (~c.link \/ c.client # "open") /\ e = [c EXCEPT !.server = "ended", !.queue = <<>>]
          /\ sock' = [sock EXCEPT ![s] = e]
    <2> DEFINE r == Append(c.wire, <<Close>>)
    <2>1. r \in Seq(Messages) /\ q \in Seq(0..MaxOutput)
      <3>1. c.wire \in Seq(Messages)
        BY <1>1 DEF Connections
      <3> QED BY <3>1, MessageTypes, AddOne
    <2>2. CASE Stalls(s)
      <3> DEFINE e == [c EXCEPT !.queue = q, !.server = "ended", !.wire = r]
      <3>1. sock' = [sock EXCEPT ![s] = e] /\ c.link
        BY <2>2 DEF Stalls
      <3>2. e \in Connections
        <4> HIDE DEF q, r
        <4> QED BY <1>1, <2>1 DEF Connections
      <3> QED BY <3>1, <3>2
    <2>3. CASE Detach(s)
      <3> DEFINE e == [c EXCEPT !.server = "ended", !.queue = q]
      <3>1. (~c.link \/ c.client # "open") /\ sock' = [sock EXCEPT ![s] = e]
        <4>1. sock' = [sock EXCEPT ![s].server = "ended", ![s].queue = <<>>]
          BY <2>3 DEF Detach
        <4>2. sock' = [sock EXCEPT ![s] = e]
          BY <4>1, WinTyped
        <4> QED BY <2>3, <4>2 DEF Detach
      <3>2. e \in Connections
        <4> HIDE DEF q
        <4> QED BY <1>1, <2>1 DEF Connections
      <3> QED BY <3>1, <3>2
    <2> QED BY <2>2, <2>3
  <1>3. Good([sock EXCEPT ![s] = e], view, out, unseen, kind)
    BY <1>1, <1>2, EndedGood DEF WinInv
  <1> QED BY <1>1, <1>2, <1>3, ConnectionKeeps

LEMMA DropKeeps ==
  ASSUME WinInv, NEW s \in 1..Len(sock), Drop(s)
  PROVE  WinInv'
PROOF
  <1> DEFINE c == sock[s]
             r == <<>>
             e == [c EXCEPT !.link = FALSE, !.wire = r]
  <1>1. c \in Connections /\ r \in Seq(Messages) /\ UNCHANGED <<kind, lazy, view, out, unseen>>
    BY WinTyped DEF Drop
  <1>2. sock' = [sock EXCEPT ![s] = e]
    <2>1. sock' = [sock EXCEPT ![s].link = FALSE, ![s].wire = <<>>]
      BY DEF Drop
    <2> QED BY <2>1, WinTyped
  <1>3. e \in Connections /\ e = [c EXCEPT !.link = FALSE, !.wire = <<>>] /\ e.server = c.server
    <2>1. e \in Connections /\ e.server = c.server
      <3> HIDE DEF r
      <3> QED BY <1>1 DEF Connections
    <2> QED BY <2>1
  <1> HIDE DEF e
  <1>4. Good([sock EXCEPT ![s] = e], view, out, unseen, kind)
    BY <1>1, <1>3, DropGood DEF WinInv
  <1>5. LazyInv'
    BY <1>1, <1>2, <1>3, WinTyped DEF WinInv, LazyInv
  <1> QED BY <1>1, <1>2, <1>4, <1>5 DEF WinInv

LEMMA MessageKeeps ==
  ASSUME WinInv, NEW s \in 1..Len(sock), Message(s)
  PROVE  WinInv'
PROOF
  <1> DEFINE c == sock[s]
             e == [c EXCEPT !.wire = Tail(@)]
             x == Shown(view[c.view], Head(c.wire))
  <1>1. /\ c \in Connections /\ c.client = "open" /\ c.wire # <<>> /\ Head(c.wire) # <<Close>>
        /\ UNCHANGED <<kind, lazy, out, unseen>> /\ c.view \in Views
    BY WinTyped DEF Message
  <1>2. sock' = [sock EXCEPT ![s] = e]
    <2>1. sock' = [sock EXCEPT ![s].wire = Tail(@)]
      BY DEF Message
    <2> QED BY <2>1, WinTyped
  <1>3. view' = [view EXCEPT ![c.view] = x]
    BY WinTyped, <1>1 DEF Message
  <1>4. e.server = c.server
    BY <1>1 DEF Connections
  <1> HIDE DEF e, x
  <1>5. Good([sock EXCEPT ![s] = e], [view EXCEPT ![c.view] = x], out, unseen, kind)
    BY <1>1, MessageGood DEF WinInv, e, x
  <1>6. LazyInv'
    BY <1>1, <1>2, <1>4, WinTyped DEF WinInv, LazyInv
  <1> QED BY <1>1, <1>2, <1>3, <1>5, <1>6 DEF WinInv

(* connect, of a view w that has no connection among S. *)
LEMMA ConnectKeeps ==
  ASSUME NEW S, NEW V, Good(S, V, out, unseen, kind), LazyInv,
         NEW v \in Views, V[v].ws = None,
         NEW w \in ViewStates, ~w.again, ~w.timer, w.scratch = V[v].scratch,
         w.screen = V[v].screen \/ w.screen = <<>>,
         [view EXCEPT ![v] = w] = [V EXCEPT ![v] = w],
         Len(S) = Len(sock), \A t \in 1..Len(S) : S[t].server = sock[t].server,
         Connect(v, w, S), UNCHANGED <<kind, lazy, out, unseen>>
  PROVE  WinInv'
PROOF
  <1>1. S \in Seq(Connections) /\ V \in [Views -> ViewStates]
    BY DEF Good, Typed
  <1>2. PICK keep \in IF w.scratch \/ w.screen = <<>> THEN {FALSE} ELSE BOOLEAN :
          /\ sock' = Append(S, NewSocket(v, keep))
          /\ view' = [view EXCEPT ![v] = [w EXCEPT !.ws = Len(S) + 1, !.awaiting = TRUE, !.preserve = keep]]
    BY DEF Connect
  <1> DEFINE x == [w EXCEPT !.ws = Len(S) + 1, !.awaiting = TRUE, !.preserve = keep]
             c == NewSocket(v, keep)
  <1>3. keep \in BOOLEAN /\ (w.scratch \/ w.screen = <<>> => ~keep)
    BY <1>2
  <1>4. view' = [V EXCEPT ![v] = x]
    BY <1>2
  <1> HIDE DEF x
  <1>5. Good(Append(S, c), [V EXCEPT ![v] = x], out, unseen, kind)
    BY <1>3, ConnectGood DEF x
  <1>6. c \in Connections /\ c.server = "none"
    <2>1. <<>> \in Seq(Messages) /\ <<>> \in Seq(0..MaxOutput) /\ 0 \in 0..MaxOutput
      BY WindowConstants
    <2> QED BY <1>3, <2>1 DEF NewSocket, Connections
  <1>7. LazyInv'
    <2>1. sock' = Append(S, c)
      BY <1>2
    <2> HIDE DEF c
    <2>2. /\ Len(sock') = Len(S) + 1 /\ Len(S) \in Nat
          /\ \A t \in 1..(Len(S) + 1) : sock'[t] = IF t <= Len(S) THEN S[t] ELSE c
      BY <1>1, <1>6, <2>1, AddOne
    <2> SUFFICES ASSUME lazy, NEW t \in 1..(Len(S) + 1) PROVE sock'[t].server = "none"
      BY <2>2 DEF LazyInv
    <2>3. CASE t <= Len(S)
      <3>1. t \in 1..Len(S) /\ sock'[t] = S[t]
        BY <2>2, <2>3
      <3> QED BY <3>1 DEF LazyInv
    <2>4. CASE ~(t <= Len(S))
      BY <1>6, <2>2, <2>4
    <2> QED BY <2>3, <2>4
  <1> QED BY <1>2, <1>4, <1>5, <1>7 DEF WinInv

(* A view's own connection, if it has one. *)
LEMMA OwnConnection ==
  ASSUME WinInv, NEW v \in Views
  PROVE  /\ view[v] \in ViewStates /\ LinkedView(sock, v, view[v], kind)
         /\ view[v].ws # None =>
              /\ view[v].ws \in 1..Len(sock) /\ sock[view[v].ws] \in Connections
              /\ sock[view[v].ws].client \in {"open", "closing"} /\ ~view[v].timer
         /\ view[v].again => view[v].ws # None /\ sock[view[v].ws].client = "closing"
PROOF
  <1>1. view[v] \in ViewStates /\ LinkedView(sock, v, view[v], kind)
    BY WinTyped DEF Linked
  <1>2. ASSUME view[v].ws # None
        PROVE  /\ view[v].ws \in 1..Len(sock) /\ sock[view[v].ws] \in Connections
               /\ sock[view[v].ws].client # "closed" /\ ~view[v].timer
    BY <1>1, <1>2, WinTyped DEF LinkedView
  <1>3. \A c \in Connections : c.client \in {"open", "closing", "closed"}
    BY DEF Connections
  <1> QED BY <1>1, <1>2, <1>3 DEF LinkedView

LEMMA OnCloseKeeps ==
  ASSUME WinInv, NEW s \in 1..Len(sock), OnClose(s)
  PROVE  WinInv'
PROOF
  <1> DEFINE c == sock[s]
             v == c.view
             w == [view[v] EXCEPT !.ws = None, !.again = FALSE,
                                  !.scratch = @ \/ (~view[v].again /\ kind = "agent")]
             e == [c EXCEPT !.client = "closed", !.wire = <<>>]
             closed == [sock EXCEPT ![s] = e]
  <1>1. c \in Connections /\ v \in Views /\ c.client # "closed" /\ view[v] \in ViewStates
        /\ UNCHANGED <<kind, lazy, out, unseen>> /\ DOMAIN sock = 1..Len(sock)
    BY WinTyped DEF OnClose
  <1>2. closed = [sock EXCEPT ![s].client = "closed", ![s].wire = <<>>]
    BY WinTyped
  <1>3. IF view[v].again /\ w.active
          THEN Connect(v, w, closed)
          ELSE /\ sock' = closed
               /\ view' = [view EXCEPT ![v] = [w EXCEPT !.timer = @ \/ ComesBack(w)]]
    BY <1>2 DEF OnClose
  <1>4. e \in Connections /\ e.server = c.server
    <2> DEFINE r == <<>>
    <2>1. r \in Seq(Messages) /\ e = [c EXCEPT !.client = "closed", !.wire = r]
      OBVIOUS
    <2> HIDE DEF r, e
    <2> QED BY <1>1, <2>1 DEF Connections
  <1>5. Len(closed) = Len(sock) /\ \A t \in 1..Len(closed) : closed[t].server = sock[t].server
    <2>1. /\ Len(closed) = Len(sock)
          /\ \A t \in 1..Len(sock) : closed[t] = IF t = s THEN e ELSE sock[t]
      BY <1>4, WinTyped, ChangeOne
    <2> HIDE DEF closed, e
    <2> QED BY <1>4, <2>1
  <1>6. /\ w \in ViewStates /\ w.ws = None /\ ~w.again /\ w.screen = view[v].screen /\ w.timer = view[v].timer
        /\ w.awaiting = view[v].awaiting /\ w.preserve = view[v].preserve
        /\ (view[v].scratch => w.scratch) /\ (~view[v].again /\ kind = "agent" => w.scratch)
    BY <1>1 DEF ViewStates, None
  <1>7. e = [c EXCEPT !.client = "closed", !.wire = <<>>]
    OBVIOUS
  <1> HIDE DEF w, e
  <1> DEFINE V == [view EXCEPT ![v] = w]
  <1>8. Good(closed, V, out, unseen, kind) /\ ~view[v].timer
    BY <1>1, <1>6, <1>7, ClosedGood DEF WinInv
  <1>9. V[v] = w /\ V \in [Views -> ViewStates]
    BY <1>1, <1>6, WinTyped
  <1>10. CASE view[v].again /\ w.active
    <2>1. Connect(v, w, closed) /\ [view EXCEPT ![v] = w] = [V EXCEPT ![v] = w] /\ LazyInv
      BY <1>3, <1>10, WinTyped DEF WinInv
    <2>2. ~w.timer /\ V[v].ws = None /\ w.scratch = V[v].scratch /\ w.screen = V[v].screen
      BY <1>6, <1>8, <1>9
    <2> HIDE DEF V, closed, v
    <2> QED BY <1>1, <1>5, <1>6, <1>8, <2>1, <2>2, ConnectKeeps
  <1>11. CASE ~(view[v].again /\ w.active)
    <2> DEFINE x == [w EXCEPT !.timer = @ \/ ComesBack(w)]
    <2>1. sock' = closed /\ view' = [view EXCEPT ![v] = x]
      BY <1>3, <1>11
    <2>2. /\ x \in ViewStates /\ x.ws = w.ws /\ x.again = w.again /\ x.screen = w.screen
          /\ x.awaiting = w.awaiting /\ x.preserve = w.preserve /\ x.scratch = w.scratch
      BY <1>6 DEF ViewStates, ComesBack
    <2>3. view' = [V EXCEPT ![v] = x]
      BY <2>1
    <2>4. LinkedView(closed, v, w, kind)
      BY <1>1, <1>8, <1>9 DEF Good, Linked
    <2> HIDE DEF x, V, closed
    <2>5. LinkedView(closed, v, x, kind)
      BY <1>6, <2>2, <2>4 DEF LinkedView, Away
    <2>6. Good(closed, [V EXCEPT ![v] = x], out, unseen, kind)
      BY <1>1, <1>8, <1>9, <2>2, <2>5, ViewGood
    <2>7. LazyInv'
      BY <1>1, <1>5, <2>1 DEF LazyInv, WinInv
    <2> QED BY <1>1, <2>1, <2>3, <2>6, <2>7 DEF WinInv
  <1> QED BY <1>10, <1>11

(* connect, of a view that has no connection and may have been emptied. *)
LEMMA FreshConnectKeeps ==
  ASSUME WinInv, NEW v \in Views, view[v].ws = None,
         NEW w \in ViewStates, w.again = view[v].again, ~w.timer, w.scratch = view[v].scratch,
         w.screen = view[v].screen \/ w.screen = <<>>,
         Connect(v, w, sock), UNCHANGED <<kind, lazy, out, unseen>>
  PROVE  WinInv'
PROOF
  <1>1. ~w.again
    BY OwnConnection
  <1> QED BY <1>1, ConnectKeeps DEF WinInv

(* A step of one view that leaves its connection alone. *)
LEMMA ViewKeeps ==
  ASSUME WinInv, NEW v \in Views, NEW w \in ViewStates,
         w.ws = view[v].ws, w.awaiting = view[v].awaiting, w.preserve = view[v].preserve,
         w.screen = view[v].screen, w.scratch = view[v].scratch, w.timer = view[v].timer,
         w.again => view[v].ws # None /\ sock[view[v].ws].client = "closing",
         view' = [view EXCEPT ![v] = w], UNCHANGED <<sock, kind, lazy, out, unseen>>
  PROVE  WinInv'
PROOF
  <1>1. LinkedView(sock, v, view[v], kind)
    BY OwnConnection
  <1>2. LinkedView(sock, v, w, kind)
    BY <1>1 DEF LinkedView, Away
  <1>3. Good(sock, [view EXCEPT ![v] = w], out, unseen, kind)
    BY <1>2, ViewGood DEF WinInv
  <1> QED BY <1>3 DEF WinInv, LazyInv

LEMMA ClosesKeeps ==
  ASSUME WinInv, NEW v \in Views, NEW w \in ViewStates, Closes(v, w),
         w.ws = view[v].ws, w.timer = view[v].timer,
         w.screen = view[v].screen \/ w.screen = <<>>, w.screen = <<>> \/ w.scratch
  PROVE  WinInv'
PROOF
  <1> DEFINE s == view[v].ws
             c == sock[s]
             e == [c EXCEPT !.client = "closing"]
  <1>1. /\ s # None /\ c.client = "open" /\ UNCHANGED <<kind, lazy, out, unseen>>
        /\ view' = [view EXCEPT ![v] = w]
    BY DEF Closes
  <1>2. s \in 1..Len(sock) /\ c \in Connections
    BY <1>1, OwnConnection
  <1>3. sock' = [sock EXCEPT ![s] = e]
    <2>1. sock' = [sock EXCEPT ![s].client = "closing"]
      BY DEF Closes
    <2> QED BY <1>2, <2>1, WinTyped
  <1>4. e \in Connections /\ e.server = c.server
    BY <1>2 DEF Connections
  <1>5. Good([sock EXCEPT ![view[v].ws] = [sock[view[v].ws] EXCEPT !.client = "closing"]],
             [view EXCEPT ![v] = w], out, unseen, kind)
    BY <1>1, ClosingGood DEF WinInv
  <1>6. Good(sock', view', out, unseen, kind)
    BY <1>1, <1>3, <1>5
  <1> HIDE DEF e
  <1>7. LazyInv'
    <2>1. /\ Len(sock') = Len(sock)
          /\ \A t \in 1..Len(sock) : sock'[t] = IF t = s THEN e ELSE sock[t]
      BY <1>2, <1>3, <1>4, WinTyped, ChangeOne
    <2> QED BY <1>1, <1>2, <1>4, <2>1 DEF WinInv, LazyInv
  <1> QED BY <1>1, <1>6, <1>7 DEF WinInv

LEMMA ViewStepKeeps ==
  ASSUME "hasty" \notin Faults, WinInv, NEW v \in Views,
         \/ TimerFires(v) \/ Activate(v) \/ Deactivate(v) \/ Resync(v) \/ Rebuild(v) \/ Refocus(v)
  PROVE  WinInv'
PROOF
  <1>1. view[v] \in ViewStates /\ (view[v].ws # None => ~view[v].timer)
    BY OwnConnection
  <1>2. CASE TimerFires(v)
    <2> DEFINE w == [view[v] EXCEPT !.timer = FALSE]
    <2>1. Connect(v, w, sock) /\ view[v].ws = None /\ UNCHANGED <<kind, lazy, out, unseen>>
      BY <1>1, <1>2 DEF TimerFires
    <2>2. w \in ViewStates /\ w.again = view[v].again /\ ~w.timer /\ w.scratch = view[v].scratch /\ w.screen = view[v].screen
      BY <1>1 DEF ViewStates
    <2> HIDE DEF w
    <2> QED BY <2>1, <2>2, FreshConnectKeeps
  <1>3. CASE Activate(v)
    <2> DEFINE w == [view[v] EXCEPT !.active = TRUE]
    <2>1. /\ IF w.ws = None THEN Connect(v, w, sock) ELSE view' = [view EXCEPT ![v] = w] /\ UNCHANGED sock
          /\ ~view[v].timer /\ UNCHANGED <<kind, lazy, out, unseen>>
      BY <1>3 DEF Activate
    <2>2. /\ w \in ViewStates /\ w.ws = view[v].ws /\ w.again = view[v].again /\ w.timer = view[v].timer
          /\ w.scratch = view[v].scratch /\ w.screen = view[v].screen
          /\ w.awaiting = view[v].awaiting /\ w.preserve = view[v].preserve
      BY <1>1 DEF ViewStates
    <2> HIDE DEF w
    <2>3. CASE w.ws = None
      BY <2>1, <2>2, <2>3, FreshConnectKeeps
    <2>4. CASE w.ws # None
      BY <2>1, <2>2, <2>4, ViewKeeps, OwnConnection
    <2> QED BY <2>3, <2>4
  <1>4. CASE Deactivate(v)
    <2> DEFINE w == [view[v] EXCEPT !.active = FALSE]
    <2>1. view' = [view EXCEPT ![v] = w] /\ UNCHANGED <<sock, kind, lazy, out, unseen>>
      <3>1. view' = [view EXCEPT ![v].active = FALSE] /\ UNCHANGED <<sock, kind, lazy, out, unseen>>
        BY <1>4 DEF Deactivate
      <3> QED BY <3>1, WinTyped
    <2>2. /\ w \in ViewStates /\ w.ws = view[v].ws /\ w.again = view[v].again /\ w.timer = view[v].timer
          /\ w.scratch = view[v].scratch /\ w.screen = view[v].screen
          /\ w.awaiting = view[v].awaiting /\ w.preserve = view[v].preserve
      BY <1>1 DEF ViewStates
    <2> HIDE DEF w
    <2> QED BY <2>1, <2>2, ViewKeeps, OwnConnection
  <1>5. CASE Resync(v)
    <2> DEFINE r == <<>>
               w == [view[v] EXCEPT !.screen = r]
               x == [w EXCEPT !.timer = FALSE]
    <2>1. \/ Closes(v, w)
          \/ view[v].ws = None /\ Connect(v, x, sock) /\ UNCHANGED <<kind, lazy, out, unseen>>
      BY <1>5 DEF Resync
    <2>2. r \in Seq(1..MaxOutput) /\ r = <<>>
      OBVIOUS
    <2> HIDE DEF r
    <2>3. /\ w \in ViewStates /\ w.ws = view[v].ws /\ w.timer = view[v].timer /\ w.screen = r
          /\ w.again = view[v].again /\ w.scratch = view[v].scratch
      BY <1>1, <2>2 DEF ViewStates
    <2>4. x \in ViewStates /\ x.again = w.again /\ ~x.timer /\ x.scratch = w.scratch /\ x.screen = r
      BY <2>3 DEF ViewStates
    <2> HIDE DEF w, x
    <2> QED BY <2>1, <2>2, <2>3, <2>4, ClosesKeeps, FreshConnectKeeps
  <1>6. CASE Rebuild(v)
    <2> DEFINE w == [view[v] EXCEPT !.scratch = TRUE, !.again = TRUE]
    <2>1. Closes(v, w)
      BY <1>6 DEF Rebuild
    <2>2. /\ w \in ViewStates /\ w.ws = view[v].ws /\ w.timer = view[v].timer
          /\ w.screen = view[v].screen /\ w.scratch
      BY <1>1 DEF ViewStates
    <2> HIDE DEF w
    <2> QED BY <2>1, <2>2, ClosesKeeps
  <1>7. CASE Refocus(v)
    <2> DEFINE w == [view[v] EXCEPT !.timer = FALSE]
               x == [view[v] EXCEPT !.again = TRUE]
    <2>1. /\ \/ view[v].ws = None /\ Connect(v, w, sock)
             \/ /\ view[v].ws # None /\ sock[view[v].ws].client = "closing"
                /\ view' = [view EXCEPT ![v] = x] /\ UNCHANGED sock
          /\ UNCHANGED <<kind, lazy, out, unseen>>
      <3>1. \/ view[v].ws = None /\ Connect(v, w, sock)
            \/ /\ view[v].ws # None /\ sock[view[v].ws].client = "closing"
               /\ view' = [view EXCEPT ![v].again = TRUE] /\ UNCHANGED sock
        BY <1>7 DEF Refocus
      <3>2. [view EXCEPT ![v].again = TRUE] = [view EXCEPT ![v] = x]
        BY WinTyped
      <3>3. UNCHANGED <<kind, lazy, out, unseen>>
        BY <1>7 DEF Refocus
      <3> QED BY <3>1, <3>2, <3>3
    <2>2. w \in ViewStates /\ w.again = view[v].again /\ ~w.timer /\ w.scratch = view[v].scratch /\ w.screen = view[v].screen
      BY <1>1 DEF ViewStates
    <2>3. /\ x \in ViewStates /\ x.ws = view[v].ws /\ x.timer = view[v].timer
          /\ x.scratch = view[v].scratch /\ x.screen = view[v].screen
          /\ x.awaiting = view[v].awaiting /\ x.preserve = view[v].preserve
      BY <1>1 DEF ViewStates
    <2> HIDE DEF w, x
    <2>4. CASE view[v].ws = None /\ Connect(v, w, sock)
      BY <2>1, <2>2, <2>4, FreshConnectKeeps
    <2>5. CASE /\ view[v].ws # None /\ sock[view[v].ws].client = "closing"
               /\ view' = [view EXCEPT ![v] = x] /\ UNCHANGED sock
      BY <2>1, <2>3, <2>5, ViewKeeps
    <2> QED BY <2>1, <2>4, <2>5
  <1> QED BY <1>2, <1>3, <1>4, <1>5, <1>6, <1>7

LEMMA WinNext ==
  ASSUME "hasty" \notin Faults, WinInv, [Next]_vars
  PROVE  WinInv'
PROOF
  <1>1. CASE UNCHANGED vars
    BY <1>1 DEF vars, WinInv, LazyInv
  <1>2. CASE Output \/ Repaints
    BY <1>2, OutputKeeps
  <1>3. ASSUME NEW s \in DOMAIN sock, Server(s) \/ Client(s) \/ Stalls(s) \/ Drop(s) PROVE WinInv'
    <2>1. s \in 1..Len(sock)
      BY WinTyped
    <2> QED BY <1>3, <2>1, AcceptKeeps, AcceptStartsKeeps, PumpKeeps, EndedKeeps, DropKeeps,
               MessageKeeps, OnCloseKeeps DEF Server, Client
  <1>4. ASSUME NEW v \in Views,
               TimerFires(v) \/ Activate(v) \/ Deactivate(v) \/ Resync(v) \/ Rebuild(v) \/ Refocus(v)
        PROVE  WinInv'
    BY <1>4, ViewStepKeeps
  <1> QED BY <1>1, <1>2, <1>3, <1>4 DEF Next

LEMMA WinAlways ==
  ASSUME "hasty" \notin Faults
  PROVE  Spec => []WinInv
PROOF
  <1>1. WinInv /\ [Next]_vars => WinInv'
    BY WinNext
  <1> QED BY <1>1, WinInit, PTL DEF Spec

-----------------------------------------------------------------------------
(* What the runs check *)

(* A sequence ends with the chunks at + 1 to o, and no other is that late. *)
Whole(coming, at, o) ==
  LET old == Len(coming) - (o - at)
  IN /\ old >= 0
     /\ \A k \in DOMAIN coming : IF k <= old THEN coming[k] <= at
                                 ELSE coming[k] = at + (k - old)

LEMMA Widen ==
  ASSUME NEW A, NEW B, A \subseteq B, NEW s \in Seq(A)
  PROVE  s \in Seq(B)
OBVIOUS

LEMMA NoneIs ==
  ASSUME NEW E
  PROVE  <<>> \in Seq(E) /\ Len(<<>>) = 0
OBVIOUS

LEMMA JoinThree ==
  ASSUME NEW E, NEW x \in Seq(E), NEW y \in Seq(E), NEW z \in Seq(E), NEW whole,
         whole = x \o (y \o z)
  PROVE  /\ DOMAIN whole = 1..(Len(x) + Len(y) + Len(z)) /\ Len(whole) = Len(x) + Len(y) + Len(z)
         /\ \A t \in 1..Len(x) : whole[t] = x[t]
         /\ \A t \in 1..Len(y) : whole[Len(x) + t] = y[t]
         /\ \A t \in 1..Len(z) : whole[Len(x) + Len(y) + t] = z[t]
         /\ Len(x) \in Nat /\ Len(y) \in Nat /\ Len(z) \in Nat
PROOF
  <1> DEFINE rest == y \o z
             l == Len(x)
             m == Len(y)
             n == Len(z)
  <1>1. /\ rest \in Seq(E) /\ Len(rest) = m + n
        /\ \A t \in 1..m : rest[t] = y[t]
        /\ \A t \in 1..n : rest[m + t] = z[t]
    BY ONLY y \in Seq(E), z \in Seq(E), JoinTwo
  <1>9. rest \in Seq(E)
    BY <1>1
  <1>2. l \in Nat /\ m \in Nat /\ n \in Nat /\ whole = x \o rest
    OBVIOUS
  <1> HIDE DEF rest
  <1> HIDE DEF l
  <1>3. /\ x \o rest \in Seq(E) /\ Len(x \o rest) = l + Len(rest)
        /\ \A t \in 1..l : (x \o rest)[t] = x[t]
        /\ \A t \in 1..Len(rest) : (x \o rest)[l + t] = rest[t]
    BY ONLY <1>9, x \in Seq(E), JoinTwo DEF l
  <1>4. DOMAIN whole = 1..Len(whole)
    BY <1>2, <1>3
  <1>5. /\ Len(whole) = l + (m + n)
        /\ \A t \in 1..l : whole[t] = x[t]
        /\ \A t \in 1..(m + n) : whole[l + t] = rest[t]
    BY ONLY <1>1, <1>2, <1>3
  <1> HIDE DEF l, m, n
  <1>6. ASSUME NEW t \in 1..m PROVE whole[l + t] = y[t]
    <2>1. t \in 1..(m + n)
      BY <1>2
    <2> QED BY <1>1, <1>5, <2>1
  <1>7. ASSUME NEW t \in 1..n PROVE whole[l + m + t] = z[t]
    <2>1. m + t \in 1..(m + n) /\ l + (m + t) = l + m + t
      BY <1>2
    <2>2. whole[l + (m + t)] = rest[m + t] /\ rest[m + t] = z[t]
      BY ONLY <1>1, <1>5, <2>1, t \in 1..n
    <2> QED BY ONLY <2>1, <2>2
  <1>8. Len(whole) = l + m + n /\ DOMAIN whole = 1..(l + m + n)
    BY <1>2, <1>4, <1>5
  <1> QED BY ONLY <1>2, <1>5, <1>6, <1>7, <1>8 DEF l, m, n

(* What comes when a view waits for the replay r. *)
(* The replay `first`, then the chunks base + 2 to upper. *)
AfterReplay(first, most, rest, base, many, mark, upper) ==
  /\ base + 1 = mark /\ base + many + Len(rest) = upper
  /\ Len(most) = Len(first) + (many - 1)
  /\ \A k \in 1..Len(first) : most[k] = first[k] /\ first[k] <= mark
  /\ \A k \in 2..many : most[Len(first) + (k - 1)] = base + k
  /\ \A k \in 1..Len(rest) : rest[k] = base + many + k

LEMMA AwaitedWhole ==
  ASSUME NEW E, NEW first \in Seq(E), NEW most \in Seq(E), NEW rest \in Seq(E), NEW base \in Nat,
         NEW many \in Nat \ {0}, NEW mark \in Nat, NEW upper \in Nat,
         AfterReplay(first, most, rest, base, many, mark, upper),
         NEW none \in Seq(E), Len(none) = 0, NEW whole, whole = none \o (most \o rest)
  PROVE  Whole(whole, mark, upper)
PROOF
  <1> USE DEF AfterReplay
  <1> DEFINE c == Len(first)
             b == Len(most)
             m == Len(rest)
             old == Len(whole) - (upper - mark)
  <1>1. /\ DOMAIN whole = 1..(b + m) /\ Len(whole) = b + m
        /\ \A t \in 1..b : whole[t] = most[t]
        /\ \A t \in 1..m : whole[b + t] = rest[t]
        /\ b \in Nat /\ m \in Nat /\ c \in Nat
    <2>1. none \in Seq(E) /\ Len(none) = 0 /\ whole = none \o (most \o rest) /\ c \in Nat
      OBVIOUS
    <2> HIDE DEF c
    <2>2. /\ DOMAIN whole = 1..(Len(none) + b + m) /\ Len(whole) = Len(none) + b + m
          /\ \A t \in 1..b : whole[Len(none) + t] = most[t]
          /\ \A t \in 1..m : whole[Len(none) + b + t] = rest[t]
          /\ b \in Nat /\ m \in Nat
      BY ONLY <2>1, most \in Seq(E), rest \in Seq(E), JoinThree
    <2>3. 0 + b + m = b + m /\ (\A t \in 1..b : 0 + t = t) /\ (\A t \in 1..m : 0 + b + t = b + t)
      BY <2>2
    <2> HIDE DEF b, m
    <2> QED BY ONLY <2>1, <2>2, <2>3
  <1>2. b = c + (many - 1) /\ base + many + m = upper
    OBVIOUS
  <1>3. \A k \in 1..c : most[k] = first[k] /\ first[k] <= mark
    OBVIOUS
  <1>4. \A k \in 2..many : most[c + (k - 1)] = base + k
    OBVIOUS
  <1>5. \A k \in 1..m : rest[k] = base + many + k
    OBVIOUS
  <1> HIDE DEF c, b, m, old
  <1>6. old = c
    <2>1. base + 1 = mark
      OBVIOUS
    <2>2. upper - mark = (many - 1) + m /\ Len(whole) = c + ((many - 1) + m)
      BY <1>1, <1>2, <2>1
    <2> QED BY ONLY <1>1, <2>2, many \in Nat \ {0} DEF old
  <1>7. ASSUME NEW k \in 1..(b + m)
        PROVE  IF k <= old THEN whole[k] <= mark ELSE whole[k] = mark + (k - old)
    <2>1. CASE k <= c
      <3>1. k \in 1..c /\ k \in 1..b
        BY <1>1, <1>2, <2>1
      <3> QED BY <1>1, <1>3, <1>6, <2>1, <3>1
    <2>2. CASE ~(k <= c) /\ k <= b
      <3> DEFINE i == (k - c) + 1
      <3>1. i \in 2..many /\ c + (i - 1) = k /\ k \in 1..b /\ base + i = mark + (k - c)
        BY <1>1, <1>2, <2>2
      <3> HIDE DEF i
      <3>2. whole[k] = base + i
        BY <1>1, <1>4, <3>1
      <3> QED BY <1>6, <2>2, <3>1, <3>2
    <2>3. CASE ~(k <= b)
      <3> DEFINE i == k - b
      <3>1. i \in 1..m /\ b + i = k /\ base + many + i = mark + (k - c) /\ ~(k <= c)
        BY <1>1, <1>2, <2>3
      <3> HIDE DEF i
      <3>2. whole[k] = base + many + i
        BY <1>1, <1>5, <3>1
      <3> QED BY <1>6, <3>1, <3>2
    <2> QED BY <2>1, <2>2, <2>3
  <1>8. old >= 0
    BY <1>1, <1>6
  <1> QED BY <1>1, <1>7, <1>8 DEF Whole, old

(* What is shown and what comes after. *)
LEMMA ShownWhole ==
  ASSUME NEW D, NEW shown \in Seq(D), NEW flat \in Seq(D), NEW q \in Seq(D), NEW d \in Nat,
         NEW n \in Nat, NEW at \in Nat, NEW o \in Nat, d + n + Len(q) = o,
         Ends(shown, at, d), Len(flat) = n,
         \A k \in 1..n : flat[k] = d + k,
         \A k \in 1..Len(q) : q[k] = d + n + k,
         NEW coming, coming = shown \o (flat \o q)
  PROVE  Whole(coming, at, o)
PROOF
  <1> DEFINE a == Len(shown)
             m == Len(q)
             old == Len(coming) - (o - at)
  <1>1. /\ DOMAIN coming = 1..(a + n + m) /\ Len(coming) = a + n + m
        /\ \A t \in 1..a : coming[t] = shown[t]
        /\ \A t \in 1..n : coming[a + t] = flat[t]
        /\ \A t \in 1..m : coming[a + n + t] = q[t]
        /\ a \in Nat /\ m \in Nat
    <2>1. Len(flat) = n
      OBVIOUS
    <2>2. /\ DOMAIN coming = 1..(a + Len(flat) + m) /\ Len(coming) = a + Len(flat) + m
          /\ \A t \in 1..a : coming[t] = shown[t]
          /\ \A t \in 1..Len(flat) : coming[a + t] = flat[t]
          /\ \A t \in 1..m : coming[a + Len(flat) + t] = q[t]
          /\ a \in Nat /\ m \in Nat
      BY ONLY shown \in Seq(D), flat \in Seq(D), q \in Seq(D), coming = shown \o (flat \o q), JoinThree
    <2> QED BY ONLY <2>1, <2>2
  <1>2. /\ at <= d /\ d - at <= a
        /\ \A j \in 1..a : IF j <= a - (d - at) THEN shown[j] <= at
                           ELSE shown[j] = at + (j - (a - (d - at)))
    BY DEF Ends
  <1>3. \A k \in 1..m : q[k] = d + n + k
    OBVIOUS
  <1>4. d + n + m = o
    OBVIOUS
  <1> HIDE DEF a, m, old
  <1>5. old = a - (d - at) /\ old >= 0
    BY <1>1, <1>2, <1>4 DEF old
  <1>6. ASSUME NEW k \in 1..(a + n + m)
        PROVE  IF k <= old THEN coming[k] <= at ELSE coming[k] = at + (k - old)
    <2>1. CASE k <= a
      <3>1. k \in 1..a
        BY <1>1, <2>1
      <3> QED BY <1>1, <1>2, <1>5, <3>1
    <2>2. CASE ~(k <= a) /\ k <= a + n
      <3> DEFINE i == k - a
      <3>1. i \in 1..n /\ a + i = k /\ ~(k <= old) /\ d + i = at + (k - old)
        BY <1>1, <1>2, <1>5, <2>2
      <3> HIDE DEF i
      <3>2. coming[k] = d + i
        BY <1>1, <3>1
      <3> QED BY <3>1, <3>2
    <2>3. CASE ~(k <= a + n)
      <3> DEFINE i == k - (a + n)
      <3>1. i \in 1..m /\ a + n + i = k /\ ~(k <= old) /\ d + n + i = at + (k - old)
        BY <1>1, <1>2, <1>5, <2>3
      <3> HIDE DEF i
      <3>2. coming[k] = d + n + i
        BY <1>1, <1>3, <3>1
      <3> QED BY <3>1, <3>2
    <2> QED BY <2>1, <2>2, <2>3
  <1> QED BY <1>1, <1>5, <1>6 DEF Whole, old

(* Of one connection, what is on its way after what is shown. *)
LEMMA FlowWhole ==
  ASSUME NEW c \in Connections, NEW w \in ViewStates, NEW d \in Nat, NEW o \in Nat, NEW u, NEW kd,
         Flows(c, w, d, o, u, kd), c.server = "attached", ~c.over,
         NEW coming, coming = (IF w.awaiting THEN <<>> ELSE w.screen) \o (FlattenSeq(c.wire) \o c.queue)
  PROVE  Whole(coming, c.at, o)
PROOF
  <1> DEFINE n == Len(c.wire)
             q == c.queue
             flat == FlattenSeq(c.wire)
             at == c.at
             r == c.wire[1]
             D == 0..MaxOutput
  <1>1. q \in Seq(D) /\ c.wire \in Seq(Messages) /\ at \in Nat /\ n \in Nat
    BY WindowConstants DEF Connections
  <1>2. w.screen \in Seq(D)
    <2>1. w.screen \in Seq(1..MaxOutput) /\ 1..MaxOutput \subseteq D
      BY WindowConstants DEF ViewStates
    <2> HIDE DEF D
    <2> QED BY <2>1, Widen
  <1>3. c.wire \in Seq(Seq(D))
    <2>1. <<Close>> \in Seq(D) /\ 1..MaxOutput \subseteq D
      BY WindowConstants DEF Close
    <2>2. \A m \in Seq(1..MaxOutput) : m \in Seq(D)
      <3> HIDE DEF D
      <3> QED BY <2>1, Widen
    <2>3. Messages \subseteq Seq(D)
      BY <2>1, <2>2 DEF Messages
    <2> HIDE DEF D
    <2> QED BY <1>1, <2>3, Widen
  <1>4. flat \in Seq(D)
    BY <1>3, FlattenTypes
  <1>5. d + n + Len(q) = o /\ \A k \in 1..Len(q) : q[k] = d + n + k
    BY DEF Flows, InQueue
  <1>6. \A k \in 1..n : (w.awaiting /\ k = 1) \/ c.wire[k] = <<d + k>>
    BY DEF Flows, OnWire
  <1>7. ASSUME c.wire # <<>>
        PROVE  /\ n \in Nat \ {0} /\ r \in Seq(D)
               /\ Len(flat) = Len(r) + (n - 1)
               /\ \A k \in 1..Len(r) : flat[k] = r[k]
               /\ \A k \in 2..n : flat[Len(r) + (k - 1)] = d + k
    <2> DEFINE g == [k \in 2..n |-> d + k]
    <2>1. \A k \in 2..n : k \in 1..n /\ k # 1
      BY <1>1
    <2>2. \A k \in 2..n : c.wire[k] = <<g[k]>>
      BY <1>6, <2>1
    <2>3. n \in Nat \ {0} /\ r \in Seq(D)
      <3>1. n \in Nat \ {0} /\ 1 \in 1..n
        BY <1>1, <1>7
      <3> HIDE DEF D
      <3> QED BY <1>3, <3>1, ElementOf
    <2>4. \A k \in 2..n : g[k] = d + k
      OBVIOUS
    <2> HIDE DEF g, D
    <2>5. /\ Len(flat) = Len(r) + (n - 1)
          /\ \A k \in 1..Len(r) : flat[k] = r[k]
          /\ \A k \in 2..n : flat[Len(r) + (k - 1)] = g[k]
      BY <1>3, <1>7, <2>2, FlattenOnes, ZenonT(60)
    <2> QED BY <2>3, <2>4, <2>5
  <1>8. CASE w.awaiting
    <2>1. d + 1 = at /\ c.wire # <<>> /\ Replays(c, r, u, kd)
      BY <1>8 DEF Flows, Awaits
    <2>2. \A k \in 1..Len(r) : r[k] <= at
      <3>1. CASE c.keep
        BY <2>1, <3>1 DEF Replays
      <3>2. CASE ~c.keep
        <4>1. PICK i \in 1..at : r = Upto(i)
          BY <2>1, <3>2 DEF Replays
        <4>2. i \in 1..MaxOutput
          BY <4>1, WindowConstants DEF Connections
        <4>3. Len(r) = i /\ \A k \in 1..i : r[k] = k
          BY <4>1, <4>2, UptoIs
        <4> QED BY <1>1, <4>3
      <3> QED BY <3>1, <3>2
    <2> DEFINE e == <<>>
    <2>3. coming = e \o (flat \o q) /\ e \in Seq(D) /\ Len(e) = 0
      <3>1. coming = e \o (flat \o q)
        BY <1>8
      <3>2. e \in Seq(D) /\ Len(e) = 0
        BY ONLY NoneIs
      <3> QED BY ONLY <3>1, <3>2
    <2>4. \A k \in 1..Len(r) : flat[k] = r[k] /\ r[k] <= at
      BY <1>7, <2>1, <2>2
    <2>5. /\ n \in Nat \ {0} /\ r \in Seq(D) /\ Len(flat) = Len(r) + (n - 1)
          /\ \A k \in 2..n : flat[Len(r) + (k - 1)] = d + k
      BY <1>7, <2>1
    <2> HIDE DEF n, q, flat, at, r, D, e
    <2>7. d + 1 = at /\ q \in Seq(D) /\ at \in Nat
      BY ONLY <1>1, <2>1
    <2>8. AfterReplay(r, flat, q, d, n, at, o)
      BY ONLY <1>5, <2>4, <2>5, <2>7 DEF AfterReplay
    <2>6. Whole(coming, at, o)
      BY ONLY <1>4, <2>3, <2>5, <2>7, <2>8, d \in Nat, o \in Nat, AwaitedWhole
    <2> QED BY <2>6 DEF at
  <1>9. CASE ~w.awaiting
    <2>1. Ends(w.screen, at, d) /\ coming = w.screen \o (flat \o q)
      BY <1>9 DEF Flows, Goes
    <2>2. Len(flat) = n /\ \A k \in 1..n : flat[k] = d + k
      <3>1. CASE c.wire = <<>>
        <4>1. flat = <<>> /\ n = 0
          BY <3>1, FlattenEmpty
        <4> QED BY <4>1
      <3>2. CASE c.wire # <<>>
        <4>1. r = <<d + 1>>
          <5>1. 1 \in 1..n
            BY <1>7, <3>2
          <5> QED BY <1>6, <1>9, <5>1
        <4>2. Len(r) = 1 /\ r[1] = d + 1
          BY <4>1
        <4>3. /\ n \in Nat \ {0} /\ Len(flat) = Len(r) + (n - 1)
              /\ \A k \in 1..Len(r) : flat[k] = r[k]
              /\ \A k \in 2..n : flat[Len(r) + (k - 1)] = d + k
          BY <1>7, <3>2
        <4> HIDE DEF n, flat, r
        <4>4. ASSUME NEW k \in 1..n PROVE flat[k] = d + k
          <5>1. CASE k = 1
            BY ONLY <4>2, <4>3, <5>1
          <5>2. CASE k # 1
            <6>1. k \in 2..n /\ 1 + (k - 1) = k
              BY <1>1, <5>2
            <6> QED BY ONLY <4>2, <4>3, <6>1
          <5> QED BY <5>1, <5>2
        <4>5. Len(flat) = n
          BY <4>2, <4>3
        <4> QED BY <4>4, <4>5
      <3> QED BY <3>1, <3>2
    <2> HIDE DEF n, q, flat, at, D
    <2>3. Whole(coming, at, o)
      BY ONLY <1>1, <1>2, <1>4, <1>5, <2>1, <2>2, d \in Nat, o \in Nat, ShownWhole, ZenonT(30)
    <2> QED BY <2>3 DEF at
  <1> QED BY <1>8, <1>9

(* attach_client registers the queue in the step that reads the replay, and each
   chunk is put in every queue: a window whose backlog has not overflowed is
   sent every chunk since, once and in order, if no view is shown again while
   its reconnection timer runs, or resynced while its connection is closing. *)
THEOREM StreamAlwaysWhole ==
  ASSUME "hasty" \notin Faults
  PROVE  Spec => []StreamWhole
PROOF
  <1>1. WinInv => StreamWhole
    <2> SUFFICES ASSUME WinInv, NEW s \in Attached,
                        sock[s].link, sock[s].client = "open", ~sock[s].over
                 PROVE  Whole((IF view[sock[s].view].awaiting THEN <<>> ELSE view[sock[s].view].screen)
                                \o OnItsWay(s), sock[s].at, out)
      BY DEF StreamWhole, Whole
    <2>1. s \in 1..Len(sock) /\ sock[s].server = "attached" /\ out \in Nat
      BY WinTyped DEF Attached
    <2>2. sock[s] \in Connections /\ view[sock[s].view] \in ViewStates
      BY <2>1, WinTyped
    <2>3. PICK d \in Nat : Flows(sock[s], view[sock[s].view], d, out, unseen, kind)
      BY <2>1 DEF WinInv, Good, Carried
    <2> DEFINE w == view[sock[s].view]
               coming == (IF w.awaiting THEN <<>> ELSE w.screen) \o OnItsWay(s)
    <2>4. coming = (IF w.awaiting THEN <<>> ELSE w.screen)
                     \o (FlattenSeq(sock[s].wire) \o sock[s].queue)
      BY DEF OnItsWay
    <2> HIDE DEF w, coming
    <2>5. Whole(coming, sock[s].at, out)
      <3>1. w \in ViewStates /\ Flows(sock[s], w, d, out, unseen, kind) /\ ~sock[s].over
        BY <2>2, <2>3 DEF w
      <3> QED BY ONLY <2>1, <2>2, <2>4, <3>1, d \in Nat, FlowWhole
    <2> QED BY <2>5 DEF w, coming
  <1> QED BY <1>1, WinAlways, PTL

(* onmessage and attach_client: no view shows a chunk twice or out of order, and an
   agent's view leaves none out but those an attach printed after it had read
   the replay, under the same condition. *)
THEOREM ScreensAreReplays ==
  ASSUME "hasty" \notin Faults
  PROVE  Spec => []ScreenReplays
PROOF
  <1>1. WinInv => ScreenReplays
    <2> SUFFICES ASSUME WinInv, NEW v \in Views
                 PROVE  LET shown == view[v].screen
                        IN /\ \A k \in 1..(Len(shown) - 1) : shown[k] < shown[k + 1]
                           /\ kind = "agent" /\ shown # <<>>
                                => 1..Last(shown) \subseteq ToSet(shown) \cup unseen
      BY DEF ScreenReplays
    <2> DEFINE shown == view[v].screen
               n == Len(shown)
    <2>1. shown \in Seq(1..MaxOutput) /\ n \in Nat /\ DOMAIN shown = 1..n
      BY WinTyped DEF ViewStates
    <2>2. Sound(shown, out, unseen, kind)
      BY DEF WinInv, Good
    <2> HIDE DEF shown
    <2>3. \A k \in 1..(n - 1) : shown[k] < shown[k + 1]
      <3> SUFFICES ASSUME NEW k \in 1..(n - 1) PROVE shown[k] < shown[k + 1]
        OBVIOUS
      <3>1. k \in 1..n /\ k + 1 \in 1..n /\ k < k + 1
        BY <2>1
      <3> QED BY <2>2, <3>1 DEF Sound
    <2>4. ASSUME kind = "agent", shown # <<>> PROVE 1..Last(shown) \subseteq ToSet(shown) \cup unseen
      <3>1. n \in 1..n /\ Last(shown) = shown[n]
        BY <2>1, <2>4 DEF Last
      <3>2. Covers(shown, unseen, Last(shown))
        BY <2>2, <2>4, <3>1 DEF Sound
      <3> QED BY <2>1, <3>2 DEF Covers, ToSet
    <2> QED BY <2>3, <2>4 DEF shown
  <1> QED BY <1>1, WinAlways, PTL


-----------------------------------------------------------------------------
(* Types, whatever people do *)

Neat(c, o) ==
  /\ Len(c.queue) <= MaxItems /\ c.at <= o
  /\ c.over => c.queue \in {<<>>, <<Close>>}

Fits(S, V, o) ==
  /\ S \in Seq(Connections) /\ V \in [Views -> ViewStates]
  /\ \A s \in 1..Len(S) : Neat(S[s], o)
  /\ \A v \in Views : V[v].ws <= Len(S)

TypeInv ==
  /\ Fits(sock, view, out)
  /\ out \in 1..MaxOutput /\ unseen \subseteq 1..out /\ painted \subseteq 1..out
  /\ kind \in {"shell", "agent"} /\ lazy \in BOOLEAN /\ missed \in BOOLEAN /\ repaint \in BOOLEAN
  /\ troubles \in 0..MaxTroubles

LEMMA FitsTyped ==
  ASSUME NEW S, NEW V, NEW o, Fits(S, V, o)
  PROVE  /\ S \in Seq(Connections) /\ V \in [Views -> ViewStates]
         /\ DOMAIN S = 1..Len(S) /\ Len(S) \in Nat
         /\ \A s \in 1..Len(S) : S[s] \in Connections /\ S[s].view \in Views /\ Neat(S[s], o)
         /\ \A v \in Views : V[v] \in ViewStates /\ V[v].ws \in 0..Len(S)
PROOF
  <1>1. S \in Seq(Connections) /\ V \in [Views -> ViewStates] /\ DOMAIN S = 1..Len(S) /\ Len(S) \in Nat
    BY DEF Fits
  <1>2. \A s \in 1..Len(S) : S[s] \in Connections /\ S[s].view \in Views
    BY <1>1, ViewOf
  <1>3. \A v \in Views : V[v] \in ViewStates /\ V[v].ws \in Nat /\ V[v].ws <= Len(S)
    BY <1>1 DEF Fits, ViewStates
  <1> QED BY <1>1, <1>2, <1>3 DEF Fits

(* A connection, a view, or both change, or there is one connection more. *)
LEMMA FitsChanged ==
  ASSUME NEW S, NEW V, NEW o, Fits(S, V, o), NEW s \in 1..Len(S), NEW e \in Connections, Neat(e, o)
  PROVE  Fits([S EXCEPT ![s] = e], V, o)
PROOF
  <1> DEFINE T == [S EXCEPT ![s] = e]
  <1>1. /\ T \in Seq(Connections) /\ Len(T) = Len(S)
        /\ \A t \in 1..Len(S) : T[t] = IF t = s THEN e ELSE S[t]
    BY FitsTyped, ChangeOne
  <1> HIDE DEF T
  <1>2. Fits(T, V, o)
    BY <1>1 DEF Fits
  <1> QED BY <1>2 DEF T

LEMMA FitsViewed ==
  ASSUME NEW S, NEW V, NEW o, Fits(S, V, o), NEW v \in Views, NEW w \in ViewStates, w.ws <= Len(S)
  PROVE  Fits(S, [V EXCEPT ![v] = w], o)
PROOF
  <1> DEFINE X == [V EXCEPT ![v] = w]
  <1>1. X \in [Views -> ViewStates] /\ \A x \in Views : X[x] = IF x = v THEN w ELSE V[x]
    BY FitsTyped
  <1> HIDE DEF X
  <1>2. Fits(S, X, o)
    BY <1>1 DEF Fits
  <1> QED BY <1>2 DEF X

LEMMA FitsConnected ==
  ASSUME NEW S, NEW o \in Nat, Fits(S, view, o), NEW v \in Views, NEW w \in ViewStates, Connect(v, w, S)
  PROVE  Fits(sock', view', o)
PROOF
  <1>1. PICK keep \in BOOLEAN :
          /\ sock' = Append(S, NewSocket(v, keep))
          /\ view' = [view EXCEPT ![v] = [w EXCEPT !.ws = Len(S) + 1, !.awaiting = TRUE, !.preserve = keep]]
    BY DEF Connect
  <1> DEFINE x == [w EXCEPT !.ws = Len(S) + 1, !.awaiting = TRUE, !.preserve = keep]
             c == NewSocket(v, keep)
  <1>2. /\ S \in Seq(Connections) /\ Len(S) \in Nat /\ view \in [Views -> ViewStates]
        /\ \A y \in Views : view[y].ws \in 0..Len(S)
    BY FitsTyped
  <1>3. c \in Connections /\ Neat(c, o)
    <2>1. <<>> \in Seq(Messages) /\ <<>> \in Seq(0..MaxOutput) /\ 0 \in 0..MaxOutput /\ Len(<<>>) = 0 /\ 0 <= MaxItems
      BY WindowConstants
    <2> QED BY <2>1 DEF NewSocket, Connections, Neat
  <1>4. x \in ViewStates /\ x.ws = Len(S) + 1
    <2> DEFINE n == Len(S) + 1
    <2>1. n \in Nat /\ x = [w EXCEPT !.ws = n, !.awaiting = TRUE, !.preserve = keep]
      BY <1>2
    <2> HIDE DEF n, x
    <2>2. x \in ViewStates /\ x.ws = n
      BY <2>1 DEF ViewStates
    <2> QED BY <2>2 DEF n
  <1>5. sock' = Append(S, c) /\ view' = [view EXCEPT ![v] = x]
    BY <1>1
  <1> HIDE DEF x, c
  <1>6. /\ sock' \in Seq(Connections) /\ Len(sock') = Len(S) + 1
        /\ \A t \in 1..(Len(S) + 1) : sock'[t] = IF t <= Len(S) THEN S[t] ELSE c
    BY <1>2, <1>3, <1>5, AddOne
  <1>7. \A t \in 1..Len(sock') : Neat(sock'[t], o)
    <2> SUFFICES ASSUME NEW t \in 1..(Len(S) + 1) PROVE Neat(sock'[t], o)
      BY <1>6
    <2>1. CASE t <= Len(S)
      <3>1. t \in 1..Len(S) /\ sock'[t] = S[t]
        BY <1>2, <1>6, <2>1
      <3> QED BY <3>1 DEF Fits
    <2>2. CASE ~(t <= Len(S))
      BY <1>3, <1>6, <2>2
    <2> QED BY <2>1, <2>2
  <1>8. \A y \in Views : view'[y].ws <= Len(sock')
    BY <1>2, <1>4, <1>5, <1>6
  <1>9. view' \in [Views -> ViewStates]
    BY <1>2, <1>4, <1>5
  <1> QED BY <1>6, <1>7, <1>8, <1>9 DEF Fits

LEMMA PutNeat ==
  ASSUME NEW c \in Connections, NEW o \in Nat, Neat(c, o), o + 1 <= MaxOutput
  PROVE  Put(c, o + 1) \in Connections /\ Neat(Put(c, o + 1), o + 1)
PROOF
  <1>1. c.queue \in Seq(0..MaxOutput) /\ o + 1 \in 0..MaxOutput /\ c.at \in Nat
    BY WindowConstants DEF Connections
  <1>2. CASE c.over
    <2>1. Put(c, o + 1) = c
      BY <1>2 DEF Put
    <2>2. c.at <= o + 1
      BY <1>1 DEF Neat
    <2>3. Neat(c, o + 1)
      BY <2>2 DEF Neat
    <2> QED BY <2>1, <2>3
  <1>3. CASE ~c.over /\ Full(c)
    <2> DEFINE p == <<Close>>
               f == [c EXCEPT !.over = TRUE, !.queue = p]
    <2>1. Put(c, o + 1) = f
      BY <1>3 DEF Put
    <2>2. p \in Seq(0..MaxOutput) /\ Len(p) <= MaxItems /\ p = <<Close>>
      BY WindowConstants DEF Close
    <2> HIDE DEF p
    <2>3. f \in Connections /\ f.queue = p /\ f.at = c.at
      BY <2>2 DEF Connections
    <2>4. c.at <= o + 1
      BY <1>1 DEF Neat
    <2> HIDE DEF f
    <2>5. Neat(f, o + 1)
      BY ONLY <2>2, <2>3, <2>4 DEF Neat
    <2> QED BY <2>1, <2>3, <2>5
  <1>4. CASE ~c.over /\ ~Full(c)
    <2> DEFINE p == Append(c.queue, o + 1)
               f == [c EXCEPT !.queue = p]
    <2>1. Put(c, o + 1) = f
      BY <1>4 DEF Put
    <2>2. p \in Seq(0..MaxOutput) /\ Len(p) = Len(c.queue) + 1 /\ Len(c.queue) \in Nat
      BY <1>1, AddOne
    <2>3. Len(p) <= MaxItems
      BY <1>4, <2>2, WindowConstants DEF Full
    <2> HIDE DEF p
    <2>4. f \in Connections /\ f.queue = p /\ f.at = c.at /\ ~f.over
      BY <1>4, <2>2 DEF Connections
    <2> HIDE DEF f
    <2> QED BY <1>1, <2>1, <2>3, <2>4 DEF Neat
  <1> QED BY <1>2, <1>3, <1>4

LEMMA PrintsFits ==
  ASSUME TypeInv, Prints(out + 1), out < MaxOutput, view' = view
  PROVE  Fits(sock', view', out') /\ out' \in 1..MaxOutput /\ missed' \in BOOLEAN /\ 1..out \subseteq 1..out'
PROOF
  <1>1. out' = out + 1 /\ out \in Nat /\ out + 1 <= MaxOutput /\ out' \in 1..MaxOutput
    BY WindowConstants DEF TypeInv, Prints
  <1>2. Fits(sock, view, out) /\ DOMAIN sock = 1..Len(sock) /\ Len(sock) \in Nat
    BY FitsTyped DEF TypeInv
  <1>3. sock' = [s \in 1..Len(sock) |-> IF s \in Listening THEN Put(sock[s], out + 1) ELSE sock[s]]
    BY <1>2 DEF Prints
  <1>4. ASSUME NEW s \in 1..Len(sock) PROVE sock'[s] \in Connections /\ Neat(sock'[s], out + 1)
    <2>1. sock[s] \in Connections /\ Neat(sock[s], out)
      BY <1>2, FitsTyped
    <2>2. Put(sock[s], out + 1) \in Connections /\ Neat(Put(sock[s], out + 1), out + 1)
      BY <1>1, <2>1, PutNeat
    <2>3. Neat(sock[s], out + 1)
      <3>1. sock[s].at \in Nat
        BY <2>1, WindowConstants DEF Connections
      <3> QED BY <1>1, <2>1, <3>1 DEF Neat
    <2> QED BY <1>3, <2>1, <2>2, <2>3
  <1>5. sock' \in Seq(Connections) /\ Len(sock') = Len(sock)
    <2>1. sock' \in [1..Len(sock) -> Connections]
      BY <1>3, <1>4
    <2> QED BY <1>2, <2>1, IsSequence
  <1>6. Fits(sock', view', out')
    BY <1>1, <1>2, <1>4, <1>5 DEF Fits
  <1>7. missed' \in BOOLEAN
    BY DEF TypeInv, Prints
  <1> QED BY <1>1, <1>6, <1>7

(* A step of one connection, which stays what a connection is. *)
LEMMA OneFits ==
  ASSUME TypeInv, NEW s \in 1..Len(sock), NEW e \in Connections, Neat(e, out),
         sock' = [sock EXCEPT ![s] = e], view' = view, out' = out
  PROVE  Fits(sock', view', out')
BY FitsChanged DEF TypeInv

LEMMA SentFits ==
  ASSUME TypeInv, NEW s \in 1..Len(sock), Pump(s) \/ Stalls(s) \/ Detach(s) \/ Drop(s)
  PROVE  Fits(sock', view', out')
PROOF
  <1> DEFINE c == sock[s]
             q == c.queue
             r == c.wire
             none == <<>>
             sent == Append(r, <<Close>>)
             next == Append(r, <<Head(q)>>)
  <1>1. c \in Connections /\ Neat(c, out) /\ DOMAIN sock = 1..Len(sock) /\ sock \in Seq(Connections)
    BY FitsTyped DEF TypeInv
  <1>2. q \in Seq(0..MaxOutput) /\ r \in Seq(Messages) /\ Len(q) <= MaxItems /\ (c.over => q \in {<<>>, <<Close>>})
    BY <1>1 DEF Connections, Neat
  <1>3. none \in Seq(0..MaxOutput) /\ none \in Seq(Messages) /\ Len(none) <= MaxItems /\ none = <<>>
    BY WindowConstants
  <1>4. sent \in Seq(Messages)
    BY <1>2, MessageTypes, AddOne
  <1>5. c.at <= out /\ view' = view /\ out' = out
    BY <1>1 DEF Neat, Pump, Stalls, Detach, Drop
  <1>6. CASE Pump(s)
    <2>1. q # <<>> /\ sock' = [sock EXCEPT ![s] =
            IF Head(q) = Close THEN [c EXCEPT !.queue = none, !.wire = sent, !.server = "ended"]
            ELSE [c EXCEPT !.queue = Tail(q), !.wire = next]]
      BY <1>6 DEF Pump
    <2>2. /\ Tail(q) \in Seq(0..MaxOutput) /\ Len(Tail(q)) <= MaxItems
          /\ Head(q) \in 0..MaxOutput /\ (q = <<Close>> => Tail(q) = <<>>)
      <3>1. /\ Tail(q) \in Seq(0..MaxOutput) /\ Len(Tail(q)) = Len(q) - 1 /\ Len(q) \in Nat \ {0}
            /\ Head(q) \in 0..MaxOutput
        BY <1>2, <2>1, TakeOne
      <3>2. q = <<Close>> => Tail(q) = <<>>
        OBVIOUS
      <3>3. Len(Tail(q)) <= MaxItems
        BY <1>2, <3>1, WindowConstants
      <3> QED BY <3>1, <3>2, <3>3
    <2>3. Head(q) # Close => next \in Seq(Messages)
      <3>1. Head(q) # Close => Head(q) \in 1..MaxOutput
        BY <2>2, WindowConstants DEF Close
      <3> QED BY <1>2, <3>1, MessageTypes, AddOne
    <2> DEFINE e == [c EXCEPT !.queue = none, !.wire = sent, !.server = "ended"]
               f == [c EXCEPT !.queue = Tail(q), !.wire = next]
    <2>4. sock' = [sock EXCEPT ![s] = IF Head(q) = Close THEN e ELSE f]
      BY <2>1
    <2> HIDE DEF c, none, sent, next, q
    <2>5. e \in Connections /\ Neat(e, out)
      BY ONLY <1>1, <1>3, <1>4, <1>5 DEF Connections, Neat
    <2>6. Head(q) # Close => f \in Connections /\ Neat(f, out)
      <3> DEFINE t == Tail(q)
      <3>1. t \in Seq(0..MaxOutput) /\ Len(t) <= MaxItems /\ (c.over => t \in {<<>>, <<Close>>} \/ q = none)
        BY <1>2, <1>3, <2>2
      <3>2. q # none
        BY <1>3, <2>1
      <3> HIDE DEF t
      <3> QED BY ONLY <1>1, <1>3, <1>5, <2>3, <3>1, <3>2 DEF Connections, Neat, t
    <2> HIDE DEF e, f
    <2> QED BY <1>1, <1>5, <2>4, <2>5, <2>6, OneFits
  <1>7. CASE Stalls(s)
    <2> DEFINE e == [c EXCEPT !.queue = none, !.server = "ended", !.wire = sent]
    <2>1. sock' = [sock EXCEPT ![s] = e]
      BY <1>7 DEF Stalls
    <2> HIDE DEF c, none, sent
    <2>2. e \in Connections /\ Neat(e, out)
      BY ONLY <1>1, <1>3, <1>4, <1>5 DEF Connections, Neat
    <2> HIDE DEF e
    <2> QED BY <1>5, <2>1, <2>2, OneFits
  <1>8. CASE Detach(s)
    <2> DEFINE e == [c EXCEPT !.server = "ended", !.queue = none]
    <2>1. sock' = [sock EXCEPT ![s] = e]
      <3>1. sock' = [sock EXCEPT ![s].server = "ended", ![s].queue = <<>>]
        BY <1>8 DEF Detach
      <3> QED BY <1>1, <3>1
    <2> HIDE DEF c, none
    <2>2. e \in Connections /\ Neat(e, out)
      BY ONLY <1>1, <1>3, <1>5 DEF Connections, Neat
    <2> HIDE DEF e
    <2> QED BY <1>5, <2>1, <2>2, OneFits
  <1>9. CASE Drop(s)
    <2> DEFINE e == [c EXCEPT !.link = FALSE, !.wire = none]
    <2>1. sock' = [sock EXCEPT ![s] = e]
      <3>1. sock' = [sock EXCEPT ![s].link = FALSE, ![s].wire = <<>>]
        BY <1>9 DEF Drop
      <3> QED BY <1>1, <3>1
    <2> HIDE DEF c, none
    <2>2. e \in Connections /\ Neat(e, out)
      BY ONLY <1>1, <1>3, <1>5 DEF Connections, Neat
    <2> HIDE DEF e
    <2> QED BY <1>5, <2>1, <2>2, OneFits
  <1> QED BY <1>6, <1>7, <1>8, <1>9

(* attach_client, when n of the p chunks printed are in the recording. *)
LEMMA AttachFits ==
  ASSUME NEW p \in 1..MaxOutput, NEW n \in 1..p, Fits(sock, view, out), out \in Nat, out <= p,
         NEW s \in 1..Len(sock), sock' = Registered(s, n), view' = view, out' = p
  PROVE  Fits(sock', view', out')
PROOF
  <1> DEFINE c == sock[s]
             r == IF c.keep THEN <<>> ELSE Upto(n)
             m == <<r>>
             e == [c EXCEPT !.server = "attached", !.at = p, !.wire = m]
  <1>1. sock' = [sock EXCEPT ![s] = e] /\ c \in Connections /\ Neat(c, out)
    BY FitsTyped DEF Registered
  <1>2. r \in Messages
    <2>1. n \in 1..MaxOutput
      BY WindowConstants
    <2> QED BY <2>1, MessageTypes
  <1> HIDE DEF r
  <1>3. m \in Seq(Messages) /\ p \in 0..MaxOutput /\ p \in Nat
    BY <1>2, WindowConstants
  <1> HIDE DEF m, c
  <1>4. e \in Connections /\ Neat(e, p)
    <2>1. e \in Connections /\ e.at = p /\ e.over = c.over /\ e.queue = c.queue
      BY ONLY <1>1, <1>3 DEF Connections
    <2>2. p <= p
      BY <1>3
    <2> HIDE DEF e
    <2> QED BY ONLY <1>1, <2>1, <2>2 DEF Neat
  <1>5. Fits(sock, view, p)
    <2>1. \A t \in 1..Len(sock) : Neat(sock[t], p)
      <3> SUFFICES ASSUME NEW t \in 1..Len(sock) PROVE Neat(sock[t], p)
        OBVIOUS
      <3>1. sock[t] \in Connections /\ Neat(sock[t], out)
        BY FitsTyped
      <3>2. sock[t].at \in Nat
        BY <3>1, WindowConstants DEF Connections
      <3> QED BY <1>3, <3>1, <3>2 DEF Neat
    <2> QED BY <2>1 DEF Fits
  <1> HIDE DEF e
  <1>6. Fits([sock EXCEPT ![s] = e], view, p)
    BY <1>4, <1>5, FitsChanged
  <1> QED BY <1>1, <1>6

(* What a view does, or its connection. *)
LEMMA ViewFits ==
  ASSUME TypeInv, NEW v \in Views, NEW w \in ViewStates, w.ws = view[v].ws,
         view' = [view EXCEPT ![v] = w], out' = out,
         sock' = sock \/ \E s \in 1..Len(sock) : \E e \in Connections : Neat(e, out) /\ sock' = [sock EXCEPT ![s] = e]
  PROVE  Fits(sock', view', out')
PROOF
  <1>1. Fits(sock, view, out) /\ sock \in Seq(Connections) /\ w.ws <= Len(sock)
    <2>1. Fits(sock, view, out)
      BY DEF TypeInv
    <2> QED BY <2>1, FitsTyped
  <1>2. Fits(sock', view, out) /\ Len(sock') = Len(sock)
    <2>1. CASE sock' = sock
      BY <1>1, <2>1
    <2>2. ASSUME NEW s \in 1..Len(sock), NEW e \in Connections, Neat(e, out), sock' = [sock EXCEPT ![s] = e]
          PROVE  Fits(sock', view, out) /\ Len(sock') = Len(sock)
      <3>1. Fits(sock', view, out)
        BY <1>1, <2>2, FitsChanged
      <3>2. Len(sock') = Len(sock)
        BY <1>1, <2>2, ChangeOne
      <3> QED BY <3>1, <3>2
    <2> QED BY <2>1, <2>2
  <1>3. Fits(sock', [view EXCEPT ![v] = w], out)
    BY <1>1, <1>2, FitsViewed
  <1> QED BY <1>3

LEMMA OwnTyped ==
  ASSUME TypeInv, NEW v \in Views
  PROVE  /\ view[v] \in ViewStates /\ view[v].ws \in 0..Len(sock) /\ Len(sock) \in Nat
         /\ view[v].ws # None => /\ view[v].ws \in 1..Len(sock) /\ sock[view[v].ws] \in Connections
                                 /\ Neat(sock[view[v].ws], out)
         /\ out \in Nat /\ Fits(sock, view, out) /\ view \in [Views -> ViewStates]
PROOF
  <1>1. Fits(sock, view, out) /\ out \in Nat
    BY WindowConstants DEF TypeInv
  <1>2. view[v] \in ViewStates /\ view[v].ws \in 0..Len(sock) /\ Len(sock) \in Nat /\ view \in [Views -> ViewStates]
    BY <1>1, FitsTyped
  <1>3. view[v].ws # None => view[v].ws \in 1..Len(sock)
    BY <1>2 DEF None
  <1> QED BY <1>1, <1>2, <1>3, FitsTyped

LEMMA ClosesFits ==
  ASSUME TypeInv, NEW v \in Views, NEW w \in ViewStates, w.ws = view[v].ws, Closes(v, w)
  PROVE  Fits(sock', view', out')
PROOF
  <1> DEFINE s == view[v].ws
             c == sock[s]
             e == [c EXCEPT !.client = "closing"]
  <1>1. s \in 1..Len(sock) /\ c \in Connections /\ Neat(c, out) /\ sock \in Seq(Connections)
    BY OwnTyped, FitsTyped DEF Closes
  <1>2. sock' = [sock EXCEPT ![s] = e]
    <2>1. sock' = [sock EXCEPT ![s].client = "closing"]
      BY DEF Closes
    <2> QED BY <1>1, <2>1
  <1>3. view' = [view EXCEPT ![v] = w] /\ out' = out
    BY DEF Closes
  <1> HIDE DEF c
  <1>4. e \in Connections /\ e.queue = c.queue /\ e.at = c.at /\ e.over = c.over
    BY <1>1 DEF Connections
  <1> HIDE DEF e
  <1>5. Neat(e, out)
    BY ONLY <1>1, <1>4 DEF Neat
  <1> HIDE DEF s
  <1>6. \E t \in 1..Len(sock) : \E f \in Connections : Neat(f, out) /\ sock' = [sock EXCEPT ![t] = f]
    BY <1>1, <1>2, <1>4, <1>5
  <1> QED BY <1>3, <1>6, ViewFits

LEMMA MessageFits ==
  ASSUME TypeInv, NEW s \in 1..Len(sock), Message(s)
  PROVE  Fits(sock', view', out')
PROOF
  <1> DEFINE c == sock[s]
             h == Head(c.wire)
             r == Tail(c.wire)
             e == [c EXCEPT !.wire = r]
             w == view[c.view]
             x == Shown(w, h)
  <1>1. /\ c \in Connections /\ c.view \in Views /\ Neat(c, out) /\ w \in ViewStates
        /\ sock \in Seq(Connections) /\ view \in [Views -> ViewStates]
    BY FitsTyped DEF TypeInv
  <1>2. c.wire # <<>> /\ h # <<Close>> /\ out' = out
    BY DEF Message
  <1>3. r \in Seq(Messages) /\ h \in Seq(1..MaxOutput)
    <2>1. c.wire \in Seq(Messages)
      BY <1>1 DEF Connections
    <2>2. r \in Seq(Messages) /\ h \in Messages
      BY <1>2, <2>1, TakeOne
    <2> QED BY <1>2, <2>2, MessageTypes
  <1>4. sock' = [sock EXCEPT ![s] = e]
    <2>1. sock' = [sock EXCEPT ![s].wire = Tail(@)]
      BY DEF Message
    <2> QED BY <1>1, <2>1
  <1>5. view' = [view EXCEPT ![c.view] = x]
    BY <1>1 DEF Message
  <1> HIDE DEF h, r, w
  <1>6. x \in ViewStates /\ x.ws = w.ws
    <2>1. w.screen \o h \in Seq(1..MaxOutput)
      <3>1. w.screen \in Seq(1..MaxOutput)
        BY <1>1 DEF ViewStates
      <3> QED BY <1>3, <3>1, JoinTwo
    <2> QED BY ONLY <1>1, <1>3, <2>1 DEF Shown, ViewStates
  <1> HIDE DEF c, x
  <1>7. e \in Connections /\ e.queue = c.queue /\ e.at = c.at /\ e.over = c.over
    BY ONLY <1>1, <1>3 DEF Connections
  <1> HIDE DEF e
  <1>8. Neat(e, out)
    BY ONLY <1>1, <1>7 DEF Neat
  <1>9. \E t \in 1..Len(sock) : \E f \in Connections : Neat(f, out) /\ sock' = [sock EXCEPT ![t] = f]
    BY <1>4, <1>7, <1>8
  <1>10. x.ws = view[c.view].ws
    BY <1>6 DEF w
  <1> QED BY <1>1, <1>2, <1>5, <1>6, <1>9, <1>10, ViewFits

LEMMA OnCloseFits ==
  ASSUME TypeInv, NEW s \in 1..Len(sock), OnClose(s)
  PROVE  Fits(sock', view', out')
PROOF
  <1> DEFINE c == sock[s]
             v == c.view
             w == [view[v] EXCEPT !.ws = None, !.again = FALSE,
                                  !.scratch = @ \/ (~view[v].again /\ kind = "agent")]
             none == <<>>
             e == [c EXCEPT !.client = "closed", !.wire = none]
             closed == [sock EXCEPT ![s] = e]
             x == [w EXCEPT !.timer = @ \/ ComesBack(w)]
  <1>1. /\ c \in Connections /\ v \in Views /\ view[v] \in ViewStates /\ Neat(c, out) /\ out \in Nat
        /\ Fits(sock, view, out) /\ sock \in Seq(Connections) /\ out' = out
    BY FitsTyped, OwnTyped DEF TypeInv, OnClose
  <1>2. closed = [sock EXCEPT ![s].client = "closed", ![s].wire = <<>>]
    BY <1>1
  <1>3. IF view[v].again /\ w.active
          THEN Connect(v, w, closed)
          ELSE /\ sock' = closed
               /\ view' = [view EXCEPT ![v] = x]
    BY <1>2 DEF OnClose
  <1>4. none \in Seq(Messages)
    OBVIOUS
  <1>5. w \in ViewStates /\ w.ws = None
    BY <1>1 DEF ViewStates, None
  <1> HIDE DEF none, w
  <1>6. x \in ViewStates /\ x.ws = None
    BY <1>5 DEF ViewStates, ComesBack
  <1> HIDE DEF c, x
  <1>7. e \in Connections /\ e.queue = c.queue /\ e.at = c.at /\ e.over = c.over
    BY ONLY <1>1, <1>4 DEF Connections
  <1> HIDE DEF e
  <1>8. Neat(e, out)
    BY ONLY <1>1, <1>7 DEF Neat
  <1>9. Fits(closed, view, out)
    BY <1>1, <1>7, <1>8, FitsChanged
  <1>10. 0 <= Len(closed)
    BY <1>9, FitsTyped
  <1> HIDE DEF closed
  <1>11. Connect(v, w, closed) => Fits(sock', view', out)
    BY <1>1, <1>5, <1>9, FitsConnected
  <1>12. Fits(closed, [view EXCEPT ![v] = x], out)
    BY <1>1, <1>6, <1>9, <1>10, FitsViewed DEF None
  <1> QED BY <1>1, <1>3, <1>11, <1>12

LEMMA ViewStepFits ==
  ASSUME TypeInv, NEW v \in Views,
         \/ TimerFires(v) \/ Activate(v) \/ Deactivate(v) \/ Resync(v) \/ Rebuild(v) \/ Refocus(v)
  PROVE  Fits(sock', view', out')
PROOF
  <1>1. /\ view[v] \in ViewStates /\ out \in Nat /\ Fits(sock, view, out) /\ view \in [Views -> ViewStates]
    BY OwnTyped
  <1>2. out' = out
    BY DEF TimerFires, Activate, Deactivate, Resync, Rebuild, Refocus, Closes
  <1> DEFINE r == <<>>
             calm == [view[v] EXCEPT !.timer = FALSE]
             front == [view[v] EXCEPT !.active = TRUE]
             back == [view[v] EXCEPT !.active = FALSE]
             empty == [view[v] EXCEPT !.screen = r]
             fresh == [empty EXCEPT !.timer = FALSE]
             built == [view[v] EXCEPT !.scratch = TRUE, !.again = TRUE]
             asked == [view[v] EXCEPT !.again = TRUE]
  <1>3. r \in Seq(1..MaxOutput)
    OBVIOUS
  <1>4. \/ \E w \in {calm, front, fresh} : Connect(v, w, sock)
        \/ \E w \in {empty, built} : Closes(v, w)
        \/ \E w \in {front, back, asked} : view' = [view EXCEPT ![v] = w] /\ sock' = sock
    <2>1. CASE TimerFires(v)
      BY <2>1 DEF TimerFires
    <2>2. CASE Activate(v)
      BY <2>2 DEF Activate
    <2>3. CASE Deactivate(v)
      <3>1. view' = [view EXCEPT ![v].active = FALSE] /\ sock' = sock
        BY <2>3 DEF Deactivate
      <3> QED BY <1>1, <3>1
    <2>4. CASE Resync(v)
      BY <2>4 DEF Resync
    <2>5. CASE Rebuild(v)
      BY <2>5 DEF Rebuild
    <2>6. CASE Refocus(v)
      <3>1. \/ Connect(v, calm, sock)
            \/ view' = [view EXCEPT ![v].again = TRUE] /\ sock' = sock
        BY <2>6 DEF Refocus
      <3> QED BY <1>1, <3>1
    <2> QED BY <2>1, <2>2, <2>3, <2>4, <2>5, <2>6
  <1> HIDE DEF r
  <1>5. calm \in ViewStates /\ front \in ViewStates /\ front.ws = view[v].ws
    BY <1>1 DEF ViewStates
  <1>6. back \in ViewStates /\ back.ws = view[v].ws /\ asked \in ViewStates /\ asked.ws = view[v].ws
    BY <1>1 DEF ViewStates
  <1>7. empty \in ViewStates /\ empty.ws = view[v].ws /\ built \in ViewStates /\ built.ws = view[v].ws
    BY <1>1, <1>3 DEF ViewStates
  <1> HIDE DEF empty
  <1>8. fresh \in ViewStates
    BY <1>7 DEF ViewStates
  <1> HIDE DEF calm, front, back, fresh, built, asked
  <1>9. ASSUME NEW w \in {calm, front, fresh}, Connect(v, w, sock) PROVE Fits(sock', view', out')
    <2>1. w \in ViewStates
      BY <1>5, <1>8
    <2>2. Fits(sock', view', out)
      BY <1>1, <1>9, <2>1, FitsConnected
    <2> QED BY <1>2, <2>2
  <1>10. ASSUME NEW w \in {empty, built}, Closes(v, w) PROVE Fits(sock', view', out')
    BY <1>7, <1>10, ClosesFits
  <1>11. ASSUME NEW w \in {front, back, asked}, view' = [view EXCEPT ![v] = w], sock' = sock
         PROVE  Fits(sock', view', out')
    BY <1>2, <1>5, <1>6, <1>11, ViewFits
  <1> QED BY <1>4, <1>9, <1>10, <1>11

LEMMA TypeInit == Init => TypeInv
PROOF
  <1> SUFFICES ASSUME Init PROVE TypeInv
    OBVIOUS
  <1>1. /\ sock = <<>> /\ Len(sock) = 0 /\ view = [v \in Views |-> NewView] /\ out = 1 /\ unseen = {}
        /\ kind \in {"shell", "agent"} /\ sock \in Seq(Connections) /\ painted = {} /\ troubles = 0
        /\ lazy \in BOOLEAN /\ missed = ~lazy /\ repaint = FALSE
    BY DEF Init
  <1>2. NewView \in ViewStates /\ NewView.ws = 0
    <2>1. None \in Nat /\ <<>> \in Seq(1..MaxOutput)
      BY DEF None
    <2> QED BY <2>1 DEF NewView, ViewStates, None
  <1>3. Fits(sock, view, out)
    BY <1>1, <1>2 DEF Fits
  <1>4. 1 \in 1..MaxOutput /\ 0 \in 0..MaxTroubles
    BY WindowConstants
  <1> QED BY <1>1, <1>3, <1>4 DEF TypeInv

(* What is left alone, and what trouble counts. *)
LEMMA TypeNext == TypeInv /\ [Next]_vars => TypeInv'
PROOF
  <1> SUFFICES ASSUME TypeInv, [Next]_vars PROVE TypeInv'
    OBVIOUS
  <1>1. /\ Fits(sock, view, out) /\ out \in 1..MaxOutput /\ unseen \subseteq 1..out /\ painted \subseteq 1..out
        /\ kind \in {"shell", "agent"} /\ lazy \in BOOLEAN /\ missed \in BOOLEAN /\ repaint \in BOOLEAN
        /\ troubles \in 0..MaxTroubles /\ out \in Nat /\ DOMAIN sock = 1..Len(sock) /\ MaxTroubles \in Nat
    BY WindowConstants, FitsTyped DEF TypeInv
  <1>2. Trouble => troubles' \in 0..MaxTroubles
    BY <1>1 DEF Trouble
  <1>3. CASE Output \/ Repaints
    <2>1. /\ Prints(out + 1) /\ out < MaxOutput /\ view' = view /\ UNCHANGED <<kind, lazy, unseen>>
          /\ (Trouble \/ UNCHANGED troubles) /\ repaint' \in BOOLEAN
          /\ painted' = painted \/ painted' = painted \cup {out + 1}
      BY <1>1, <1>3 DEF Output, Repaints
    <2>2. Fits(sock', view', out') /\ out' \in 1..MaxOutput /\ missed' \in BOOLEAN /\ 1..out \subseteq 1..out'
      BY <2>1, PrintsFits
    <2>3. out' = out + 1 /\ out + 1 \in 1..(out + 1)
      BY <1>1, <2>1 DEF Prints
    <2>4. painted' \subseteq 1..out' /\ unseen' \subseteq 1..out'
      BY <1>1, <2>1, <2>2, <2>3
    <2> QED BY <1>1, <1>2, <2>1, <2>2, <2>4 DEF TypeInv
  <1>4. ASSUME NEW s \in 1..Len(sock), Accept(s) PROVE TypeInv'
    <2>1. /\ sock' = Registered(s, out) /\ UNCHANGED <<kind, lazy, view, unseen, painted, troubles, out>>
          /\ missed' \in BOOLEAN /\ repaint' \in BOOLEAN
      BY <1>1, <1>4 DEF Accept
    <2>2. out \in 1..out /\ out <= out
      BY <1>1
    <2>3. Fits(sock', view', out')
      BY <1>1, <2>1, <2>2, AttachFits
    <2> QED BY <1>1, <2>1, <2>3 DEF TypeInv
  <1>5. ASSUME NEW s \in 1..Len(sock), AcceptStarts(s) PROVE TypeInv'
    <2>1. /\ UNCHANGED <<kind, view, painted, troubles>> /\ lazy' \in BOOLEAN
          /\ missed' \in BOOLEAN /\ repaint' \in BOOLEAN
      BY <1>1, <1>5 DEF AcceptStarts
    <2>2. \/ /\ out < MaxOutput /\ out' = out + 1
             /\ \E n \in {out, out'} : sock' = Registered(s, n)
             /\ unseen' \subseteq unseen \cup {out'}
          \/ UNCHANGED <<out, unseen>> /\ sock' = Registered(s, out)
      <3>1. CASE /\ out < MaxOutput /\ out' = out + 1
                 /\ sock' = Registered(s, IF kind = "agent" THEN out ELSE out')
                 /\ unseen' = IF kind = "agent" THEN unseen \cup {out'} ELSE unseen
        BY <3>1
      <3>2. CASE UNCHANGED <<out, unseen>> /\ sock' = Registered(s, out)
        BY <3>2
      <3> QED BY <1>5, <3>1, <3>2 DEF AcceptStarts
    <2>3. CASE UNCHANGED <<out, unseen>> /\ sock' = Registered(s, out)
      <3>1. out \in 1..out /\ out <= out
        BY <1>1
      <3>2. Fits(sock', view', out')
        BY <1>1, <2>1, <2>3, <3>1, AttachFits
      <3> QED BY <1>1, <2>1, <2>3, <3>2 DEF TypeInv
    <2>4. CASE /\ out < MaxOutput /\ out' = out + 1
               /\ \E n \in {out, out'} : sock' = Registered(s, n)
               /\ unseen' \subseteq unseen \cup {out'}
      <3>1. /\ out + 1 \in 1..MaxOutput /\ out <= out + 1 /\ out \in 1..(out + 1)
            /\ out + 1 \in 1..(out + 1) /\ 1..out \subseteq 1..(out + 1)
        BY <1>1, <2>4, WindowConstants
      <3>2. PICK n \in 1..(out + 1) : sock' = Registered(s, n)
        BY <2>4, <3>1
      <3>3. Fits(sock', view', out')
        BY <1>1, <2>1, <2>4, <3>1, <3>2, AttachFits
      <3>4. unseen' \subseteq 1..out' /\ painted' \subseteq 1..out' /\ out' \in 1..MaxOutput
        BY <1>1, <2>1, <2>4, <3>1
      <3> QED BY <1>1, <2>1, <3>3, <3>4 DEF TypeInv
    <2> QED BY <2>2, <2>3, <2>4
  <1>6. ASSUME Fits(sock', view', out'),
               UNCHANGED <<kind, lazy, out, missed, repaint, unseen, painted>>, Trouble \/ UNCHANGED troubles
        PROVE  TypeInv'
    BY <1>1, <1>2, <1>6 DEF TypeInv
  <1>7. ASSUME NEW s \in 1..Len(sock), Pump(s) \/ Stalls(s) \/ Detach(s) \/ Drop(s) PROVE TypeInv'
    <2>1. UNCHANGED <<kind, lazy, out, missed, repaint, unseen, painted>> /\ (Trouble \/ UNCHANGED troubles)
      BY <1>7 DEF Pump, Stalls, Detach, Drop
    <2> QED BY <1>6, <1>7, <2>1, SentFits
  <1>8. ASSUME NEW s \in 1..Len(sock), Message(s) PROVE TypeInv'
    <2>1. UNCHANGED <<kind, lazy, out, missed, repaint, unseen, painted, troubles>>
      BY <1>8 DEF Message
    <2> QED BY <1>6, <1>8, <2>1, MessageFits
  <1>9. ASSUME NEW s \in 1..Len(sock), OnClose(s) PROVE TypeInv'
    <2>1. UNCHANGED <<kind, lazy, out, missed, repaint, unseen, painted, troubles>>
      BY <1>9 DEF OnClose
    <2> QED BY <1>6, <1>9, <2>1, OnCloseFits
  <1>10. ASSUME NEW v \in Views,
                \/ TimerFires(v) \/ Activate(v) \/ Deactivate(v) \/ Resync(v) \/ Rebuild(v) \/ Refocus(v)
         PROVE  TypeInv'
    <2>1. UNCHANGED <<kind, lazy, out, missed, repaint, unseen, painted>> /\ (Trouble \/ UNCHANGED troubles)
      BY <1>10 DEF TimerFires, Activate, Deactivate, Resync, Rebuild, Refocus, Closes
    <2> QED BY <1>6, <1>10, <2>1, ViewStepFits
  <1>11. CASE UNCHANGED vars
    BY <1>11 DEF vars, TypeInv
  <1> QED BY <1>1, <1>3, <1>4, <1>5, <1>7, <1>8, <1>9, <1>10, <1>11 DEF Next, Server, Client

(* put_nowait and the rest: a backlog never outgrows its limit, one that overflowed
   is gone but for the order to close, and every variable has its type. *)
THEOREM WindowTypes == Spec => []TypeOK
PROOF
  <1>1. TypeInv => TypeOK
    <2> SUFFICES ASSUME TypeInv PROVE TypeOK
      OBVIOUS
    <2>1. /\ DOMAIN sock = 1..Len(sock)
          /\ \A s \in 1..Len(sock) : sock[s] \in Connections /\ Neat(sock[s], out)
          /\ \A v \in Views : view[v] \in ViewStates /\ view[v].ws \in 0..Len(sock)
      BY FitsTyped DEF TypeInv
    <2>2. ASSUME NEW s \in DOMAIN sock
          PROVE  /\ sock[s].view \in Views /\ sock[s].at <= out
                 /\ sock[s].client \in {"open", "closing", "closed"}
                 /\ sock[s].server \in {"none", "attached", "ended"}
                 /\ Len(sock[s].queue) <= MaxItems
                 /\ sock[s].over => sock[s].queue \in {<<>>, <<Close>>}
      BY <2>1 DEF Connections, Neat
    <2>3. ASSUME NEW v \in Views PROVE view[v].ws \in 0..Len(sock) /\ view[v].screen \in Seq(1..MaxOutput)
      BY <2>1 DEF ViewStates
    <2> QED BY <2>2, <2>3 DEF TypeOK, TypeInv
  <1>2. Spec => []TypeInv
    BY TypeInit, TypeNext, PTL DEF Spec
  <1> QED BY <1>1, <1>2, PTL
=============================================================================
