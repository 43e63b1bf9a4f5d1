---------------------------- MODULE CloudRelayProofs ----------------------------
(***************************************************************************)
(* Types of CloudRelay, that no request waits for a computer that is gone, *)
(* and that a browser's websocket gets its stream whole and in order, for  *)
(* any number of computers, connections, requests and websockets.          *)
(***************************************************************************)
EXTENDS CloudRelay, TLAPS, WellFoundedInduction, SequenceTheorems, InductionLemmas

-----------------------------------------------------------------------------
(* Invariants *)

UpMessages ==
  [type : {"hello"}] \cup [type : {"response"}, call : Calls]
  \cup [type : {"opened", "error", "close"}, channel : Channels]
  \cup [type : {"data"}, channel : Channels, n : Nat]

DownMessages ==
  [type : {"hello_accepted"}] \cup [type : {"request"}, call : Calls]
  \cup [type : {"open", "close"}, channel : Channels]

LinkRecords ==
  [owner : Computers, ready : BOOLEAN, relay : {"open", "closing", "ended"}, far : {"open", "ended"},
   up : Seq(UpMessages), down : Seq(DownMessages)]

LinkType == link \in Seq(LinkRecords) /\ Len(link) <= MaxLinks

ComputerRecords ==
  [at : {"idle", "asked", "hello", "connected"}, link : Nat, calls : SUBSET Calls, opening : SUBSET Channels,
   local : SUBSET Channels, pumps : SUBSET Channels, pumped : [Channels -> Nat]]

(* A connector that is on has a connection of its own, open at its end. *)
Owns(p, c, l) ==
  /\ p.at \in {"hello", "connected"} <=> p.link # NoLink
  /\ p.link # NoLink => p.link \in DOMAIN l /\ l[p.link].owner = c /\ l[p.link].far = "open"
  /\ p.pumps \subseteq p.local

ComputerInv ==
  /\ computer \in [Computers -> ComputerRecords]
  /\ \A c \in Computers : Owns(computer[c], c, link)

CallRecords == [at : {"new", "waiting", "picked", "sent", "done"}, on : Nat]

(* A request is given to a connection that has said hello, and none takes that back. *)
CallInv ==
  /\ call \in [Calls -> CallRecords]
  /\ \A r \in Calls : call[r].at \in {"picked", "sent"} => call[r].on \in Links /\ link[call[r].on].ready

ChannelStates == {"new", "opening", "opened", "open", "closed", "refused"}
ChannelRecords == [at : ChannelStates, early : Seq(UpMessages), got : Seq(Nat)]

ChannelInv == channel \in [Channels -> ChannelRecords]

RelayInv ==
  /\ token \in Computers \cup {NoComputer}
  /\ LinkType /\ ComputerInv /\ CallInv /\ ChannelInv /\ NoneStranded

-----------------------------------------------------------------------------
(* The connection in use *)

LEMMA LeastExists ==
  ASSUME NEW S \in SUBSET Nat, S # {}
  PROVE  Min(S) \in S
PROOF
  <1> DEFINE R == {p \in Nat \X Nat : p[1] < p[2]}
  <1>1. IsWellFoundedOn(R, Nat)
    BY NatLessThanWellFounded DEF OpToRel
  <1>2. PICK x \in S : \A y \in S : ~(<<y, x>> \in R)
    <2> HIDE DEF R
    <2> QED BY <1>1, WFMin
  <1>3. \A y \in S : x <= y
    <2> TAKE y \in S
    <2>1. x \in Nat /\ y \in Nat
      OBVIOUS
    <2>2. ~(<<y, x>> \in R)
      BY <1>2
    <2>3. ~(y < x)
      BY <2>1, <2>2
    <2> QED BY <2>1, <2>3
  <1> QED BY <1>3 DEF Min

LEMMA LinksAreNumbered ==
  ASSUME LinkType
  PROVE  Links = 1..Len(link) /\ Len(link) \in Nat /\ \A s \in Links : link[s] \in LinkRecords
BY DEF LinkType, Links

(* The connection in use is one that is listed and has said hello. *)
LEMMA ConnectorIsReady ==
  ASSUME LinkType
  PROVE  /\ Connector # NoLink <=> Ready # {}
         /\ Connector # NoLink => Connector \in Ready
         /\ Connector \in Nat
PROOF
  <1>1. Ready \subseteq 1..Len(link) /\ Len(link) \in Nat
    BY LinksAreNumbered DEF Ready, Listed
  <1>2. CASE Ready = {}
    BY <1>2 DEF Connector, NoLink
  <1>3. CASE Ready # {}
    <2>1. Min(Ready) \in Ready
      BY <1>1, <1>3, LeastExists
    <2>2. \A s \in Ready : s \in Nat \ {0}
      BY <1>1
    <2>3. Min(Ready) \in Nat \ {0}
      BY <2>1, <2>2
    <2> QED BY <1>3, <2>1, <2>3 DEF Connector, NoLink
  <1> QED BY <1>2, <1>3

LEMMA ReadyIsLinked ==
  ASSUME NEW s \in Ready
  PROVE  s \in Links /\ link[s].ready /\ link[s].relay # "ended"
BY DEF Ready, Listed

-----------------------------------------------------------------------------
(* How connections change *)

(* Connections stay: none is forgotten or renumbered, and none that said hello takes it back. *)
ReadyStays(l, m) ==
  /\ DOMAIN l \subseteq DOMAIN m
  /\ \A s \in DOMAIN l : l[s].ready => m[s].ready

(* None ends at the relay, and none is given to another computer or ends there. *)
NoneEnds(l, m) == \A s \in DOMAIN l : m[s].relay = "ended" <=> l[s].relay = "ended"
OwnersStay(l, m) == \A s \in DOMAIN l : m[s].owner = l[s].owner /\ m[s].far = l[s].far

GoesOn(l, m) == ReadyStays(l, m) /\ NoneEnds(l, m) /\ OwnersStay(l, m)

LEMMA ReplacedLink ==
  ASSUME LinkType, NEW s \in Links, NEW rec \in LinkRecords, link' = [link EXCEPT ![s] = rec]
  PROVE  /\ link' \in Seq(LinkRecords) /\ Len(link') = Len(link) /\ DOMAIN link' = Links
         /\ link'[s] = rec /\ \A t \in Links \ {s} : link'[t] = link[t]
BY DEF LinkType, Links

(* What is appended to a connection, or taken from it, changes nothing else. *)
LEMMA CarriedGoesOn ==
  ASSUME LinkType, NEW s \in Links, NEW u \in Seq(UpMessages), NEW d \in Seq(DownMessages),
         link' = [link EXCEPT ![s] = [@ EXCEPT !.up = u, !.down = d]]
  PROVE  LinkType' /\ GoesOn(link, link')
PROOF
  <1> DEFINE rec == [link[s] EXCEPT !.up = u, !.down = d]
  <1>1. link[s] \in LinkRecords
    BY LinksAreNumbered
  <1>2. /\ rec \in LinkRecords
        /\ rec.owner = link[s].owner /\ rec.far = link[s].far /\ rec.ready = link[s].ready
        /\ rec.relay = link[s].relay
    BY <1>1 DEF LinkRecords
  <1>3. link' = [link EXCEPT ![s] = rec]
    OBVIOUS
  <1> HIDE DEF rec
  <1>4. /\ link' \in Seq(LinkRecords) /\ Len(link') = Len(link) /\ DOMAIN link' = Links
        /\ link'[s] = rec /\ \A t \in Links \ {s} : link'[t] = link[t]
    BY <1>2, <1>3, ReplacedLink
  <1> QED BY <1>2, <1>4 DEF LinkType, GoesOn, ReadyStays, NoneEnds, OwnersStay, Links

LEMMA SameGoesOn ==
  ASSUME LinkType, UNCHANGED link
  PROVE  LinkType' /\ GoesOn(link, link')
BY DEF LinkType, GoesOn, ReadyStays, NoneEnds, OwnersStay

LEMMA DownGoesOn ==
  ASSUME LinkType, NEW s \in Links, NEW m \in DownMessages, link' = Down(link, s, m)
  PROVE  LinkType' /\ GoesOn(link, link')
PROOF
  <1>1. link[s] \in LinkRecords
    BY LinksAreNumbered
  <1>2. link[s].up \in Seq(UpMessages) /\ Append(link[s].down, m) \in Seq(DownMessages)
    BY <1>1 DEF LinkRecords
  <1>3. link' = [link EXCEPT ![s] = [@ EXCEPT !.up = link[s].up, !.down = Append(link[s].down, m)]]
    BY <1>1 DEF Down, LinkRecords
  <1> QED BY <1>2, <1>3, CarriedGoesOn

LEMMA UpGoesOn ==
  ASSUME LinkType, ComputerInv, NEW c \in Computers, NEW m \in UpMessages, Up(c, m)
  PROVE  LinkType' /\ GoesOn(link, link')
PROOF
  <1> DEFINE s == computer[c].link
  <1>1. CASE s # NoLink /\ link[s].far = "open"
    <2>1. s \in Links
      BY <1>1 DEF ComputerInv, Owns, Links
    <2>2. link[s] \in LinkRecords
      BY <2>1, LinksAreNumbered
    <2>3. Append(link[s].up, m) \in Seq(UpMessages) /\ link[s].down \in Seq(DownMessages)
      BY <2>2 DEF LinkRecords
    <2>4. link' = [link EXCEPT ![s] = [@ EXCEPT !.up = Append(link[s].up, m), !.down = link[s].down]]
      BY <1>1, <2>2 DEF Up, LinkRecords
    <2> QED BY <2>1, <2>3, <2>4, CarriedGoesOn
  <1>2. CASE ~(s # NoLink /\ link[s].far = "open")
    BY <1>2, SameGoesOn DEF Up
  <1> QED BY <1>1, <1>2

(* Connections that are closed here are closing, and nothing else. *)
LEMMA CloseAllCloses ==
  ASSUME LinkType, NEW S \in SUBSET Links
  PROVE  /\ CloseAll(link, S) \in Seq(LinkRecords) /\ Len(CloseAll(link, S)) = Len(link)
         /\ DOMAIN CloseAll(link, S) = Links
         /\ GoesOn(link, CloseAll(link, S))
         /\ \A s \in Links \ S : CloseAll(link, S)[s] = link[s]
PROOF
  <1> DEFINE f == CloseAll(link, S)
  <1>1. DOMAIN f = 1..Len(link) /\ Len(link) \in Nat
    BY LinksAreNumbered DEF CloseAll, Links
  <1>2. \A s \in Links :
          /\ f[s] \in LinkRecords
          /\ f[s].owner = link[s].owner /\ f[s].far = link[s].far /\ f[s].ready = link[s].ready
          /\ f[s].relay = "ended" <=> link[s].relay = "ended"
          /\ s \notin S => f[s] = link[s]
    <2> TAKE s \in Links
    <2>1. link[s] \in LinkRecords
      BY LinksAreNumbered
    <2>2. f[s] = IF s \in S /\ link[s].relay = "open" THEN [link[s] EXCEPT !.relay = "closing"] ELSE link[s]
      BY DEF CloseAll, Links
    <2> HIDE DEF f
    <2> QED BY <2>1, <2>2 DEF LinkRecords
  <1>3. f = [s \in 1..Len(link) |-> f[s]]
    BY <1>1 DEF CloseAll
  <1> HIDE DEF f
  <1>4. f \in Seq(LinkRecords) /\ Len(f) = Len(link)
    BY <1>1, <1>2, <1>3, LinksAreNumbered
  <1> QED BY <1>1, <1>2, <1>4, LinksAreNumbered DEF f, GoesOn, ReadyStays, NoneEnds, OwnersStay, Links

-----------------------------------------------------------------------------
(* What goes on with the connections *)

LEMMA CallsStay ==
  ASSUME LinkType, CallInv, ReadyStays(link, link'), call' \in [Calls -> CallRecords],
         \A r \in Calls : call'[r].at \in {"picked", "sent"} => call'[r].on = call[r].on /\ call[r].at \in {"picked", "sent"}
  PROVE  CallInv'
BY DEF CallInv, ReadyStays, Links

LEMMA ReadyGrows ==
  ASSUME LinkType, LinkType', ReadyStays(link, link'), NoneEnds(link, link')
  PROVE  Ready \subseteq Ready'
BY DEF Ready, Listed, Links, ReadyStays, NoneEnds

(* A request that waits was waiting on the same connection before, or has just gone out on
   one that is open. *)
LEMMA NoneGetsStranded ==
  ASSUME LinkType, LinkType', CallInv, NoneStranded, ReadyStays(link, link'), NoneEnds(link, link'),
         \A r \in Calls : call'[r].at = "sent" =>
           /\ call'[r].on = call[r].on /\ call[r].at \in {"picked", "sent"}
           /\ call[r].at = "sent" \/ link[call[r].on].relay # "ended"
  PROVE  NoneStranded'
PROOF
  <1> SUFFICES ASSUME NEW r \in Calls, call'[r].at = "sent", link'[call'[r].on].relay = "ended"
               PROVE  Ready' # {}
    BY DEF NoneStranded
  <1>1. call[r].on \in DOMAIN link /\ call'[r].on = call[r].on
    BY DEF CallInv, Links
  <1>2. link[call[r].on].relay = "ended"
    BY <1>1 DEF NoneEnds
  <1>3. Ready # {}
    BY <1>2 DEF NoneStranded
  <1> QED BY <1>3, ReadyGrows

LEMMA ComputersStay ==
  ASSUME ComputerInv, ReadyStays(link, link'), OwnersStay(link, link'), UNCHANGED computer
  PROVE  ComputerInv'
BY DEF ComputerInv, Owns, ReadyStays, OwnersStay

LEMMA ComputerChanges ==
  ASSUME ComputerInv, ReadyStays(link, link'), OwnersStay(link, link'), NEW c \in Computers,
         NEW p \in ComputerRecords, Owns(p, c, link'), computer' = [computer EXCEPT ![c] = p]
  PROVE  ComputerInv'
PROOF
  <1>1. computer' \in [Computers -> ComputerRecords] /\ computer'[c] = p
        /\ \A d \in Computers \ {c} : computer'[d] = computer[d]
    BY DEF ComputerInv
  <1>2. \A d \in Computers \ {c} : Owns(computer[d], d, link')
    BY DEF ComputerInv, Owns, ReadyStays, OwnersStay
  <1> QED BY <1>1, <1>2 DEF ComputerInv

LEMMA AllStays ==
  ASSUME RelayInv, LinkType', GoesOn(link, link'), token' = token, ChannelInv',
         ComputerInv', UNCHANGED call
  PROVE  RelayInv'
PROOF
  <1>1. ReadyStays(link, link') /\ NoneEnds(link, link')
    BY DEF GoesOn
  <1>2. LinkType /\ CallInv /\ NoneStranded /\ call \in [Calls -> CallRecords]
    BY DEF RelayInv, CallInv
  <1>3. CallInv'
    BY <1>1, <1>2, CallsStay
  <1>4. NoneStranded'
    BY <1>1, <1>2, NoneGetsStranded
  <1> QED BY <1>3, <1>4 DEF RelayInv

LEMMA ChannelSet ==
  ASSUME ChannelInv, NEW ch \in Channels, NEW x \in ChannelRecords, channel' = [channel EXCEPT ![ch] = x]
  PROVE  ChannelInv'
BY DEF ChannelInv

LEMMA ChannelMoves ==
  ASSUME ChannelInv, NEW ch \in Channels, NEW at \in ChannelStates,
         channel' = [channel EXCEPT ![ch].at = at]
  PROVE  ChannelInv'
PROOF
  <1> DEFINE x == [channel[ch] EXCEPT !.at = at]
  <1>1. x \in ChannelRecords
    BY DEF ChannelInv, ChannelRecords
  <1>2. channel' = [channel EXCEPT ![ch] = x]
    OBVIOUS
  <1> HIDE DEF x
  <1> QED BY <1>1, <1>2, ChannelSet

-----------------------------------------------------------------------------
(* The steps of the relay *)

LEMMA HelloKeeps ==
  ASSUME RelayInv, NEW s \in Listed, link[s].up # <<>>, Hello(s), UNCHANGED <<token, computer>>
  PROVE  RelayInv'
PROOF
  <1> DEFINE f == CloseAll(link, Listed \ {s})
             greeted == [link[s] EXCEPT !.ready = TRUE, !.up = Tail(link[s].up)]
             g == [f EXCEPT ![s] = greeted]
             told == [greeted EXCEPT !.down = Append(@, [type |-> "hello_accepted"])]
             rec == IF Sendable(s) THEN told ELSE greeted
  <1>1. LinkType /\ s \in Links
    BY DEF RelayInv, Listed
  <1>2. link[s] \in LinkRecords
    BY <1>1, LinksAreNumbered
  <1>3. /\ f \in Seq(LinkRecords) /\ Len(f) = Len(link) /\ DOMAIN f = Links
        /\ GoesOn(link, f)
    BY <1>1, CloseAllCloses DEF Listed
  <1>4. Tail(link[s].up) \in Seq(UpMessages)
    BY <1>2 DEF LinkRecords
  <1>5. /\ greeted \in LinkRecords
        /\ greeted.owner = link[s].owner /\ greeted.far = link[s].far /\ greeted.ready = TRUE
        /\ greeted.relay = link[s].relay
    BY <1>2, <1>4 DEF LinkRecords
  <1>6. link' = IF Sendable(s) THEN Down(g, s, [type |-> "hello_accepted"]) ELSE g
    BY DEF Hello
  <1> HIDE DEF f, greeted
  <1>7. Append(greeted.down, [type |-> "hello_accepted"]) \in Seq(DownMessages)
    BY <1>5 DEF LinkRecords, DownMessages
  <1>8. /\ told \in LinkRecords
        /\ told.owner = link[s].owner /\ told.far = link[s].far /\ told.ready = TRUE
        /\ told.relay = link[s].relay
    BY <1>5, <1>7 DEF LinkRecords
  <1>9. link' = [f EXCEPT ![s] = rec]
    BY <1>1, <1>3, <1>6 DEF Down
  <1>10. /\ rec \in LinkRecords
         /\ rec.owner = link[s].owner /\ rec.far = link[s].far /\ rec.ready = TRUE
         /\ rec.relay = link[s].relay
    BY <1>5, <1>8
  <1> HIDE DEF rec
  <1>11. LinkType' /\ DOMAIN link' = Links /\ link'[s] = rec /\ \A t \in Links \ {s} : link'[t] = f[t]
    BY <1>1, <1>3, <1>9, <1>10 DEF LinkType, Links
  <1>12. GoesOn(link, link')
    BY <1>1, <1>3, <1>10, <1>11 DEF GoesOn, ReadyStays, NoneEnds, OwnersStay, Links
  <1>13. ComputerInv'
    BY <1>12, ComputersStay DEF RelayInv, GoesOn
  <1>14. ChannelInv'
    BY DEF RelayInv, Hello, ChannelInv
  <1> QED BY <1>11, <1>12, <1>13, <1>14, AllStays DEF Hello

LEMMA DeliveredIsTyped ==
  ASSUME NEW x \in ChannelRecords, NEW m \in UpMessages
  PROVE  Deliver(x, m) \in ChannelRecords
PROOF
  <1>1. m.type = "data" => m.n \in Nat
    BY DEF UpMessages
  <1>2. m.type = "data" => Append(x.got, m.n) \in Seq(Nat)
    BY <1>1 DEF ChannelRecords
  <1> QED BY <1>2 DEF ChannelRecords, ChannelStates, Deliver

LEMMA RoutedIsTyped ==
  ASSUME NEW x \in ChannelRecords, NEW m \in UpMessages
  PROVE  Routed(x, m) \in ChannelRecords
PROOF
  <1>1. Append(x.early, m) \in Seq(UpMessages)
    BY DEF ChannelRecords
  <1>2. Deliver(x, m) \in ChannelRecords
    BY DeliveredIsTyped
  <1> QED BY <1>1, <1>2 DEF ChannelRecords, ChannelStates, Routed

(* What waited is delivered message by message, in the order it came in. *)
Accepts == [at |-> "open", early |-> <<>>, got |-> <<>>]

LEMMA CaughtUp ==
  ASSUME NEW e \in Seq(UpMessages)
  PROVE  \E f \in [0..Len(e) -> ChannelRecords] :
           /\ f[0] = Accepts /\ Caught(e) = f[Len(e)]
           /\ \A i \in 1..Len(e) : f[i] = Deliver(f[i - 1], e[i])
PROOF
  <1> DEFINE n == Len(e)
             F == [p \in (1..n) \X ChannelRecords |-> Deliver(p[2], e[p[1]])]
             Runs(h) == h = [i \in 0..n |-> IF i = 0 THEN [at |-> "open", early |-> <<>>, got |-> <<>>]
                                            ELSE Deliver(h[i - 1], e[i])]
  <1>1. n \in Nat /\ \A i \in 1..n : e[i] \in UpMessages
    OBVIOUS
  <1>2. Accepts \in ChannelRecords
    BY DEF Accepts, ChannelRecords, ChannelStates
  <1>3. \A i \in 1..n, x \in ChannelRecords : Deliver(x, e[i]) \in ChannelRecords
    BY <1>1, DeliveredIsTyped
  <1> HIDE DEF n
  <1>4. IsStep(F, n, ChannelRecords)
    BY <1>3 DEF IsStep
  <1>5. \A i \in 1..n, x \in ChannelRecords : F[<<i, x>>] = Deliver(x, e[i])
    OBVIOUS
  <1> HIDE DEF F
  <1>6. PICK g : IsRun(g, n, ChannelRecords, Accepts, F)
    BY <1>1, <1>2, <1>4, Recursion
  <1>7. g \in [0..n -> ChannelRecords] /\ g[0] = Accepts
    BY <1>6 DEF IsRun
  <1>8. ASSUME NEW i \in 1..n PROVE g[i] = Deliver(g[i - 1], e[i])
    <2>1. i - 1 \in 0..n
      BY <1>1
    <2>2. g[i] = F[<<i, g[i - 1]>>] /\ g[i - 1] \in ChannelRecords
      BY <1>6, <2>1 DEF IsRun
    <2> QED BY <1>5, <2>2
  <1>9. Runs(g)
    <2>1. \A i \in 0..n : g[i] = IF i = 0 THEN [at |-> "open", early |-> <<>>, got |-> <<>>]
                                 ELSE Deliver(g[i - 1], e[i])
      <3> SUFFICES ASSUME NEW i \in 0..n
                   PROVE  g[i] = IF i = 0 THEN [at |-> "open", early |-> <<>>, got |-> <<>>]
                                 ELSE Deliver(g[i - 1], e[i])
        OBVIOUS
      <3>1. CASE i = 0
        BY <1>7, <3>1 DEF Accepts
      <3>2. CASE i # 0
        <4>1. i \in 1..n
          BY <1>1, <3>2
        <4> QED BY <1>8, <3>2, <4>1
      <3> QED BY <3>1, <3>2
    <2>2. g = [i \in 0..n |-> g[i]]
      BY <1>7
    <2> QED BY <2>1, <2>2
  <1> DEFINE after == CHOOSE h : Runs(h)
  <1>10. Runs(after)
    BY <1>9
  <1>11. Caught(e) = after[n]
    BY DEF Caught, n
  <1> HIDE DEF after
  <1>12. \A i \in 0..n : after[i] = IF i = 0 THEN [at |-> "open", early |-> <<>>, got |-> <<>>]
                                    ELSE Deliver(after[i - 1], e[i])
    BY <1>10
  <1>13. after[0] = Accepts
    BY <1>1, <1>12 DEF Accepts
  <1>14. \A i \in 1..n : after[i] = Deliver(after[i - 1], e[i])
    <2> TAKE i \in 1..n
    <2>1. i \in 0..n /\ i # 0
      BY <1>1
    <2> QED BY <1>12, <2>1
  <1>15. StepAlike(n, after, g)
    BY <1>7, <1>8, <1>13, <1>14 DEF StepAlike
  <1>16. after[n] = g[n]
    BY <1>1, <1>15, SameRun
  <1> QED BY <1>7, <1>8, <1>11, <1>16 DEF n

LEMMA FromConnectorKeeps ==
  ASSUME RelayInv, NEW s, FromConnector(s)
  PROVE  RelayInv'
PROOF
  <1> DEFINE m == Head(link[s].up)
  <1>1. s \in Listed /\ link[s].up # <<>> /\ UNCHANGED <<token, computer>> /\ s \in Links /\ LinkType
    BY DEF FromConnector, Listed, RelayInv
  <1>2. link[s] \in LinkRecords
    BY <1>1, LinksAreNumbered
  <1>3. link[s].up \in Seq(UpMessages) /\ m \in UpMessages
    BY <1>1, <1>2 DEF LinkRecords
  <1>4. CASE m.type = "hello"
    BY <1>1, <1>4, HelloKeeps DEF FromConnector
  <1>5. CASE m.type # "hello"
    <2>1. link' = [link EXCEPT ![s] = [@ EXCEPT !.up = Tail(link[s].up), !.down = link[s].down]]
      BY <1>2, <1>5 DEF FromConnector, LinkRecords
    <2>2. Tail(link[s].up) \in Seq(UpMessages) /\ link[s].down \in Seq(DownMessages)
      BY <1>1, <1>2, <1>3 DEF LinkRecords
    <2>3. LinkType' /\ GoesOn(link, link')
      BY <1>1, <2>1, <2>2, CarriedGoesOn
    <2>4. ComputerInv'
      BY <1>1, <2>3, ComputersStay DEF RelayInv, GoesOn
    <2>5. CASE m.type = "response"
      <3>1. call' = [call EXCEPT ![m.call].at = IF @ = "sent" THEN "done" ELSE @] /\ UNCHANGED channel
        BY <1>5, <2>5 DEF FromConnector
      <3>2. call' \in [Calls -> CallRecords]
        BY <3>1 DEF RelayInv, CallInv, CallRecords
      <3>3. \A r \in Calls : call'[r].at \in {"picked", "sent"} => call'[r] = call[r]
        BY <3>1 DEF RelayInv, CallInv, CallRecords
      <3>4. CallInv'
        BY <2>3, <3>2, <3>3, CallsStay DEF RelayInv, GoesOn
      <3>5. NoneStranded'
        BY <2>3, <3>3, NoneGetsStranded DEF RelayInv, GoesOn
      <3>6. ChannelInv'
        BY <3>1 DEF RelayInv, ChannelInv
      <3> QED BY <1>1, <2>3, <2>4, <3>4, <3>5, <3>6 DEF RelayInv
    <2>6. CASE m.type # "response"
      <3>1. channel' = [channel EXCEPT ![m.channel] = Routed(@, m)] /\ UNCHANGED call
        BY <1>5, <2>6 DEF FromConnector
      <3>2. m.channel \in Channels
        BY <1>3, <1>5, <2>6 DEF UpMessages
      <3>3. Routed(channel[m.channel], m) \in ChannelRecords
        BY <1>3, <3>2, RoutedIsTyped DEF RelayInv, ChannelInv
      <3>4. ChannelInv'
        BY <3>1, <3>2, <3>3, ChannelSet DEF RelayInv
      <3> QED BY <1>1, <2>3, <2>4, <3>1, <3>4, AllStays
    <2> QED BY <2>5, <2>6
  <1> QED BY <1>4, <1>5

(* A connection that ends takes with it what waits, unless another one is ready. *)
LEMMA EndedKeeps ==
  ASSUME RelayInv, NEW s \in Listed, NEW u \in Seq(UpMessages), NEW d \in Seq(DownMessages),
         link' = [link EXCEPT ![s] = [@ EXCEPT !.relay = "ended", !.up = u, !.down = d]],
         IF link[s].ready /\ Ready \ {s} = {} THEN FailWaiting(s) ELSE UNCHANGED <<call, channel>>,
         UNCHANGED <<token, computer>>
  PROVE  RelayInv'
PROOF
  <1> DEFINE rec == [link[s] EXCEPT !.relay = "ended", !.up = u, !.down = d]
  <1>1. LinkType /\ s \in Links /\ link[s] \in LinkRecords
    BY LinksAreNumbered DEF RelayInv, Listed
  <1>2. /\ rec \in LinkRecords
        /\ rec.owner = link[s].owner /\ rec.far = link[s].far /\ rec.ready = link[s].ready
        /\ rec.relay = "ended"
    BY <1>1 DEF LinkRecords
  <1>3. link' = [link EXCEPT ![s] = rec]
    OBVIOUS
  <1> HIDE DEF rec
  <1>4. LinkType' /\ DOMAIN link' = Links /\ link'[s] = rec /\ \A t \in Links \ {s} : link'[t] = link[t]
    BY <1>1, <1>2, <1>3, ReplacedLink DEF LinkType
  <1>5. ReadyStays(link, link') /\ OwnersStay(link, link')
    BY <1>1, <1>2, <1>4 DEF ReadyStays, OwnersStay, Links
  <1>6. ComputerInv'
    BY <1>5, ComputersStay DEF RelayInv
  <1>7. Ready' = Ready \ {s}
    BY <1>1, <1>2, <1>4 DEF Ready, Listed, Links
  <1>8. CASE link[s].ready /\ Ready \ {s} = {}
    <2>1. FailWaiting(s)
      BY <1>8
    <2>2. call' \in [Calls -> CallRecords]
      BY <2>1 DEF FailWaiting, RelayInv, CallInv, CallRecords
    <2>3. \A r \in Calls : call'[r].at # "sent" /\ call'[r].on = call[r].on
                           /\ (call'[r].at = "picked" => call[r].at = "picked")
      BY <2>1 DEF FailWaiting, RelayInv, CallInv, CallRecords
    <2>4. CallInv'
      BY <1>1, <1>5, <2>2, <2>3, CallsStay DEF RelayInv
    <2>5. NoneStranded'
      BY <2>3 DEF NoneStranded
    <2>6. ChannelInv'
      <3>1. channel' = [ch \in Channels |-> [channel[ch] EXCEPT !.at = CASE @ = "opening" -> "refused"
                                                                        [] @ = "open" -> "closed"
                                                                        [] OTHER -> @]]
        BY <2>1 DEF FailWaiting
      <3>2. \A ch \in Channels : channel[ch] \in ChannelRecords
        BY DEF RelayInv, ChannelInv
      <3> QED BY <3>1, <3>2 DEF ChannelInv, ChannelRecords, ChannelStates
    <2> QED BY <1>4, <1>6, <2>4, <2>5, <2>6 DEF RelayInv
  <1>9. CASE ~(link[s].ready /\ Ready \ {s} = {})
    <2>1. UNCHANGED <<call, channel>>
      BY <1>9
    <2>2. CallInv'
      BY <1>1, <1>5, <2>1, CallsStay DEF RelayInv, CallInv
    <2>3. ChannelInv'
      BY <2>1 DEF RelayInv, ChannelInv
    <2>4. NoneStranded'
      <3> SUFFICES ASSUME NEW r \in Calls, call[r].at = "sent", link'[call[r].on].relay = "ended",
                          Ready \ {s} = {}
                   PROVE  FALSE
        BY <1>7, <2>1 DEF NoneStranded
      <3>1. ~link[s].ready
        BY <1>9
      <3>2. call[r].on \in Links /\ link[call[r].on].ready
        BY DEF RelayInv, CallInv
      <3>3. call[r].on # s /\ link[call[r].on].relay = "ended"
        BY <1>4, <3>1, <3>2
      <3>4. Ready # {}
        BY <3>3 DEF RelayInv, NoneStranded
      <3>5. s \notin Ready
        BY <3>1 DEF Ready
      <3> QED BY <3>4, <3>5
    <2> QED BY <1>4, <1>6, <2>1, <2>2, <2>3, <2>4 DEF RelayInv
  <1> QED BY <1>8, <1>9

LEMMA RelaySeesEndKeeps ==
  ASSUME RelayInv, NEW s, RelaySeesEnd(s)
  PROVE  RelayInv'
PROOF
  <1>1. s \in Listed /\ s \in Links /\ link[s] \in LinkRecords
    BY LinksAreNumbered DEF RelaySeesEnd, RelayInv, Listed
  <1>2. link[s].up \in Seq(UpMessages) /\ link[s].down \in Seq(DownMessages)
    BY <1>1 DEF LinkRecords
  <1>3. link' = [link EXCEPT ![s] = [@ EXCEPT !.relay = "ended", !.up = link[s].up, !.down = link[s].down]]
    BY <1>1 DEF RelaySeesEnd, Ended, LinkRecords
  <1> QED BY <1>1, <1>2, <1>3, EndedKeeps DEF RelaySeesEnd, Ended

LEMMA RelayLosesKeeps ==
  ASSUME RelayInv, NEW s, RelayLoses(s)
  PROVE  RelayInv'
PROOF
  <1>1. s \in Listed /\ s \in Links /\ link[s] \in LinkRecords
    BY LinksAreNumbered DEF RelayLoses, RelayInv, Listed
  <1>2. <<>> \in Seq(UpMessages) /\ <<>> \in Seq(DownMessages)
    OBVIOUS
  <1>3. link' = [link EXCEPT ![s] = [@ EXCEPT !.relay = "ended", !.up = <<>>, !.down = <<>>]]
    BY <1>1 DEF RelayLoses, Ended, LinkRecords
  <1> QED BY <1>1, <1>2, <1>3, EndedKeeps DEF RelayLoses, Ended

LEMMA PairingKeeps ==
  ASSUME RelayInv, NEW c \in Computers, Pair(c) \/ Revoke(c)
  PROVE  RelayInv'
PROOF
  <1>1. token' \in Computers \cup {NoComputer} /\ UNCHANGED <<computer, call, channel>>
    BY DEF Pair, Revoke
  <1>2. LinkType' /\ GoesOn(link, link')
    <2>1. CASE UNCHANGED link
      BY <2>1, SameGoesOn DEF RelayInv
    <2>2. CASE link' = CloseAll(link, {Connector}) /\ Connector # NoLink
      <3>1. {Connector} \subseteq Links
        BY <2>2, ConnectorIsReady, ReadyIsLinked DEF RelayInv
      <3> QED BY <2>2, <3>1, CloseAllCloses DEF RelayInv, LinkType
    <2> QED BY <2>1, <2>2 DEF Pair, Revoke
  <1>3. ComputerInv'
    BY <1>1, <1>2, ComputersStay DEF RelayInv, GoesOn
  <1>4. CallInv'
    BY <1>1, <1>2, CallsStay DEF RelayInv, GoesOn, CallInv
  <1>5. NoneStranded'
    BY <1>1, <1>2, NoneGetsStranded DEF RelayInv, GoesOn, CallInv
  <1>6. ChannelInv'
    BY <1>1 DEF RelayInv, ChannelInv
  <1> QED BY <1>1, <1>2, <1>3, <1>4, <1>5, <1>6 DEF RelayInv

-----------------------------------------------------------------------------
(* The steps of browsers *)

LEMMA CallPicked ==
  ASSUME RelayInv, NEW r \in Calls, Connector # NoLink,
         call' = [call EXCEPT ![r] = [at |-> "picked", on |-> Connector]],
         UNCHANGED <<token, link, computer, channel>>
  PROVE  RelayInv'
PROOF
  <1>1. Connector \in Links /\ link[Connector].ready /\ Connector \in Nat
    BY ConnectorIsReady, ReadyIsLinked DEF RelayInv
  <1>2. CallInv'
    BY <1>1 DEF RelayInv, CallInv, CallRecords, Links
  <1>3. NoneStranded'
    BY DEF RelayInv, CallInv, NoneStranded, Ready, Listed, Links
  <1> QED BY <1>2, <1>3 DEF RelayInv, LinkType, ComputerInv, Owns, ChannelInv

(* A request that is over, or waits for a computer. *)
LEMMA CallRests ==
  ASSUME RelayInv, NEW r \in Calls, NEW x \in CallRecords, x.at \in {"waiting", "done"},
         call' = [call EXCEPT ![r] = x], UNCHANGED <<token, link, computer, channel>>
  PROVE  RelayInv'
PROOF
  <1>1. CallInv'
    BY DEF RelayInv, CallInv, CallRecords, Links
  <1>2. NoneStranded'
    BY DEF RelayInv, CallInv, NoneStranded, Ready, Listed, Links
  <1> QED BY <1>1, <1>2 DEF RelayInv, LinkType, ComputerInv, Owns, ChannelInv

LEMMA CallEnds ==
  ASSUME RelayInv, NEW r \in Calls, call' = [call EXCEPT ![r].at = "done"],
         UNCHANGED <<token, link, computer, channel>>
  PROVE  RelayInv'
PROOF
  <1> DEFINE x == [call[r] EXCEPT !.at = "done"]
  <1>1. x \in CallRecords /\ x.at = "done"
    BY DEF RelayInv, CallInv, CallRecords
  <1>2. call' = [call EXCEPT ![r] = x]
    OBVIOUS
  <1> HIDE DEF x
  <1> QED BY <1>1, <1>2, CallRests

LEMMA CallSentKeeps ==
  ASSUME RelayInv, NEW r \in Calls, CallSent(r)
  PROVE  RelayInv'
PROOF
  <1> DEFINE s == call[r].on
             m == [type |-> "request", call |-> r]
  <1>1. s \in Links /\ LinkType
    BY DEF RelayInv, CallInv, CallSent
  <1>2. CASE Sendable(s)
    <2>1. link' = Down(link, s, m) /\ call' = [call EXCEPT ![r].at = "sent"]
          /\ UNCHANGED <<token, computer, channel>>
      BY <1>2 DEF CallSent
    <2>2. m \in DownMessages
      BY DEF DownMessages
    <2>3. LinkType' /\ GoesOn(link, link')
      BY <1>1, <2>1, <2>2, DownGoesOn
    <2>4. call' \in [Calls -> CallRecords]
      BY <2>1 DEF RelayInv, CallInv, CallRecords
    <2>5. \A q \in Calls : /\ call'[q].on = call[q].on
                           /\ call'[q].at \in {"picked", "sent"} => call[q].at \in {"picked", "sent"}
                           /\ call'[q].at = "sent" => q = r \/ call[q].at = "sent"
      BY <2>1 DEF RelayInv, CallInv, CallRecords, CallSent
    <2>6. CallInv'
      BY <2>3, <2>4, <2>5, CallsStay DEF RelayInv, GoesOn
    <2>7. link[s].relay # "ended"
      BY <1>2 DEF Sendable
    <2>8. NoneStranded'
      BY <2>3, <2>5, <2>7, NoneGetsStranded DEF RelayInv, GoesOn
    <2>9. ComputerInv'
      BY <2>1, <2>3, ComputersStay DEF RelayInv, GoesOn
    <2>10. ChannelInv'
      BY <2>1 DEF RelayInv, ChannelInv
    <2> QED BY <2>1, <2>3, <2>6, <2>8, <2>9, <2>10 DEF RelayInv
  <1>3. CASE ~Sendable(s)
    BY <1>3, CallEnds DEF CallSent
  <1> QED BY <1>2, <1>3

LEMMA CallStepsKeep ==
  ASSUME RelayInv, NEW r \in Calls,
         CallStarts(r) \/ CallOffline(r) \/ CallPicks(r) \/ CallSent(r) \/ CallTimesOut(r)
  PROVE  RelayInv'
PROOF
  <1>1. CASE CallStarts(r)
    <2>1. CASE Connector # NoLink
      BY <1>1, <2>1, CallPicked DEF CallStarts
    <2>2. CASE Connector = NoLink
      <3>1. [at |-> "waiting", on |-> NoLink] \in CallRecords
        BY DEF CallRecords, NoLink
      <3> QED BY <1>1, <2>2, <3>1, CallRests DEF CallStarts
    <2> QED BY <2>1, <2>2
  <1>2. CASE CallOffline(r)
    BY <1>2, CallEnds DEF CallOffline
  <1>3. CASE CallPicks(r)
    BY <1>3, CallPicked DEF CallPicks
  <1>4. CASE CallSent(r)
    BY <1>4, CallSentKeeps
  <1>5. CASE CallTimesOut(r)
    BY <1>5, CallEnds DEF CallTimesOut
  <1> QED BY <1>1, <1>2, <1>3, <1>4, <1>5

(* What a websocket of a browser does to the relay: its own state, and a message sent. *)
LEMMA ChannelStepKeeps ==
  ASSUME RelayInv, ChannelInv', LinkType', GoesOn(link, link'), UNCHANGED <<token, computer, call>>
  PROVE  RelayInv'
PROOF
  <1>1. ComputerInv'
    BY ComputersStay DEF RelayInv, GoesOn
  <1> QED BY <1>1, AllStays

LEMMA SentToConnector ==
  ASSUME LinkType, NEW m \in DownMessages,
         link' = IF Connector # NoLink /\ Sendable(Connector) THEN Down(link, Connector, m) ELSE link
  PROVE  LinkType' /\ GoesOn(link, link')
PROOF
  <1>1. CASE Connector # NoLink /\ Sendable(Connector)
    <2>1. Connector \in Links
      BY <1>1, ConnectorIsReady, ReadyIsLinked
    <2>2. link' = Down(link, Connector, m)
      BY <1>1
    <2> QED BY <2>1, <2>2, DownGoesOn
  <1>2. CASE ~(Connector # NoLink /\ Sendable(Connector))
    BY <1>2, SameGoesOn
  <1> QED BY <1>1, <1>2

LEMMA ChannelStepsKeep ==
  ASSUME RelayInv, NEW ch \in Channels,
         OpenStarts(ch) \/ OpenTimesOut(ch) \/ Accepted(ch) \/ BrowserSends(ch) \/ BrowserLeaves(ch)
  PROVE  RelayInv'
PROOF
  <1>1. CASE OpenStarts(ch)
    <2>1. [type |-> "open", channel |-> ch] \in DownMessages
      BY DEF DownMessages
    <2>2. LinkType' /\ GoesOn(link, link')
      BY <1>1, <2>1, SentToConnector DEF OpenStarts, RelayInv
    <2> DEFINE at == IF Connector # NoLink /\ Sendable(Connector) THEN "opening" ELSE "refused"
    <2>3. channel' = [channel EXCEPT ![ch].at = at] /\ at \in ChannelStates
      BY <1>1 DEF OpenStarts, ChannelStates
    <2> HIDE DEF at
    <2>4. ChannelInv'
      BY <2>3, ChannelMoves DEF RelayInv
    <2> QED BY <1>1, <2>2, <2>4, ChannelStepKeeps DEF OpenStarts
  <1>2. CASE OpenTimesOut(ch) \/ BrowserSends(ch)
    <2>1. PICK at \in {"refused", "closed"} : channel' = [channel EXCEPT ![ch].at = at]
      BY <1>2 DEF OpenTimesOut, BrowserSends
    <2>2. ChannelInv'
      BY <2>1, ChannelMoves DEF RelayInv, ChannelStates
    <2>3. UNCHANGED <<token, link, computer, call>>
      BY <1>2 DEF OpenTimesOut, BrowserSends
    <2> QED BY <2>2, <2>3, SameGoesOn, ChannelStepKeeps DEF RelayInv
  <1>3. CASE Accepted(ch)
    <2>1. channel[ch].early \in Seq(UpMessages)
      BY DEF RelayInv, ChannelInv, ChannelRecords
    <2>2. Caught(channel[ch].early) \in ChannelRecords
      BY <2>1, CaughtUp
    <2>3. ChannelInv'
      BY <1>3, <2>2, ChannelSet DEF RelayInv, Accepted
    <2>4. UNCHANGED <<token, link, computer, call>>
      BY <1>3 DEF Accepted
    <2> QED BY <2>3, <2>4, SameGoesOn, ChannelStepKeeps DEF RelayInv
  <1>4. CASE BrowserLeaves(ch)
    <2>1. [type |-> "close", channel |-> ch] \in DownMessages
      BY DEF DownMessages
    <2>2. LinkType' /\ GoesOn(link, link')
      BY <1>4, <2>1, SentToConnector DEF BrowserLeaves, Left, RelayInv
    <2>3. ChannelInv'
      BY <1>4, ChannelMoves DEF RelayInv, BrowserLeaves, ChannelStates
    <2> QED BY <1>4, <2>2, <2>3, ChannelStepKeeps DEF BrowserLeaves
  <1> QED BY <1>1, <1>2, <1>3, <1>4

-----------------------------------------------------------------------------
(* The steps of a computer *)

(* One that changes its own state and sends a message up, or takes one. *)
LEMMA ComputerStepKeeps ==
  ASSUME RelayInv, NEW c \in Computers, LinkType', GoesOn(link, link'),
         NEW p \in ComputerRecords, Owns(p, c, link'), Set(c, p), UNCHANGED <<token, call, channel>>
  PROVE  RelayInv'
PROOF
  <1>1. ComputerInv'
    BY ComputerChanges DEF RelayInv, GoesOn, Set
  <1>2. ChannelInv'
    BY DEF RelayInv, ChannelInv
  <1> QED BY <1>1, <1>2, AllStays

(* A change that leaves its connection and what it says of it alone. *)
LEMMA OwnsStill ==
  ASSUME ComputerInv, NEW c \in Computers, ReadyStays(link, link'), OwnersStay(link, link'),
         NEW p, p.at = computer[c].at, p.link = computer[c].link, p.pumps \subseteq p.local
  PROVE  Owns(p, c, link')
BY DEF ComputerInv, Owns, ReadyStays, OwnersStay

LEMMA AskKeeps ==
  ASSUME RelayInv, NEW c \in Computers, Ask(c)
  PROVE  RelayInv'
PROOF
  <1> DEFINE p == [computer[c] EXCEPT !.at = "asked"]
  <1>1. computer[c] \in ComputerRecords /\ Owns(computer[c], c, link) /\ computer[c].at = "idle"
    BY DEF RelayInv, ComputerInv, Ask
  <1>2. p \in ComputerRecords /\ p.at = "asked" /\ p.link = computer[c].link
        /\ p.pumps = computer[c].pumps /\ p.local = computer[c].local
    BY <1>1 DEF ComputerRecords
  <1>3. Set(c, p) /\ UNCHANGED <<token, link, call, channel>>
    BY DEF Ask
  <1> HIDE DEF p
  <1>4. Owns(p, c, link')
    BY <1>1, <1>2, <1>3 DEF Owns
  <1> QED BY <1>2, <1>3, <1>4, SameGoesOn, ComputerStepKeeps DEF RelayInv

LEMMA DialKeeps ==
  ASSUME RelayInv, RelayConstants, NEW c \in Computers, Dial(c)
  PROVE  RelayInv'
PROOF
  <1>1. /\ computer[c] \in ComputerRecords /\ Owns(computer[c], c, link) /\ computer[c].at = "asked"
        /\ Len(link) < MaxLinks /\ LinkType
    BY DEF RelayInv, ComputerInv, Dial
  <1>2. CASE token = c
    <2> DEFINE p == [computer[c] EXCEPT !.at = "hello", !.link = Len(link) + 1]
    <2>1. NewLink(c) \in LinkRecords
      <3>1. <<[type |-> "hello"]>> \in Seq(UpMessages) /\ <<>> \in Seq(DownMessages)
        BY DEF UpMessages
      <3> QED BY <3>1 DEF NewLink, LinkRecords
    <2>2. link' = Append(link, NewLink(c)) /\ Set(c, p)
      BY <1>2 DEF Dial
    <2>3. NewLink(c).owner = c /\ NewLink(c).far = "open"
      BY DEF NewLink
    <2> HIDE DEF NewLink
    <2>4. /\ LinkType' /\ DOMAIN link' = 1..(Len(link) + 1) /\ DOMAIN link = 1..Len(link)
          /\ Len(link) \in Nat
          /\ link'[Len(link) + 1] = NewLink(c) /\ \A s \in DOMAIN link : link'[s] = link[s]
      BY <1>1, <2>1, <2>2 DEF LinkType, RelayConstants
    <2>5. GoesOn(link, link')
      BY <2>4 DEF GoesOn, ReadyStays, NoneEnds, OwnersStay
    <2>6. p \in ComputerRecords /\ p.at = "hello" /\ p.link = Len(link) + 1
          /\ p.pumps = computer[c].pumps /\ p.local = computer[c].local
      <3>1. Len(link) + 1 \in Nat
        BY <2>4
      <3>2. computer[c] \in ComputerRecords
        BY <1>1
      <3> QED BY <3>1, <3>2 DEF ComputerRecords
    <2> HIDE DEF p
    <2>7. Owns(p, c, link')
      BY <1>1, <2>3, <2>4, <2>6 DEF Owns, NoLink
    <2> QED BY <2>2, <2>4, <2>5, <2>6, <2>7, ComputerStepKeeps DEF Dial
  <1>3. CASE token # c
    <2> DEFINE p == [computer[c] EXCEPT !.at = "idle"]
    <2>1. p \in ComputerRecords /\ p.at = "idle" /\ p.link = computer[c].link
          /\ p.pumps = computer[c].pumps /\ p.local = computer[c].local
      BY <1>1 DEF ComputerRecords
    <2>2. Set(c, p) /\ UNCHANGED <<token, link, call, channel>>
      BY <1>3 DEF Dial
    <2> HIDE DEF p
    <2>3. Owns(p, c, link')
      BY <1>1, <2>1, <2>2 DEF Owns
    <2> QED BY <1>1, <2>1, <2>2, <2>3, SameGoesOn, ComputerStepKeeps
  <1> QED BY <1>2, <1>3

(* What a message does to the computer it reaches. *)
LEMMA ReceivedIsTyped ==
  ASSUME NEW q \in ComputerRecords, NEW m \in DownMessages, q.pumps \subseteq q.local, NEW p,
         p = CASE m.type = "hello_accepted" -> [q EXCEPT !.at = "connected"]
               [] m.type = "request" -> [q EXCEPT !.calls = @ \cup {m.call}]
               [] m.type = "open" -> [q EXCEPT !.opening = @ \cup {m.channel}]
               [] m.type = "close" -> [q EXCEPT !.local = @ \ {m.channel}, !.pumps = @ \ {m.channel}]
  PROVE  p \in ComputerRecords /\ p.link = q.link /\ p.pumps \subseteq p.local /\ p.at \in {q.at, "connected"}
PROOF
  <1>1. CASE m.type = "hello_accepted"
    BY <1>1 DEF ComputerRecords
  <1>2. CASE m.type = "request"
    <2>1. m.call \in Calls
      BY <1>2 DEF DownMessages
    <2> QED BY <1>2, <2>1 DEF ComputerRecords
  <1>3. CASE m.type = "open"
    <2>1. m.channel \in Channels
      BY <1>3 DEF DownMessages
    <2> QED BY <1>3, <2>1 DEF ComputerRecords
  <1>4. CASE m.type = "close"
    BY <1>4 DEF ComputerRecords
  <1>5. m.type \in {"hello_accepted", "request", "open", "close"}
    BY DEF DownMessages
  <1> QED BY <1>1, <1>2, <1>3, <1>4, <1>5

LEMMA ReceiveKeeps ==
  ASSUME RelayInv, NEW c \in Computers, Receive(c)
  PROVE  RelayInv'
PROOF
  <1> DEFINE q == computer[c]
             s == q.link
             m == Head(link[s].down)
             p == CASE m.type = "hello_accepted" -> [q EXCEPT !.at = "connected"]
                    [] m.type = "request" -> [q EXCEPT !.calls = @ \cup {m.call}]
                    [] m.type = "open" -> [q EXCEPT !.opening = @ \cup {m.channel}]
                    [] m.type = "close" -> [q EXCEPT !.local = @ \ {m.channel}, !.pumps = @ \ {m.channel}]
  <1>1. /\ q \in ComputerRecords /\ Owns(q, c, link) /\ s # NoLink /\ s \in Links /\ LinkType
        /\ link[s].down # <<>>
    BY DEF RelayInv, ComputerInv, Owns, Receive, Links
  <1>2. link[s] \in LinkRecords
    BY <1>1, LinksAreNumbered
  <1>3. m \in DownMessages /\ Tail(link[s].down) \in Seq(DownMessages) /\ link[s].up \in Seq(UpMessages)
    BY <1>1, <1>2 DEF LinkRecords
  <1>4. link' = [link EXCEPT ![s] = [@ EXCEPT !.up = link[s].up, !.down = Tail(link[s].down)]]
    BY <1>2 DEF Receive, LinkRecords
  <1>5. LinkType' /\ GoesOn(link, link')
    BY <1>1, <1>3, <1>4, CarriedGoesOn
  <1>6. Set(c, p) /\ UNCHANGED <<token, call, channel>>
    BY DEF Receive
  <1>7. p \in ComputerRecords /\ p.link = s /\ p.pumps \subseteq p.local /\ p.at \in {q.at, "connected"}
    <2> HIDE DEF m
    <2> QED BY <1>1, <1>3, ReceivedIsTyped DEF Owns
  <1> HIDE DEF p
  <1>8. Owns(p, c, link')
    BY <1>1, <1>5, <1>7 DEF Owns, GoesOn, ReadyStays, OwnersStay
  <1> QED BY <1>5, <1>6, <1>7, <1>8, ComputerStepKeeps

(* A task of a computer changes what it works on and sends a message. *)
LEMMA TaskKeeps ==
  ASSUME RelayInv, NEW c \in Computers, NEW m \in UpMessages, Up(c, m), NEW p \in ComputerRecords, Set(c, p),
         p.at = computer[c].at, p.link = computer[c].link, p.pumps \subseteq p.local,
         UNCHANGED <<token, call, channel>>
  PROVE  RelayInv'
PROOF
  <1>1. LinkType' /\ GoesOn(link, link')
    BY UpGoesOn DEF RelayInv
  <1>2. Owns(p, c, link')
    BY <1>1, OwnsStill DEF RelayInv, GoesOn
  <1> QED BY <1>1, <1>2, ComputerStepKeeps

LEMMA RespondsKeeps ==
  ASSUME RelayInv, NEW c \in Computers, NEW r \in Calls, Responds(c, r)
  PROVE  RelayInv'
PROOF
  <1> DEFINE q == computer[c]
             p == [q EXCEPT !.calls = @ \ {r}]
  <1>1. q \in ComputerRecords /\ q.pumps \subseteq q.local
    BY DEF RelayInv, ComputerInv, Owns
  <1>2. /\ p \in ComputerRecords /\ p.at = q.at /\ p.link = q.link /\ p.pumps \subseteq p.local
    BY <1>1 DEF ComputerRecords
  <1>3. Set(c, p) /\ UNCHANGED <<token, call, channel>> /\ Up(c, [type |-> "response", call |-> r])
    BY DEF Responds
  <1>4. [type |-> "response", call |-> r] \in UpMessages
    BY DEF UpMessages
  <1> HIDE DEF p
  <1> QED BY <1>2, <1>3, <1>4, TaskKeeps

LEMMA TasksKeep ==
  ASSUME RelayInv, NEW c \in Computers, NEW ch \in Channels,
         Opens(c, ch) \/ Pumps(c, ch) \/ LocalEnds(c, ch)
  PROVE  RelayInv'
PROOF
  <1> DEFINE q == computer[c]
  <1>1. q \in ComputerRecords /\ q.pumps \subseteq q.local
    BY DEF RelayInv, ComputerInv, Owns
  <1>3. CASE Opens(c, ch)
    <2>1. CASE /\ Set(c, [q EXCEPT !.opening = @ \ {ch}, !.local = @ \cup {ch},
                                  !.pumps = IF q.link # NoLink THEN @ \cup {ch} ELSE @])
               /\ Up(c, [type |-> "opened", channel |-> ch])
      <3> DEFINE pumps == IF q.link # NoLink THEN q.pumps \cup {ch} ELSE q.pumps
                 p == [q EXCEPT !.opening = @ \ {ch}, !.local = @ \cup {ch}, !.pumps = pumps]
      <3>1. pumps \in SUBSET Channels /\ pumps \subseteq q.local \cup {ch}
        BY <1>1 DEF ComputerRecords
      <3>2. Set(c, p)
        BY <1>1, <2>1 DEF ComputerRecords
      <3> HIDE DEF pumps
      <3>3. /\ p \in ComputerRecords /\ p.at = q.at /\ p.link = q.link /\ p.pumps \subseteq p.local
        BY <1>1, <3>1 DEF ComputerRecords
      <3>4. [type |-> "opened", channel |-> ch] \in UpMessages
        BY DEF UpMessages
      <3> HIDE DEF p
      <3> QED BY <1>3, <2>1, <3>2, <3>3, <3>4, TaskKeeps DEF Opens
    <2>2. CASE Set(c, [q EXCEPT !.opening = @ \ {ch}]) /\ Up(c, [type |-> "error", channel |-> ch])
      <3> DEFINE p == [q EXCEPT !.opening = @ \ {ch}]
      <3>1. /\ p \in ComputerRecords /\ p.at = q.at /\ p.link = q.link /\ p.pumps \subseteq p.local
        BY <1>1 DEF ComputerRecords
      <3>2. [type |-> "error", channel |-> ch] \in UpMessages
        BY DEF UpMessages
      <3>3. Set(c, p)
        BY <2>2
      <3> HIDE DEF p
      <3> QED BY <1>3, <2>2, <3>1, <3>2, <3>3, TaskKeeps DEF Opens
    <2> QED BY <1>3, <2>1, <2>2 DEF Opens
  <1>4. CASE Pumps(c, ch)
    <2> DEFINE n == q.pumped[ch] + 1
               p == [q EXCEPT !.pumped[ch] = n]
    <2>1. n \in Nat
      BY <1>1 DEF ComputerRecords
    <2>2. Set(c, p) /\ UNCHANGED <<token, call, channel>> /\ Up(c, [type |-> "data", channel |-> ch, n |-> n])
      BY <1>4 DEF Pumps
    <2> HIDE DEF n
    <2>3. /\ p \in ComputerRecords /\ p.at = q.at /\ p.link = q.link /\ p.pumps \subseteq p.local
      BY <1>1, <2>1 DEF ComputerRecords
    <2>4. [type |-> "data", channel |-> ch, n |-> n] \in UpMessages
      BY <2>1 DEF UpMessages
    <2> HIDE DEF p
    <2> QED BY <2>2, <2>3, <2>4, TaskKeeps
  <1>5. CASE LocalEnds(c, ch)
    <2> DEFINE p == [q EXCEPT !.local = @ \ {ch}, !.pumps = @ \ {ch}]
    <2>1. /\ p \in ComputerRecords /\ p.at = q.at /\ p.link = q.link /\ p.pumps \subseteq p.local
      BY <1>1 DEF ComputerRecords
    <2>2. Set(c, p) /\ UNCHANGED <<token, call, channel>> /\ Up(c, [type |-> "close", channel |-> ch])
      BY <1>5 DEF LocalEnds
    <2>3. [type |-> "close", channel |-> ch] \in UpMessages
      BY DEF UpMessages
    <2> HIDE DEF p
    <2> QED BY <2>1, <2>2, <2>3, TaskKeeps
  <1> QED BY <1>3, <1>4, <1>5

(* The connection of a computer is over at its end: no other computer had it. *)
LEMMA OverKeeps ==
  ASSUME RelayInv, NEW c \in Computers, computer[c].link # NoLink, NEW u \in Seq(UpMessages),
         link' = [link EXCEPT ![computer[c].link] = [@ EXCEPT !.far = "ended", !.up = u, !.down = <<>>]],
         Set(c, [computer[c] EXCEPT !.at = "idle", !.link = NoLink, !.local = {}, !.pumps = {}]),
         UNCHANGED <<token, call, channel>>
  PROVE  RelayInv'
PROOF
  <1> DEFINE s == computer[c].link
             rec == [link[s] EXCEPT !.far = "ended", !.up = u, !.down = <<>>]
             p == [computer[c] EXCEPT !.at = "idle", !.link = NoLink, !.local = {}, !.pumps = {}]
  <1>1. computer[c] \in ComputerRecords /\ s \in Links /\ link[s].owner = c /\ LinkType
    BY DEF RelayInv, ComputerInv, Owns, Links
  <1>2. link[s] \in LinkRecords
    BY <1>1, LinksAreNumbered
  <1>3. /\ rec \in LinkRecords
        /\ rec.ready = link[s].ready /\ rec.relay = link[s].relay
    <2>1. <<>> \in Seq(DownMessages)
      OBVIOUS
    <2> HIDE DEF s
    <2> QED BY <1>2, <2>1 DEF LinkRecords
  <1>4. link' = [link EXCEPT ![s] = rec]
    OBVIOUS
  <1>5. p \in ComputerRecords /\ p.at = "idle" /\ p.link = NoLink /\ p.pumps = {}
    BY <1>1 DEF ComputerRecords, NoLink
  <1>6. computer' = [computer EXCEPT ![c] = p]
    BY DEF Set
  <1> HIDE DEF rec, p
  <1>7. LinkType' /\ DOMAIN link' = Links /\ link'[s] = rec /\ \A t \in Links \ {s} : link'[t] = link[t]
    BY <1>1, <1>3, <1>4, ReplacedLink DEF LinkType
  <1>8. ReadyStays(link, link') /\ NoneEnds(link, link')
    BY <1>1, <1>3, <1>7 DEF ReadyStays, NoneEnds, Links
  <1>9. ComputerInv'
    <2>1. computer' \in [Computers -> ComputerRecords] /\ computer'[c] = p
          /\ \A d \in Computers \ {c} : computer'[d] = computer[d]
      BY <1>5, <1>6 DEF RelayInv, ComputerInv
    <2>2. Owns(p, c, link')
      BY <1>5 DEF Owns
    <2>3. \A d \in Computers \ {c} : Owns(computer[d], d, link')
      <3> TAKE d \in Computers \ {c}
      <3>1. Owns(computer[d], d, link)
        BY DEF RelayInv, ComputerInv
      <3>2. computer[d].link # s
        BY <1>1, <3>1 DEF Owns, NoLink
      <3> QED BY <1>7, <3>1, <3>2 DEF Owns, Links
    <2> QED BY <2>1, <2>2, <2>3 DEF ComputerInv
  <1>10. CallInv'
    BY <1>1, <1>8, CallsStay DEF RelayInv, CallInv
  <1>11. NoneStranded'
    BY <1>1, <1>7, <1>8, NoneGetsStranded DEF RelayInv, CallInv
  <1>12. ChannelInv'
    BY DEF RelayInv, ChannelInv
  <1> QED BY <1>7, <1>9, <1>10, <1>11, <1>12 DEF RelayInv

LEMMA ComputerEndsKeeps ==
  ASSUME RelayInv, NEW c \in Computers, ComputerSeesEnd(c) \/ Drop(c)
  PROVE  RelayInv'
PROOF
  <1> DEFINE s == computer[c].link
  <1>1. s # NoLink /\ s \in Links /\ link[s] \in LinkRecords
    BY LinksAreNumbered DEF RelayInv, ComputerInv, Owns, Links, ComputerSeesEnd, Drop
  <1>2. link[s].up \in Seq(UpMessages) /\ <<>> \in Seq(UpMessages)
    BY <1>1 DEF LinkRecords
  <1>3. CASE ComputerSeesEnd(c)
    <2>1. link' = [link EXCEPT ![s] = [@ EXCEPT !.far = "ended", !.up = link[s].up, !.down = <<>>]]
      BY <1>1, <1>3 DEF ComputerSeesEnd, Over, LinkRecords
    <2> QED BY <1>1, <1>2, <1>3, <2>1, OverKeeps DEF ComputerSeesEnd, Over
  <1>4. CASE Drop(c)
    <2>1. link' = [link EXCEPT ![s] = [@ EXCEPT !.far = "ended", !.up = <<>>, !.down = <<>>]]
      BY <1>1, <1>4 DEF Drop, Over, LinkRecords
    <2> QED BY <1>1, <1>2, <1>4, <2>1, OverKeeps DEF Drop, Over
  <1> QED BY <1>3, <1>4

-----------------------------------------------------------------------------
(* Theorems *)

LEMMA RelayInvInit ==
  ASSUME RelayConstants, Init
  PROVE  RelayInv
PROOF
  <1>1. LinkType
    BY DEF Init, LinkType, RelayConstants
  <1>2. ComputerInv
    BY DEF Init, ComputerInv, ComputerRecords, Owns, NoLink
  <1>3. CallInv /\ NoneStranded
    BY DEF Init, CallInv, CallRecords, NoneStranded, NoLink
  <1>4. ChannelInv
    BY DEF Init, ChannelInv, ChannelRecords, ChannelStates
  <1> QED BY <1>1, <1>2, <1>3, <1>4 DEF RelayInv, Init, RelayConstants

LEMMA RelayInvNext ==
  ASSUME RelayConstants, RelayInv, [Next]_vars
  PROVE  RelayInv'
PROOF
  <1>1. CASE Relay
    BY <1>1, FromConnectorKeeps, RelaySeesEndKeeps, RelayLosesKeeps DEF Relay
  <1>2. CASE Browser
    BY <1>2, CallStepsKeep, ChannelStepsKeep DEF Browser
  <1>3. ASSUME NEW c \in Computers, Connect(c) \/ Drop(c) \/ Pair(c) \/ Revoke(c)
        PROVE  RelayInv'
    BY <1>3, AskKeeps, DialKeeps, ReceiveKeeps, ComputerEndsKeeps, PairingKeeps DEF Connect
  <1>4. ASSUME NEW c \in Computers, NEW r \in Calls, Responds(c, r)
        PROVE  RelayInv'
    BY <1>4, RespondsKeeps
  <1>5. ASSUME NEW c \in Computers, NEW ch \in Channels, Opens(c, ch) \/ Pumps(c, ch) \/ LocalEnds(c, ch)
        PROVE  RelayInv'
    BY <1>5, TasksKeep
  <1>6. CASE UNCHANGED vars
    <2>1. UNCHANGED link /\ UNCHANGED <<token, computer, call, channel>>
      BY <1>6 DEF vars
    <2> QED BY <2>1, SameGoesOn, ChannelStepKeeps DEF RelayInv, ChannelInv
  <1> QED BY <1>1, <1>2, <1>3, <1>4, <1>5, <1>6 DEF Next

LEMMA RelayInvAlways == Spec => []RelayInv
PROOF
  <1>1. Init => RelayInv
    BY RelayInvInit, RelayConstants
  <1>2. RelayInv /\ [Next]_vars => RelayInv'
    BY RelayInvNext, RelayConstants
  <1> QED BY <1>1, <1>2, PTL DEF Spec

(* The types, and that a computer that says it is connected has a connection of its own
   which is open at its end (remote_connector.py, run and _connect_once). *)
THEOREM RelayTypes == Spec => []TypeOK
PROOF
  <1>1. RelayInv => TypeOK
    BY DEF RelayInv, TypeOK, LinkType, ComputerInv, ComputerRecords, Owns, CallInv, CallRecords,
           ChannelInv, ChannelRecords, ChannelStates, Links
  <1> QED BY <1>1, RelayInvAlways, PTL

(* Whichever connections come, take each other's place and end, at whichever end first, no
   request waits on one that has ended while no other is ready (socketEnded). *)
THEOREM NoRequestIsStranded == Spec => []NoneStranded
PROOF
  <1>1. RelayInv => NoneStranded
    BY DEF RelayInv
  <1> QED BY <1>1, RelayInvAlways, PTL

-----------------------------------------------------------------------------
(* The stream of a websocket *)

(* What is said of one: up, what its local socket sent and that it closed; down, that it
   is to be opened. *)
Told(ch) == {m \in UpMessages : m.type \in {"data", "close"} /\ m.channel = ch}
Data(ch) == {m \in Told(ch) : m.type = "data"}
Asking(ch) == {m \in DownMessages : m.type = "open" /\ m.channel = ch}

Silent(u, A) == \A i \in DOMAIN u : u[i] \notin A

(* It is opened once: the order to is on its way, or a computer is at it, or neither. *)
Asked(ch) ==
  \/ \E s \in Links : ~Silent(link[s].down, Asking(ch))
  \/ \E c \in Computers : ch \in computer[c].opening

AskedOnce(ch) ==
  /\ \A s, t \in Links : \A i \in DOMAIN link[s].down, j \in DOMAIN link[t].down :
       link[s].down[i] \in Asking(ch) /\ link[t].down[j] \in Asking(ch) => s = t /\ i = j
  /\ \A c \in Computers : ch \in computer[c].opening =>
       /\ \A s \in Links : Silent(link[s].down, Asking(ch))
       /\ \A d \in Computers : ch \in computer[d].opening => d = c

(* Until then nothing is sent. *)
Quiet(ch) ==
  /\ \A s \in Links : Silent(link[s].up, Told(ch))
  /\ \A c \in Computers : ch \notin computer[c].pumps /\ computer[c].pumped[ch] = 0
  /\ channel[ch].early = <<>> /\ channel[ch].got = <<>>

(* What came before the browser's end was accepted: the first k messages, and closes. *)
Waits(e, ch, k) ==
  /\ k \in 0..Len(e)
  /\ \A i \in 1..k : e[i] \in Data(ch) /\ e[i].n = i
  /\ \A i \in (k + 1)..Len(e) : e[i].type = "close"

Delivered(x, ch, k) == IF x.at = "open" THEN k = Len(x.got) ELSE Waits(x.early, ch, k)

(* Of p messages sent the ones after the k-th are on the way, in order and each after all
   that were sent before it, and none behind a close. *)
Flows(u, ch, k, p) ==
  /\ k <= p
  /\ \A i \in DOMAIN u : u[i] \in Data(ch) =>
       /\ u[i].n \in (k + 1)..p
       /\ \A n \in (k + 1)..(u[i].n - 1) : \E j \in 1..(i - 1) : u[j] \in Data(ch) /\ u[j].n = n
       /\ \A j \in 1..(i - 1) : u[j] \in Told(ch) => u[j] \in Data(ch) /\ u[j].n < u[i].n

(* While more may be sent, none is missing. *)
Unbroken(u, ch, k, p) ==
  /\ \A n \in (k + 1)..p : \E j \in DOMAIN u : u[j] \in Data(ch) /\ u[j].n = n
  /\ \A j \in DOMAIN u : u[j] \in Told(ch) => u[j] \in Data(ch)

Live(x) == x.at \in {"opening", "opened", "open"}

InStep(ch, c, s, k) ==
  /\ Flows(link[s].up, ch, k, computer[c].pumped[ch])
  /\ ch \in computer[c].pumps => Unbroken(link[s].up, ch, k, computer[c].pumped[ch])
  /\ channel[ch].at # "open" /\ k < Len(channel[ch].early) =>
       Silent(link[s].up, Data(ch)) /\ ch \notin computer[c].pumps

(* Then one computer sends it, all of it on one connection. *)
Carried(ch, c, s) ==
  /\ \A d \in Computers : ch \in computer[d].pumps => d = c /\ computer[d].link = s
  /\ \A t \in Links \ {s} : Silent(link[t].up, Told(ch))
  /\ Live(channel[ch]) =>
       \E k \in Nat : Delivered(channel[ch], ch, k) /\ (s \in Listed => InStep(ch, c, s, k))

InOrder(got) == \A i \in DOMAIN got : got[i] = i

Stream(ch) ==
  /\ channel[ch].at = "new" => ~Asked(ch)
  /\ AskedOnce(ch)
  /\ channel[ch].at = "new" \/ Asked(ch) => Quiet(ch)
  /\ Quiet(ch) \/ \E c \in Computers, s \in Links : Carried(ch, c, s)
  /\ InOrder(channel[ch].got)

StreamInv == \A ch \in Channels : Stream(ch)

(* Messages of A come from u and keep their order; all of those of u are there. *)
Follows(u, v, A) ==
  \E o \in {0, 1} : \A i \in DOMAIN v : v[i] \in A => i + o \in DOMAIN u /\ u[i + o] = v[i]

Keeps(u, v, A) ==
  \E o \in {0, 1} :
    /\ \A i \in DOMAIN v : v[i] \in A => i + o \in DOMAIN u /\ u[i + o] = v[i]
    /\ \A i \in DOMAIN u : u[i] \in A => i - o \in DOMAIN v /\ v[i - o] = u[i]

LEMMA SameKeeps ==
  ASSUME NEW M, NEW u \in Seq(M), NEW A
  PROVE  Keeps(u, u, A) /\ Follows(u, u, A)
PROOF
  <1>1. \A i \in DOMAIN u : i + 0 = i /\ i - 0 = i
    OBVIOUS
  <1> QED BY <1>1 DEF Keeps, Follows

LEMMA AppendKeeps ==
  ASSUME NEW M, NEW u \in Seq(M), NEW m \in M, NEW A, m \notin A
  PROVE  Keeps(u, Append(u, m), A) /\ Follows(u, Append(u, m), A)
PROOF
  <1> DEFINE v == Append(u, m)
  <1>1. /\ DOMAIN u = 1..Len(u) /\ DOMAIN v = 1..(Len(u) + 1) /\ Len(u) \in Nat
        /\ v[Len(u) + 1] = m /\ \A i \in 1..Len(u) : v[i] = u[i]
    OBVIOUS
  <1> HIDE DEF v
  <1>2. \A i \in DOMAIN v : v[i] \in A => i + 0 \in DOMAIN u /\ u[i + 0] = v[i]
    BY <1>1
  <1>3. \A i \in DOMAIN u : u[i] \in A => i - 0 \in DOMAIN v /\ v[i - 0] = u[i]
    BY <1>1
  <1> QED BY <1>2, <1>3 DEF Keeps, Follows, v

LEMMA TailShifts ==
  ASSUME NEW M, NEW u \in Seq(M), u # <<>>
  PROVE  /\ DOMAIN Tail(u) = 1..(Len(u) - 1) /\ DOMAIN u = 1..Len(u) /\ Len(u) \in Nat /\ Len(u) >= 1
         /\ \A i \in DOMAIN Tail(u) : i + 1 \in DOMAIN u /\ Tail(u)[i] = u[i + 1]
         /\ \A i \in DOMAIN u \ {1} : i - 1 \in DOMAIN Tail(u) /\ Tail(u)[i - 1] = u[i]
         /\ Head(u) = u[1] /\ 1 \in DOMAIN u
PROOF
  <1>1. DOMAIN u = 1..Len(u) /\ Len(u) \in Nat /\ Len(u) >= 1 /\ Head(u) = u[1]
    OBVIOUS
  <1>2. Tail(u) \in Seq(M) /\ Len(Tail(u)) = Len(u) - 1
    OBVIOUS
  <1>3. DOMAIN Tail(u) = 1..(Len(u) - 1)
    BY <1>2
  <1>4. \A i \in 1..(Len(u) - 1) : Tail(u)[i] = u[i + 1]
    OBVIOUS
  <1> DEFINE v == Tail(u)
  <1> HIDE DEF v
  <1>5. \A i \in DOMAIN v : i + 1 \in DOMAIN u /\ v[i] = u[i + 1]
    BY <1>1, <1>3, <1>4 DEF v
  <1>6. ASSUME NEW i \in DOMAIN u \ {1} PROVE i - 1 \in DOMAIN v /\ v[i - 1] = u[i]
    <2>1. i - 1 \in 1..(Len(u) - 1) /\ (i - 1) + 1 = i
      BY <1>1
    <2> QED BY <1>3, <1>4, <2>1 DEF v
  <1> QED BY <1>1, <1>3, <1>5, <1>6 DEF v

LEMMA TailKeeps ==
  ASSUME NEW M, NEW u \in Seq(M), NEW A, u # <<>>
  PROVE  Follows(u, Tail(u), A) /\ (Head(u) \notin A => Keeps(u, Tail(u), A))
PROOF
  <1>1. /\ \A i \in DOMAIN Tail(u) : i + 1 \in DOMAIN u /\ Tail(u)[i] = u[i + 1]
        /\ \A i \in DOMAIN u \ {1} : i - 1 \in DOMAIN Tail(u) /\ Tail(u)[i - 1] = u[i]
        /\ Head(u) = u[1]
    BY TailShifts
  <1> DEFINE v == Tail(u)
  <1> HIDE DEF v
  <1>2. \A i \in DOMAIN v : v[i] \in A => i + 1 \in DOMAIN u /\ u[i + 1] = v[i]
    BY <1>1 DEF v
  <1>3. Head(u) \notin A => \A i \in DOMAIN u : u[i] \in A => i - 1 \in DOMAIN v /\ v[i - 1] = u[i]
    BY <1>1 DEF v
  <1> QED BY <1>2, <1>3 DEF Keeps, Follows, v

LEMMA NothingFollows ==
  ASSUME NEW u, NEW A
  PROVE  Follows(u, <<>>, A) /\ Silent(<<>>, A)
PROOF
  <1>1. DOMAIN <<>> = {}
    OBVIOUS
  <1> QED BY <1>1 DEF Follows, Silent

(* What stays silent. *)
LEMMA SilenceKeeps ==
  ASSUME NEW u, NEW v, NEW A, Silent(u, A), Keeps(u, v, A) \/ Follows(u, v, A)
  PROVE  Silent(v, A)
BY DEF Silent, Keeps, Follows

LEMMA FlowsOn ==
  ASSUME NEW u \in Seq(UpMessages), NEW v \in Seq(UpMessages), NEW ch, NEW k \in Nat, NEW p \in Nat,
         Keeps(u, v, Told(ch))
  PROVE  /\ Flows(u, ch, k, p) => Flows(v, ch, k, p)
         /\ Unbroken(u, ch, k, p) => Unbroken(v, ch, k, p)
         /\ Silent(u, Data(ch)) => Silent(v, Data(ch))
PROOF
  <1>1. PICK o \in {0, 1} :
          /\ \A i \in DOMAIN v : v[i] \in Told(ch) => i + o \in DOMAIN u /\ u[i + o] = v[i]
          /\ \A i \in DOMAIN u : u[i] \in Told(ch) => i - o \in DOMAIN v /\ v[i - o] = u[i]
    BY DEF Keeps
  <1>2. DOMAIN u \subseteq Nat /\ DOMAIN v \subseteq Nat /\ DOMAIN v = 1..Len(v) /\ DOMAIN u = 1..Len(u)
        /\ Len(u) \in Nat /\ Len(v) \in Nat
    OBVIOUS
  <1>3. \A m \in Data(ch) : m \in Told(ch) /\ m.n \in Nat
    BY DEF Data, Told, UpMessages
  <1>4. ASSUME Flows(u, ch, k, p) PROVE Flows(v, ch, k, p)
    <2>1. k <= p
      BY <1>4 DEF Flows
    <2> SUFFICES ASSUME NEW i \in DOMAIN v, v[i] \in Data(ch)
                 PROVE  /\ v[i].n \in (k + 1)..p
                        /\ \A n \in (k + 1)..(v[i].n - 1) : \E j \in 1..(i - 1) : v[j] \in Data(ch) /\ v[j].n = n
                        /\ \A j \in 1..(i - 1) : v[j] \in Told(ch) => v[j] \in Data(ch) /\ v[j].n < v[i].n
      BY <2>1 DEF Flows
    <2>2. i + o \in DOMAIN u /\ u[i + o] = v[i]
      BY <1>1, <1>3
    <2>3. /\ v[i].n \in (k + 1)..p
          /\ \A n \in (k + 1)..(v[i].n - 1) : \E j \in 1..(i + o - 1) : u[j] \in Data(ch) /\ u[j].n = n
          /\ \A j \in 1..(i + o - 1) : u[j] \in Told(ch) => u[j] \in Data(ch) /\ u[j].n < v[i].n
      BY <1>4, <2>2 DEF Flows
    <2>4. ASSUME NEW n \in (k + 1)..(v[i].n - 1) PROVE \E j \in 1..(i - 1) : v[j] \in Data(ch) /\ v[j].n = n
      <3>1. PICK j \in 1..(i + o - 1) : u[j] \in Data(ch) /\ u[j].n = n
        BY <2>3
      <3>2. j \in DOMAIN u
        BY <1>2, <2>2
      <3>3. j - o \in DOMAIN v /\ v[j - o] = u[j]
        BY <1>1, <1>3, <3>1, <3>2
      <3>4. j - o \in 1..(i - 1)
        BY <1>2, <3>3
      <3> QED BY <3>1, <3>3, <3>4
    <2>5. ASSUME NEW j \in 1..(i - 1), v[j] \in Told(ch) PROVE v[j] \in Data(ch) /\ v[j].n < v[i].n
      <3>1. j \in DOMAIN v
        BY <1>2
      <3>2. j + o \in DOMAIN u /\ u[j + o] = v[j]
        BY <1>1, <2>5, <3>1
      <3>3. j + o \in 1..(i + o - 1)
        BY <1>2, <3>2
      <3> QED BY <2>3, <2>5, <3>2, <3>3
    <2> QED BY <2>3, <2>4, <2>5
  <1>5. ASSUME Unbroken(u, ch, k, p) PROVE Unbroken(v, ch, k, p)
    <2>1. ASSUME NEW n \in (k + 1)..p PROVE \E j \in DOMAIN v : v[j] \in Data(ch) /\ v[j].n = n
      <3>1. PICK j \in DOMAIN u : u[j] \in Data(ch) /\ u[j].n = n
        BY <1>5 DEF Unbroken
      <3> QED BY <1>1, <1>3, <3>1
    <2>2. \A j \in DOMAIN v : v[j] \in Told(ch) => v[j] \in Data(ch)
      BY <1>1, <1>5 DEF Unbroken
    <2> QED BY <2>1, <2>2 DEF Unbroken
  <1>6. ASSUME Silent(u, Data(ch)) PROVE Silent(v, Data(ch))
    BY <1>1, <1>3, <1>6 DEF Silent
  <1> QED BY <1>4, <1>5, <1>6

(* On a connection with nothing on it nothing is out of step. *)
LEMMA NothingFlows ==
  ASSUME NEW ch, NEW k \in Nat, NEW p \in Nat, k <= p
  PROVE  Flows(<<>>, ch, k, p) /\ Silent(<<>>, Data(ch)) /\ (k = p => Unbroken(<<>>, ch, k, p))
PROOF
  <1>1. DOMAIN <<>> = {}
    OBVIOUS
  <1> QED BY <1>1 DEF Flows, Silent, Unbroken

-----------------------------------------------------------------------------
(* Steps that leave a stream alone *)

(* What is said on the connections of one of them stays in its order; one may lose all it
   carries, with those who use it. *)
UpsPass(ch) ==
  /\ Links \subseteq Links' /\ Listed' \cap Links \subseteq Listed
  /\ \A t \in Links : \/ Keeps(link[t].up, link'[t].up, Told(ch))
                      \/ /\ link'[t].up = <<>>
                         /\ t \in Listed' => \A d \in Computers : ch \in computer'[d].pumps => computer'[d].link # t
  /\ \A t \in Links' \ Links : Silent(link'[t].up, Told(ch))

DownsPass(ch) ==
  /\ \A t \in Links : Follows(link[t].down, link'[t].down, Asking(ch))
  /\ \A t \in Links' \ Links : Silent(link'[t].down, Asking(ch))

OpeningPasses(ch) == \A d \in Computers : ch \in computer'[d].opening => ch \in computer[d].opening

PumpsPass(ch) ==
  \A d \in Computers :
    /\ ch \in computer'[d].pumps => ch \in computer[d].pumps /\ computer'[d].link = computer[d].link
    /\ computer'[d].pumped[ch] = computer[d].pumped[ch]

GetsNothing(ch) == channel'[ch].early = channel[ch].early /\ channel'[ch].got = channel[ch].got

ChannelPasses(ch) ==
  /\ GetsNothing(ch)
  /\ \/ channel'[ch].at = channel[ch].at
     \/ channel'[ch].at \in {"refused", "closed"}
     \/ channel[ch].at = "opening" /\ channel'[ch].at = "opened"

LEMMA AskingPasses ==
  ASSUME LinkType, LinkType', NEW ch \in Channels, AskedOnce(ch), Links \subseteq Links',
         DownsPass(ch), OpeningPasses(ch)
  PROVE  AskedOnce(ch)' /\ (Asked(ch)' => Asked(ch))
PROOF
  <1>1. \A t \in Links' : ~Silent(link'[t].down, Asking(ch)) => t \in Links /\ ~Silent(link[t].down, Asking(ch))
    BY SilenceKeeps DEF DownsPass
  <1>2. Asked(ch)' => Asked(ch)
    BY <1>1 DEF Asked, OpeningPasses
  <1>3. ASSUME NEW s \in Links', NEW t \in Links', NEW i \in DOMAIN link'[s].down, NEW j \in DOMAIN link'[t].down,
               link'[s].down[i] \in Asking(ch), link'[t].down[j] \in Asking(ch)
        PROVE  s = t /\ i = j
    <2>1. s \in Links /\ t \in Links
      BY <1>1, <1>3 DEF Silent
    <2>2. PICK o \in {0, 1} : \A x \in DOMAIN link'[s].down :
            link'[s].down[x] \in Asking(ch) => x + o \in DOMAIN link[s].down /\ link[s].down[x + o] = link'[s].down[x]
      BY <2>1 DEF DownsPass, Follows
    <2>3. PICK q \in {0, 1} : \A x \in DOMAIN link'[t].down :
            link'[t].down[x] \in Asking(ch) => x + q \in DOMAIN link[t].down /\ link[t].down[x + q] = link'[t].down[x]
      BY <2>1 DEF DownsPass, Follows
    <2>4. i + o \in DOMAIN link[s].down /\ link[s].down[i + o] \in Asking(ch)
      BY <1>3, <2>2
    <2>5. j + q \in DOMAIN link[t].down /\ link[t].down[j + q] \in Asking(ch)
      BY <1>3, <2>3
    <2>6. s = t /\ i + o = j + q
      BY <2>1, <2>4, <2>5 DEF AskedOnce
    <2>7. j + o \in DOMAIN link[s].down /\ link[s].down[j + o] \in Asking(ch)
      BY <1>3, <2>2, <2>6
    <2>8. i + o = j + o
      BY <2>1, <2>4, <2>7 DEF AskedOnce
    <2>9. i \in Int /\ j \in Int
      <3>1. link'[s] \in LinkRecords /\ link'[t] \in LinkRecords
        BY DEF LinkType, Links
      <3>2. link'[s].down \in Seq(DownMessages) /\ link'[t].down \in Seq(DownMessages)
        BY <3>1 DEF LinkRecords
      <3> QED BY <3>2
    <2> QED BY <2>6, <2>8, <2>9
  <1>4. ASSUME NEW c \in Computers, ch \in computer'[c].opening
        PROVE  /\ \A s \in Links' : Silent(link'[s].down, Asking(ch))
               /\ \A d \in Computers : ch \in computer'[d].opening => d = c
    BY <1>1, <1>4 DEF AskedOnce, OpeningPasses
  <1> QED BY <1>2, <1>3, <1>4 DEF AskedOnce

LEMMA QuietPasses ==
  ASSUME NEW ch \in Channels, Quiet(ch), UpsPass(ch), PumpsPass(ch), GetsNothing(ch)
  PROVE  Quiet(ch)'
PROOF
  <1>1. \A t \in Links' : Silent(link'[t].up, Told(ch))
    BY SilenceKeeps, NothingFollows DEF UpsPass, Quiet
  <1> QED BY <1>1 DEF Quiet, PumpsPass, GetsNothing

LEMMA CarriedPasses ==
  ASSUME RelayInv, RelayInv', NEW ch \in Channels, NEW c \in Computers, NEW s \in Links, Carried(ch, c, s),
         UpsPass(ch), PumpsPass(ch), ChannelPasses(ch)
  PROVE  Carried(ch, c, s)'
PROOF
  <1>1. \A d \in Computers : ch \in computer'[d].pumps => d = c /\ computer'[d].link = s
    BY DEF Carried, PumpsPass
  <1>2. \A t \in Links' \ {s} : Silent(link'[t].up, Told(ch))
    BY SilenceKeeps, NothingFollows DEF UpsPass, Carried
  <1>3. ASSUME Live(channel[ch])'
        PROVE  \E k \in Nat : Delivered(channel[ch], ch, k)' /\ (s \in Listed' => InStep(ch, c, s, k)')
    <2>1. Live(channel[ch])
      BY <1>3 DEF Live, ChannelPasses
    <2>2. PICK k \in Nat : Delivered(channel[ch], ch, k) /\ (s \in Listed => InStep(ch, c, s, k))
      BY <2>1 DEF Carried
    <2>3. Delivered(channel[ch], ch, k)'
      BY <1>3, <2>2 DEF Delivered, ChannelPasses, GetsNothing, Live
    <2>4. ASSUME s \in Listed' PROVE InStep(ch, c, s, k)'
      <3>1. s \in Listed
        BY <2>4 DEF UpsPass
      <3>2. InStep(ch, c, s, k)
        BY <2>2, <3>1
      <3>3. link[s].up \in Seq(UpMessages) /\ link'[s].up \in Seq(UpMessages)
        <4>1. link[s] \in LinkRecords /\ link'[s] \in LinkRecords
          BY DEF RelayInv, LinkType, Links, UpsPass
        <4> QED BY <4>1 DEF LinkRecords
      <3> DEFINE p == computer[c].pumped[ch]
      <3>4. p \in Nat /\ computer'[c].pumped[ch] = p
        <4>1. computer[c] \in ComputerRecords
          BY DEF RelayInv, ComputerInv
        <4> QED BY <4>1 DEF PumpsPass, ComputerRecords
      <3>5. k <= p
        BY <3>2 DEF InStep, Flows
      <3>6. /\ channel'[ch].at # "open" /\ k < Len(channel'[ch].early) =>
                channel[ch].at # "open" /\ k < Len(channel[ch].early)
            /\ ch \in computer'[c].pumps => ch \in computer[c].pumps
        BY <1>3 DEF ChannelPasses, GetsNothing, PumpsPass, Live
      <3>7. CASE Keeps(link[s].up, link'[s].up, Told(ch))
        <4>1. /\ Flows(link[s].up, ch, k, p)
              /\ ch \in computer[c].pumps => Unbroken(link[s].up, ch, k, p)
          BY <3>2 DEF InStep
        <4>2. /\ Flows(link'[s].up, ch, k, p)
              /\ ch \in computer[c].pumps => Unbroken(link'[s].up, ch, k, p)
              /\ Silent(link[s].up, Data(ch)) => Silent(link'[s].up, Data(ch))
          <5> HIDE DEF p
          <5> QED BY <3>3, <3>4, <3>7, <4>1, FlowsOn
        <4> QED BY <3>2, <3>4, <3>6, <4>2 DEF InStep
      <3>8. CASE link'[s].up = <<>> /\ \A d \in Computers : ch \in computer'[d].pumps => computer'[d].link # s
        <4>1. ch \notin computer'[c].pumps
          BY <1>1, <3>8
        <4>2. Flows(link'[s].up, ch, k, p) /\ Silent(link'[s].up, Data(ch))
          <5> HIDE DEF p
          <5> QED BY <3>4, <3>5, <3>8, NothingFlows
        <4> QED BY <3>4, <4>1, <4>2 DEF InStep
      <3> QED BY <2>4, <3>7, <3>8 DEF UpsPass
    <2> QED BY <2>2, <2>3, <2>4
  <1> QED BY <1>1, <1>2, <1>3 DEF Carried

(* One whose connections, computers and state pass stays in order. *)
Passes(ch) == UpsPass(ch) /\ DownsPass(ch) /\ OpeningPasses(ch) /\ PumpsPass(ch) /\ ChannelPasses(ch)

LEMMA StreamPasses ==
  ASSUME RelayInv, RelayInv', NEW ch \in Channels, Stream(ch), Passes(ch)
  PROVE  Stream(ch)'
PROOF
  <1>1. AskedOnce(ch)' /\ (Asked(ch)' => Asked(ch))
    BY AskingPasses DEF Stream, Passes, UpsPass, RelayInv
  <1>2. Quiet(ch) => Quiet(ch)'
    BY QuietPasses DEF Passes, ChannelPasses
  <1>3. channel'[ch].at = "new" => channel[ch].at = "new"
    BY DEF Passes, ChannelPasses
  <1>4. Quiet(ch)' \/ (\E c \in Computers, s \in Links : Carried(ch, c, s))'
    <2>1. CASE Quiet(ch)
      BY <1>2, <2>1
    <2>2. ASSUME NEW c \in Computers, NEW s \in Links, Carried(ch, c, s) PROVE (\E d \in Computers, t \in Links : Carried(ch, d, t))'
      <3>1. Carried(ch, c, s)'
        BY <2>2, CarriedPasses DEF Passes
      <3>2. s \in Links'
        BY DEF Passes, UpsPass
      <3> QED BY <3>1, <3>2
    <2> QED BY <2>1, <2>2 DEF Stream
  <1>5. InOrder(channel'[ch].got)
    BY DEF Stream, Passes, ChannelPasses, GetsNothing
  <1> QED BY <1>1, <1>2, <1>3, <1>4, <1>5 DEF Stream

LEMMA StreamsPass ==
  ASSUME RelayInv, RelayInv', StreamInv, \A ch \in Channels : Passes(ch)
  PROVE  StreamInv'
BY StreamPasses DEF StreamInv

(* The connections *)

LEMMA SameLinksPass ==
  ASSUME LinkType, UNCHANGED link, NEW ch
  PROVE  UpsPass(ch) /\ DownsPass(ch)
PROOF
  <1>1. \A t \in Links : link[t].up \in Seq(UpMessages) /\ link[t].down \in Seq(DownMessages)
    BY LinksAreNumbered DEF LinkRecords
  <1>2. \A t \in Links : Keeps(link[t].up, link[t].up, Told(ch)) /\ Follows(link[t].down, link[t].down, Asking(ch))
    BY <1>1, SameKeeps
  <1> QED BY <1>2 DEF UpsPass, DownsPass, Links, Listed

LEMMA OneLinkPasses ==
  ASSUME LinkType, NEW s \in Links, NEW rec \in LinkRecords, link' = [link EXCEPT ![s] = rec], NEW ch,
         link[s].relay = "ended" => rec.relay = "ended"
  PROVE  /\ \/ Keeps(link[s].up, rec.up, Told(ch))
            \/ /\ rec.up = <<>>
               /\ rec.relay # "ended" => \A d \in Computers : ch \in computer'[d].pumps => computer'[d].link # s
            => UpsPass(ch)
         /\ Follows(link[s].down, rec.down, Asking(ch)) => DownsPass(ch)
PROOF
  <1>1. \A t \in Links : link[t].up \in Seq(UpMessages) /\ link[t].down \in Seq(DownMessages)
    BY LinksAreNumbered DEF LinkRecords
  <1>2. \A t \in Links : Keeps(link[t].up, link[t].up, Told(ch)) /\ Follows(link[t].down, link[t].down, Asking(ch))
    BY <1>1, SameKeeps
  <1>3. DOMAIN link' = Links /\ link'[s] = rec /\ \A t \in Links \ {s} : link'[t] = link[t]
    BY ReplacedLink
  <1>4. Links' = Links /\ Listed' \subseteq Listed /\ (s \in Listed' => rec.relay # "ended")
    BY <1>3 DEF Links, Listed
  <1> QED BY <1>2, <1>3, <1>4 DEF UpsPass, DownsPass

LEMMA DownPasses ==
  ASSUME LinkType, NEW s \in Links, NEW m \in DownMessages, link' = Down(link, s, m), NEW ch
  PROVE  /\ UpsPass(ch) /\ (m \notin Asking(ch) => DownsPass(ch))
         /\ link'[s].down = Append(link[s].down, m) /\ \A t \in Links \ {s} : link'[t] = link[t]
         /\ Links' = Links
PROOF
  <1> DEFINE rec == [link[s] EXCEPT !.down = Append(link[s].down, m)]
  <1>1. link[s] \in LinkRecords
    BY LinksAreNumbered
  <1>2. /\ rec \in LinkRecords /\ rec.up = link[s].up /\ rec.down = Append(link[s].down, m)
        /\ rec.relay = link[s].relay
    <2>1. Append(link[s].down, m) \in Seq(DownMessages)
      BY <1>1 DEF LinkRecords
    <2> QED BY <1>1, <2>1 DEF LinkRecords
  <1>3. link' = [link EXCEPT ![s] = rec]
    BY DEF Down
  <1>4. link[s].up \in Seq(UpMessages) /\ link[s].down \in Seq(DownMessages)
    BY <1>1 DEF LinkRecords
  <1> HIDE DEF rec
  <1>5. Keeps(link[s].up, rec.up, Told(ch)) /\ (m \notin Asking(ch) => Follows(link[s].down, rec.down, Asking(ch)))
    BY <1>2, <1>4, SameKeeps, AppendKeeps
  <1>6. UpsPass(ch) /\ (m \notin Asking(ch) => DownsPass(ch))
    BY <1>2, <1>3, <1>5, OneLinkPasses
  <1>7. DOMAIN link' = Links /\ link'[s] = rec /\ \A t \in Links \ {s} : link'[t] = link[t]
    BY <1>2, <1>3, ReplacedLink
  <1> QED BY <1>2, <1>6, <1>7 DEF Links

(* What goes up goes on the connection of the computer, if there is one. *)
LEMMA UpPasses ==
  ASSUME LinkType, ComputerInv, NEW c \in Computers, NEW m \in UpMessages, Up(c, m), NEW ch
  PROVE  /\ DownsPass(ch) /\ (m \notin Told(ch) => UpsPass(ch))
         /\ Links' = Links /\ Listed' = Listed /\ \A t \in Links \ {computer[c].link} : link'[t] = link[t]
         /\ IF computer[c].link = NoLink THEN link' = link
            ELSE computer[c].link \in Links /\ link'[computer[c].link].up = Append(link[computer[c].link].up, m)
PROOF
  <1> DEFINE s == computer[c].link
  <1>1. CASE s = NoLink
    <2>1. link' = link
      BY <1>1 DEF Up
    <2> QED BY <1>1, <2>1, SameLinksPass DEF Links, Listed
  <1>2. CASE s # NoLink
    <2> DEFINE rec == [link[s] EXCEPT !.up = Append(link[s].up, m)]
    <2>1. s \in Links /\ link[s].far = "open"
      BY <1>2 DEF ComputerInv, Owns, Links
    <2>2. link[s] \in LinkRecords
      BY <2>1, LinksAreNumbered
    <2>3. /\ rec \in LinkRecords /\ rec.up = Append(link[s].up, m) /\ rec.down = link[s].down
          /\ rec.relay = link[s].relay
      <3> HIDE DEF s
      <3>1. Append(link[s].up, m) \in Seq(UpMessages)
        BY <2>2 DEF LinkRecords
      <3> QED BY <2>2, <3>1 DEF LinkRecords
    <2>4. link' = [link EXCEPT ![s] = rec]
      BY <1>2, <2>1 DEF Up
    <2>5. link[s].up \in Seq(UpMessages) /\ link[s].down \in Seq(DownMessages)
      <3> HIDE DEF s
      <3> QED BY <2>2 DEF LinkRecords
    <2> HIDE DEF rec, s
    <2>6. (m \notin Told(ch) => Keeps(link[s].up, rec.up, Told(ch))) /\ Follows(link[s].down, rec.down, Asking(ch))
      BY <2>3, <2>5, SameKeeps, AppendKeeps
    <2>7. DownsPass(ch) /\ (m \notin Told(ch) => UpsPass(ch))
      BY <2>1, <2>3, <2>4, <2>6, OneLinkPasses
    <2>8. DOMAIN link' = Links /\ link'[s] = rec /\ \A t \in Links \ {s} : link'[t] = link[t]
      BY <2>1, <2>3, <2>4, ReplacedLink
    <2>9. Links' = Links /\ Listed' = Listed
      BY <2>1, <2>3, <2>8 DEF Links, Listed
    <2> QED BY <1>2, <2>1, <2>3, <2>7, <2>8, <2>9 DEF s
  <1> QED BY <1>1, <1>2

LEMMA ClosedLinksPass ==
  ASSUME LinkType, NEW S \in SUBSET Links, link' = CloseAll(link, S), NEW ch
  PROVE  UpsPass(ch) /\ DownsPass(ch)
PROOF
  <1>1. \A t \in Links : link[t] \in LinkRecords /\ link[t].up \in Seq(UpMessages) /\ link[t].down \in Seq(DownMessages)
    BY LinksAreNumbered DEF LinkRecords
  <1>2. \A t \in Links : Keeps(link[t].up, link[t].up, Told(ch)) /\ Follows(link[t].down, link[t].down, Asking(ch))
    BY <1>1, SameKeeps
  <1>3. /\ DOMAIN link' = Links
        /\ \A t \in Links : /\ link'[t].up = link[t].up /\ link'[t].down = link[t].down
                            /\ (link'[t].relay = "ended") <=> (link[t].relay = "ended")
    <2>1. \A l \in LinkRecords : [l EXCEPT !.relay = "closing"].up = l.up /\ [l EXCEPT !.relay = "closing"].down = l.down
                                 /\ [l EXCEPT !.relay = "closing"].relay = "closing"
      BY DEF LinkRecords
    <2> QED BY <1>1, <2>1 DEF CloseAll, Links
  <1>4. Links' = Links /\ Listed' = Listed
    BY <1>3 DEF Links, Listed
  <1> QED BY <1>2, <1>3, <1>4 DEF UpsPass, DownsPass

(* The computers *)

LEMMA SameComputersPass ==
  ASSUME UNCHANGED computer, NEW ch
  PROVE  OpeningPasses(ch) /\ PumpsPass(ch)
BY DEF OpeningPasses, PumpsPass

LEMMA SetPasses ==
  ASSUME ComputerInv, NEW c \in Computers, NEW p, Set(c, p), NEW ch
  PROVE  /\ computer'[c] = p /\ \A d \in Computers \ {c} : computer'[d] = computer[d]
         /\ (ch \in p.opening => ch \in computer[c].opening) => OpeningPasses(ch)
         /\ /\ ch \in p.pumps => ch \in computer[c].pumps /\ p.link = computer[c].link
            /\ p.pumped[ch] = computer[c].pumped[ch]
            => PumpsPass(ch)
PROOF
  <1>1. computer'[c] = p /\ \A d \in Computers \ {c} : computer'[d] = computer[d]
    BY DEF Set, ComputerInv
  <1> QED BY <1>1 DEF OpeningPasses, PumpsPass

(* The websockets *)

LEMMA SameChannelPasses ==
  ASSUME NEW ch, channel'[ch] = channel[ch]
  PROVE  ChannelPasses(ch)
BY DEF ChannelPasses, GetsNothing

LEMMA MovedChannelPasses ==
  ASSUME ChannelInv, NEW b \in Channels, NEW at \in {"refused", "closed"}, channel' = [channel EXCEPT ![b].at = at],
         NEW ch \in Channels
  PROVE  ChannelPasses(ch)
PROOF
  <1>1. channel[b] \in ChannelRecords
    BY DEF ChannelInv
  <1> QED BY <1>1 DEF ChannelInv, ChannelPasses, GetsNothing, ChannelRecords

-----------------------------------------------------------------------------
(* What arrives of a stream *)

(* The first message on the way is the next one, or a close behind which there is nothing. *)
LEMMA FirstIsNext ==
  ASSUME NEW u \in Seq(UpMessages), u # <<>>, NEW ch, NEW k \in Nat, NEW p \in Nat, Flows(u, ch, k, p),
         Head(u) \in Data(ch)
  PROVE  /\ Head(u).n = k + 1 /\ Flows(Tail(u), ch, k + 1, p)
         /\ Unbroken(u, ch, k, p) => Unbroken(Tail(u), ch, k + 1, p)
PROOF
  <1> DEFINE v == Tail(u)
             m == Head(u)
  <1>1. /\ DOMAIN v = 1..(Len(u) - 1) /\ DOMAIN u = 1..Len(u) /\ Len(u) \in Nat /\ Len(u) >= 1
        /\ \A i \in DOMAIN v : i + 1 \in DOMAIN u /\ v[i] = u[i + 1]
        /\ \A i \in DOMAIN u \ {1} : i - 1 \in DOMAIN v /\ v[i - 1] = u[i]
        /\ m = u[1] /\ 1 \in DOMAIN u
    BY TailShifts
  <1>2. \A x \in Data(ch) : x \in Told(ch) /\ x.n \in Nat
    BY DEF Data, Told, UpMessages
  <1> HIDE DEF v, m
  <1>3. m.n \in (k + 1)..p /\ \A n \in (k + 1)..(m.n - 1) : \E j \in 1..(1 - 1) : u[j] \in Data(ch) /\ u[j].n = n
    BY <1>1 DEF Flows, m
  <1>4. m.n = k + 1
    <2> SUFFICES ASSUME m.n # k + 1 PROVE FALSE
      OBVIOUS
    <2>1. k + 1 \in (k + 1)..(m.n - 1)
      BY <1>3
    <2> QED BY <1>3, <2>1
  <1>5. Flows(v, ch, k + 1, p)
    <2>1. k + 1 <= p
      BY <1>3, <1>4
    <2> SUFFICES ASSUME NEW i \in DOMAIN v, v[i] \in Data(ch)
                 PROVE  /\ v[i].n \in (k + 1 + 1)..p
                        /\ \A n \in (k + 1 + 1)..(v[i].n - 1) : \E j \in 1..(i - 1) : v[j] \in Data(ch) /\ v[j].n = n
                        /\ \A j \in 1..(i - 1) : v[j] \in Told(ch) => v[j] \in Data(ch) /\ v[j].n < v[i].n
      BY <2>1 DEF Flows
    <2>2. i + 1 \in DOMAIN u /\ u[i + 1] = v[i] /\ i \in Nat /\ i >= 1 /\ v[i].n \in Nat
      BY <1>1, <1>2
    <2>3. /\ v[i].n \in (k + 1)..p
          /\ \A n \in (k + 1)..(v[i].n - 1) : \E j \in 1..i : u[j] \in Data(ch) /\ u[j].n = n
          /\ \A j \in 1..i : u[j] \in Told(ch) => u[j] \in Data(ch) /\ u[j].n < v[i].n
      <3>1. (i + 1) - 1 = i
        BY <2>2
      <3> QED BY <2>2, <3>1 DEF Flows
    <2>4. k + 1 < v[i].n
      <3>1. 1 \in 1..i /\ u[1] \in Told(ch)
        BY <1>1, <1>2, <2>2 DEF m
      <3>2. u[1].n < v[i].n
        BY <2>3, <3>1
      <3> QED BY <1>1, <1>4, <3>2
    <2>5. ASSUME NEW n \in (k + 1 + 1)..(v[i].n - 1) PROVE \E j \in 1..(i - 1) : v[j] \in Data(ch) /\ v[j].n = n
      <3>1. n \in (k + 1)..(v[i].n - 1)
        BY <2>2
      <3>2. PICK j \in 1..i : u[j] \in Data(ch) /\ u[j].n = n
        BY <2>3, <3>1
      <3>3. j # 1
        BY <1>1, <1>4, <3>2
      <3>4. j - 1 \in 1..(i - 1) /\ j \in DOMAIN u
        BY <1>1, <2>2, <3>3
      <3> QED BY <1>1, <3>2, <3>3, <3>4
    <2>6. ASSUME NEW j \in 1..(i - 1), v[j] \in Told(ch) PROVE v[j] \in Data(ch) /\ v[j].n < v[i].n
      <3>1. j \in DOMAIN v /\ j + 1 \in 1..i
        BY <1>1, <2>2
      <3> QED BY <1>1, <2>3, <2>6, <3>1
    <2> QED BY <2>2, <2>3, <2>4, <2>5, <2>6
  <1>6. ASSUME Unbroken(u, ch, k, p) PROVE Unbroken(v, ch, k + 1, p)
    <2>1. ASSUME NEW n \in (k + 1 + 1)..p PROVE \E j \in DOMAIN v : v[j] \in Data(ch) /\ v[j].n = n
      <3>1. PICK j \in DOMAIN u : u[j] \in Data(ch) /\ u[j].n = n
        BY <1>6 DEF Unbroken
      <3>2. j # 1
        BY <1>1, <1>4, <3>1
      <3> QED BY <1>1, <3>1, <3>2
    <2>2. \A j \in DOMAIN v : v[j] \in Told(ch) => v[j] \in Data(ch)
      BY <1>1, <1>6 DEF Unbroken
    <2> QED BY <2>1, <2>2 DEF Unbroken
  <1> QED BY <1>4, <1>5, <1>6 DEF v, m

LEMMA CloseIsLast ==
  ASSUME NEW u \in Seq(UpMessages), u # <<>>, NEW ch, NEW k \in Nat, NEW p \in Nat, Flows(u, ch, k, p),
         Head(u) \in Told(ch), Head(u) \notin Data(ch)
  PROVE  Silent(Tail(u), Data(ch)) /\ Flows(Tail(u), ch, k, p) /\ ~Unbroken(u, ch, k, p)
PROOF
  <1> DEFINE v == Tail(u)
             m == Head(u)
  <1>1. /\ DOMAIN v = 1..(Len(u) - 1) /\ Len(u) \in Nat
        /\ \A i \in DOMAIN v : i + 1 \in DOMAIN u /\ v[i] = u[i + 1]
        /\ m = u[1] /\ 1 \in DOMAIN u
    BY TailShifts
  <1> HIDE DEF v, m
  <1>2. Silent(v, Data(ch))
    <2> SUFFICES ASSUME NEW i \in DOMAIN v, v[i] \in Data(ch) PROVE FALSE
      BY DEF Silent
    <2>1. i + 1 \in DOMAIN u /\ u[i + 1] \in Data(ch) /\ 1 \in 1..((i + 1) - 1)
      BY <1>1
    <2>2. u[1] \in Told(ch) => u[1] \in Data(ch)
      BY <2>1 DEF Flows
    <2> QED BY <1>1, <2>2 DEF m
  <1>3. k <= p
    BY DEF Flows
  <1>4. Flows(v, ch, k, p)
    BY <1>2, <1>3 DEF Flows, Silent
  <1> QED BY <1>1, <1>2, <1>4 DEF v, m, Unbroken

LEMMA WaitsMore ==
  ASSUME NEW e \in Seq(UpMessages), NEW m \in UpMessages, NEW ch, NEW k \in Nat, Waits(e, ch, k)
  PROVE  /\ m.type = "close" => Waits(Append(e, m), ch, k)
         /\ k = Len(e) /\ m \in Data(ch) /\ m.n = k + 1 => Waits(Append(e, m), ch, k + 1)
         /\ Len(Append(e, m)) = Len(e) + 1
PROOF
  <1> DEFINE f == Append(e, m)
  <1>1. /\ Len(e) \in Nat /\ Len(f) = Len(e) + 1 /\ f[Len(e) + 1] = m
        /\ \A i \in 1..Len(e) : f[i] = e[i]
    OBVIOUS
  <1> HIDE DEF f
  <1>2. /\ k \in 0..Len(e)
        /\ \A i \in 1..k : e[i] \in Data(ch) /\ e[i].n = i
        /\ \A i \in (k + 1)..Len(e) : e[i].type = "close"
    BY DEF Waits
  <1>3. ASSUME m.type = "close" PROVE Waits(f, ch, k)
    <2>1. \A i \in 1..k : f[i] \in Data(ch) /\ f[i].n = i
      BY <1>1, <1>2
    <2>2. \A i \in (k + 1)..Len(f) : f[i].type = "close"
      <3> TAKE i \in (k + 1)..Len(f)
      <3>1. CASE i = Len(e) + 1
        BY <1>1, <1>3, <3>1
      <3>2. CASE i # Len(e) + 1
        <4>1. i \in (k + 1)..Len(e) /\ i \in 1..Len(e)
          BY <1>1, <3>2
        <4> QED BY <1>1, <1>2, <4>1
      <3> QED BY <3>1, <3>2
    <2> QED BY <1>1, <1>2, <2>1, <2>2 DEF Waits
  <1>4. ASSUME k = Len(e), m \in Data(ch), m.n = k + 1 PROVE Waits(f, ch, k + 1)
    <2>1. k + 1 \in 0..Len(f)
      BY <1>1, <1>4
    <2>2. \A i \in 1..(k + 1) : f[i] \in Data(ch) /\ f[i].n = i
      <3> TAKE i \in 1..(k + 1)
      <3>1. CASE i = k + 1
        BY <1>1, <1>4, <3>1
      <3>2. CASE i # k + 1
        <4>1. i \in 1..k /\ i \in 1..Len(e)
          BY <1>4, <3>2
        <4> QED BY <1>1, <1>2, <4>1
      <3> QED BY <3>1, <3>2
    <2>3. \A i \in (k + 1 + 1)..Len(f) : f[i].type = "close"
      BY <1>1, <1>4
    <2> QED BY <2>1, <2>2, <2>3 DEF Waits
  <1> QED BY <1>1, <1>3, <1>4 DEF f

LEMMA MoreInOrder ==
  ASSUME NEW g \in Seq(Nat), InOrder(g)
  PROVE  InOrder(Append(g, Len(g) + 1)) /\ Len(Append(g, Len(g) + 1)) = Len(g) + 1
BY DEF InOrder

LEMMA ToldArrives ==
  ASSUME RelayInv, RelayInv', NEW s \in Listed, link[s].up # <<>>, NEW ch \in Channels, Stream(ch),
         Head(link[s].up) \in Told(ch), link' = [link EXCEPT ![s].up = Tail(@)],
         channel' = [channel EXCEPT ![ch] = Routed(@, Head(link[s].up))], UNCHANGED computer
  PROVE  Stream(ch)'
PROOF
  <1> DEFINE u == link[s].up
             m == Head(u)
             v == Tail(u)
             rec == [link[s] EXCEPT !.up = v]
             x == channel[ch]
             y == channel'[ch]
  <1>1. s \in Links /\ LinkType /\ link[s] \in LinkRecords
    BY LinksAreNumbered DEF RelayInv, Listed
  <1>2. u \in Seq(UpMessages) /\ u # <<>> /\ link[s].down \in Seq(DownMessages)
    BY <1>1 DEF LinkRecords
  <1>3. /\ m \in UpMessages /\ v \in Seq(UpMessages) /\ u[1] = m /\ 1 \in DOMAIN u
    BY <1>2
  <1>4. /\ rec \in LinkRecords /\ rec.up = v /\ rec.down = link[s].down /\ rec.relay = link[s].relay
    BY <1>1, <1>3 DEF LinkRecords
  <1>5. link' = [link EXCEPT ![s] = rec]
    OBVIOUS
  <1>6. x \in ChannelRecords /\ y = Routed(x, m)
    BY DEF RelayInv, ChannelInv
  <1>7. m \in Told(ch)
    OBVIOUS
  <1> HIDE DEF rec, m, v, y
  <1>8. DOMAIN link' = Links /\ link'[s] = rec /\ \A t \in Links \ {s} : link'[t] = link[t]
    BY <1>1, <1>4, <1>5, ReplacedLink
  <1>9. Links' = Links /\ Listed' = Listed
    BY <1>1, <1>4, <1>8 DEF Links, Listed
  <1>10. DownsPass(ch)
    <2>1. Follows(link[s].down, rec.down, Asking(ch))
      BY <1>2, <1>4, SameKeeps
    <2> QED BY <1>1, <1>4, <1>5, <2>1, OneLinkPasses
  <1>11. ~Quiet(ch)
    BY <1>1, <1>3, <1>7 DEF Quiet, Silent, u
  <1>12. x.at # "new" /\ ~Asked(ch)
    BY <1>11 DEF Stream, x
  <1>13. AskedOnce(ch)' /\ ~Asked(ch)'
    BY <1>1, <1>9, <1>10, <1>12, AskingPasses, SameComputersPass DEF Stream, RelayInv
  <1>14. PICK c \in Computers, t \in Links : Carried(ch, c, t)
    BY <1>11 DEF Stream
  <1>15. Carried(ch, c, s)
    <2>1. t = s
      BY <1>1, <1>3, <1>7, <1>14 DEF Carried, Silent, u
    <2> QED BY <1>14, <2>1
  <1>16. m.type \in {"data", "close"} /\ (m \in Data(ch) <=> m.type = "data")
    BY <1>7 DEF Told, Data
  <1>17. y.at # "new" /\ (Live(y) => Live(x) /\ y.at = x.at)
    BY <1>6, <1>12, <1>16 DEF Routed, Deliver, Live, ChannelRecords
  <1>18. ASSUME Live(y)
         PROVE  /\ \E k \in Nat : Delivered(y, ch, k) /\ InStep(ch, c, s, k)'
                /\ InOrder(y.got)
    <2> DEFINE p == computer[c].pumped[ch]
    <2>1. Live(x) /\ y.at = x.at
      BY <1>17, <1>18
    <2>2. PICK k \in Nat : Delivered(x, ch, k) /\ InStep(ch, c, s, k)
      BY <1>15, <2>1 DEF Carried
    <2>3. p \in Nat
      BY DEF RelayInv, ComputerInv, ComputerRecords
    <2>4. /\ Flows(u, ch, k, p)
          /\ ch \in computer[c].pumps => Unbroken(u, ch, k, p)
          /\ x.at # "open" /\ k < Len(x.early) => Silent(u, Data(ch)) /\ ch \notin computer[c].pumps
      BY <2>2 DEF InStep
    <2>5. x.got \in Seq(Nat) /\ x.early \in Seq(UpMessages) /\ InOrder(x.got)
      BY <1>6 DEF ChannelRecords, Stream
    <2> HIDE DEF p, u, x
    <2>6. CASE m \in Data(ch)
      <3>1. m.n = k + 1 /\ Flows(v, ch, k + 1, p) /\ (Unbroken(u, ch, k, p) => Unbroken(v, ch, k + 1, p))
        BY <1>2, <2>3, <2>4, <2>6, FirstIsNext DEF m, v
      <3>2. CASE x.at = "open"
        <4>1. y.got = Append(x.got, m.n) /\ k = Len(x.got)
          BY <1>6, <1>16, <2>2, <2>6, <3>2 DEF Routed, Deliver, Delivered, ChannelRecords
        <4>2. InOrder(y.got) /\ Len(y.got) = k + 1
          BY <2>5, <3>1, <4>1, MoreInOrder
        <4>3. Delivered(y, ch, k + 1) /\ y.at = "open"
          BY <2>1, <3>2, <4>2 DEF Delivered
        <4>4. InStep(ch, c, s, k + 1)'
          BY <1>4, <1>8, <2>4, <3>1, <4>3 DEF InStep, p, y
        <4> QED BY <4>2, <4>3, <4>4
      <3>3. CASE x.at # "open"
        <4>1. y.early = Append(x.early, m) /\ y.got = x.got /\ y.at # "open"
          BY <1>6, <1>16, <2>1, <2>6, <3>3 DEF Routed, Live, ChannelRecords
        <4>2. Waits(x.early, ch, k)
          BY <2>2, <3>3 DEF Delivered
        <4>3. k = Len(x.early)
          <5>1. k \in 0..Len(x.early)
            BY <4>2 DEF Waits
          <5>2. ~Silent(u, Data(ch))
            BY <1>3, <2>6 DEF Silent
          <5>3. Len(x.early) \in Nat
            BY <2>5
          <5> QED BY <2>4, <3>3, <5>1, <5>2, <5>3
        <4>4. Waits(y.early, ch, k + 1) /\ Len(y.early) = k + 1
          BY <1>3, <2>5, <2>6, <3>1, <4>1, <4>2, <4>3, WaitsMore
        <4>5. Delivered(y, ch, k + 1)
          BY <4>1, <4>4 DEF Delivered
        <4>6. ~(k + 1 < Len(y.early))
          BY <4>4
        <4>7. InStep(ch, c, s, k + 1)'
          BY <1>4, <1>8, <2>4, <3>1, <4>6 DEF InStep, p, y
        <4> QED BY <2>5, <4>1, <4>5, <4>7
      <3> QED BY <3>2, <3>3
    <2>7. CASE m \notin Data(ch)
      <3>1. Silent(v, Data(ch)) /\ Flows(v, ch, k, p) /\ ch \notin computer[c].pumps
        BY <1>2, <1>7, <2>3, <2>4, <2>7, CloseIsLast DEF m, v
      <3>2. m.type = "close"
        BY <1>16, <2>7
      <3>3. x.at # "open"
        BY <1>6, <2>1, <3>2 DEF Routed, Deliver, ChannelRecords
      <3>4. y.early = Append(x.early, m) /\ y.got = x.got /\ y.at # "open"
        BY <1>6, <2>1, <3>2, <3>3 DEF Routed, Live, ChannelRecords
      <3>5. Waits(y.early, ch, k)
        BY <1>3, <2>2, <2>5, <3>2, <3>3, <3>4, WaitsMore DEF Delivered
      <3>6. InStep(ch, c, s, k)'
        BY <1>4, <1>8, <3>1 DEF InStep, p
      <3> QED BY <2>2, <2>5, <3>4, <3>5, <3>6 DEF Delivered
    <2> QED BY <2>6, <2>7
  <1>19. InOrder(y.got)
    <2>1. CASE Live(y)
      BY <1>18, <2>1
    <2>2. CASE ~Live(y)
      <3>1. y.got = x.got
        BY <1>6, <1>16, <2>2 DEF Routed, Deliver, Live, ChannelRecords
      <3> QED BY <3>1 DEF Stream, x
    <2> QED BY <2>1, <2>2
  <1>20. Carried(ch, c, s)'
    <2>1. \A d \in Computers : ch \in computer'[d].pumps => d = c /\ computer'[d].link = s
      BY <1>15 DEF Carried
    <2>2. \A r \in Links' \ {s} : Silent(link'[r].up, Told(ch))
      BY <1>8, <1>9, <1>15 DEF Carried
    <2>3. Live(channel'[ch]) => \E k \in Nat : Delivered(channel'[ch], ch, k) /\ (s \in Listed' => InStep(ch, c, s, k)')
      BY <1>18 DEF y
    <2> QED BY <2>1, <2>2, <2>3 DEF Carried, Live, Delivered
  <1>21. (\E d \in Computers, r \in Links : Carried(ch, d, r))'
    BY <1>1, <1>9, <1>20
  <1> QED BY <1>13, <1>17, <1>19, <1>21 DEF Stream, y

-----------------------------------------------------------------------------
(* The streams in the steps of the relay *)

LEMMA HelloPasses ==
  ASSUME RelayInv, NEW s \in Listed, link[s].up # <<>>, Head(link[s].up).type = "hello", Hello(s), NEW ch
  PROVE  UpsPass(ch) /\ DownsPass(ch)
PROOF
  <1> DEFINE f == CloseAll(link, Listed \ {s})
             u == Tail(link[s].up)
             hi == [type |-> "hello_accepted"]
             greeted == [link[s] EXCEPT !.ready = TRUE, !.up = Tail(link[s].up)]
             g == [f EXCEPT ![s] = greeted]
  <1>1. LinkType /\ s \in Links
    BY DEF RelayInv, Listed
  <1>2. \A t \in Links : /\ link[t] \in LinkRecords
                         /\ link[t].up \in Seq(UpMessages) /\ link[t].down \in Seq(DownMessages)
    BY <1>1, LinksAreNumbered DEF LinkRecords
  <1>3. greeted.up = u /\ greeted.down = link[s].down /\ greeted.relay = link[s].relay
        /\ \A d \in Seq(DownMessages) : /\ [greeted EXCEPT !.down = d].up = u
                                        /\ [greeted EXCEPT !.down = d].down = d
                                        /\ [greeted EXCEPT !.down = d].relay = link[s].relay
    BY <1>1, <1>2 DEF LinkRecords
  <1>4. /\ DOMAIN f = Links
        /\ \A t \in Links : /\ f[t].up = link[t].up /\ f[t].down = link[t].down
                            /\ (f[t].relay = "ended") <=> (link[t].relay = "ended")
    <2>1. \A l \in LinkRecords : [l EXCEPT !.relay = "closing"].up = l.up /\ [l EXCEPT !.relay = "closing"].down = l.down
                                 /\ [l EXCEPT !.relay = "closing"].relay = "closing"
      BY DEF LinkRecords
    <2> QED BY <1>2, <2>1 DEF CloseAll, Links
  <1>5. link' = IF Sendable(s) THEN Down(g, s, hi) ELSE g
    BY DEF Hello
  <1> HIDE DEF f, greeted
  <1>6. DOMAIN g = Links /\ g[s] = greeted /\ \A t \in Links \ {s} : g[t] = f[t]
    BY <1>1, <1>4
  <1> HIDE DEF g
  <1>7. /\ DOMAIN link' = Links /\ \A t \in Links \ {s} : link'[t] = f[t]
        /\ link'[s] = greeted \/ link'[s] = [greeted EXCEPT !.down = Append(link[s].down, hi)]
    BY <1>1, <1>3, <1>5, <1>6 DEF Down
  <1>8. Append(link[s].down, hi) \in Seq(DownMessages) /\ hi \in DownMessages
    BY <1>1, <1>2 DEF DownMessages
  <1>9. /\ link'[s].up = u /\ link'[s].relay = link[s].relay
        /\ link'[s].down = link[s].down \/ link'[s].down = Append(link[s].down, hi)
    BY <1>3, <1>7, <1>8
  <1>10. Head(link[s].up) \notin Told(ch) /\ hi \notin Asking(ch)
    BY DEF Told, Asking
  <1>11. Keeps(link[s].up, u, Told(ch))
    BY <1>1, <1>2, <1>10, TailKeeps
  <1>12. Follows(link[s].down, link'[s].down, Asking(ch))
    BY <1>1, <1>2, <1>8, <1>9, <1>10, SameKeeps, AppendKeeps
  <1>13. \A t \in Links \ {s} : /\ link'[t].up = link[t].up /\ link'[t].down = link[t].down
                                /\ Keeps(link[t].up, link[t].up, Told(ch))
                                /\ Follows(link[t].down, link[t].down, Asking(ch))
    BY <1>2, <1>4, <1>7, SameKeeps
  <1>14. Links' = Links /\ Listed' \cap Links \subseteq Listed
    BY <1>4, <1>7, <1>9 DEF Links, Listed
  <1> QED BY <1>9, <1>11, <1>12, <1>13, <1>14 DEF UpsPass, DownsPass

(* A message that is not of this websocket's stream. *)
LEMMA RoutedPasses ==
  ASSUME ChannelInv, NEW b \in Channels, NEW m \in UpMessages, m.type # "hello", m.type # "response",
         channel' = [channel EXCEPT ![b] = Routed(@, m)],
         NEW ch \in Channels, ch = b => m.type \in {"opened", "error"}
  PROVE  ChannelPasses(ch)
PROOF
  <1>1. CASE ch # b
    <2>1. channel'[ch] = channel[ch]
      BY <1>1 DEF ChannelInv
    <2> QED BY <2>1, SameChannelPasses
  <1>2. CASE ch = b
    <2>1. channel'[ch] = Routed(channel[ch], m) /\ channel[ch] \in ChannelRecords
      BY <1>2 DEF ChannelInv
    <2> QED BY <1>2, <2>1 DEF Routed, Deliver, ChannelPasses, GetsNothing, ChannelRecords
  <1> QED BY <1>1, <1>2

LEMMA FromConnectorStreams ==
  ASSUME RelayInv, RelayInv', StreamInv, NEW s, FromConnector(s)
  PROVE  StreamInv'
PROOF
  <1> DEFINE m == Head(link[s].up)
  <1>1. s \in Listed /\ link[s].up # <<>> /\ UNCHANGED computer /\ s \in Links /\ LinkType
    BY DEF FromConnector, Listed, RelayInv
  <1>2. link[s] \in LinkRecords
    BY <1>1, LinksAreNumbered
  <1>3. link[s].up \in Seq(UpMessages) /\ m \in UpMessages /\ link[s].down \in Seq(DownMessages)
    BY <1>1, <1>2 DEF LinkRecords
  <1>4. \A ch \in Channels : OpeningPasses(ch) /\ PumpsPass(ch)
    BY <1>1, SameComputersPass
  <1>5. CASE m.type = "hello"
    <2>1. Hello(s) /\ UNCHANGED channel
      BY <1>5 DEF FromConnector, Hello
    <2>2. \A ch \in Channels : UpsPass(ch) /\ DownsPass(ch)
      BY <1>1, <1>5, <2>1, HelloPasses
    <2>3. \A ch \in Channels : ChannelPasses(ch)
      BY <2>1, SameChannelPasses
    <2> QED BY <1>4, <2>2, <2>3, StreamsPass DEF Passes
  <1>6. CASE m.type # "hello"
    <2> DEFINE rec == [link[s] EXCEPT !.up = Tail(link[s].up)]
    <2>1. link' = [link EXCEPT ![s].up = Tail(@)]
      BY <1>6 DEF FromConnector
    <2>2. Tail(link[s].up) \in Seq(UpMessages)
      BY <1>1, <1>3
    <2>3. /\ rec \in LinkRecords /\ rec.up = Tail(link[s].up) /\ rec.down = link[s].down
          /\ rec.relay = link[s].relay
      BY <1>2, <2>2 DEF LinkRecords
    <2>4. link' = [link EXCEPT ![s] = rec]
      BY <2>1
    <2> HIDE DEF rec
    <2>5. ASSUME NEW ch \in Channels
          PROVE  DownsPass(ch) /\ (m \notin Told(ch) => UpsPass(ch))
      <3>1. Follows(link[s].down, rec.down, Asking(ch))
        BY <1>3, <2>3, SameKeeps
      <3>2. m \notin Told(ch) => Keeps(link[s].up, rec.up, Told(ch))
        BY <1>1, <1>3, <2>3, TailKeeps
      <3> QED BY <1>1, <2>3, <2>4, <3>1, <3>2, OneLinkPasses
    <2>6. CASE m.type = "response"
      <3>1. UNCHANGED channel
        BY <1>6, <2>6 DEF FromConnector
      <3>2. \A ch \in Channels : m \notin Told(ch) /\ ChannelPasses(ch)
        BY <2>6, <3>1, SameChannelPasses DEF Told
      <3> QED BY <1>4, <2>5, <3>2, StreamsPass DEF Passes
    <2>7. CASE m.type # "response"
      <3>1. channel' = [channel EXCEPT ![m.channel] = Routed(@, m)]
        BY <1>6, <2>7 DEF FromConnector
      <3>2. m.channel \in Channels /\ m.type \in {"opened", "error", "close", "data"}
        BY <1>3, <1>6, <2>7 DEF UpMessages
      <3>3. ASSUME NEW ch \in Channels, m \in Told(ch) PROVE Stream(ch)'
        <4>1. m.channel = ch
          BY <3>3 DEF Told
        <4> QED BY <1>1, <2>1, <3>1, <3>3, <4>1, ToldArrives DEF StreamInv
      <3>4. ASSUME NEW ch \in Channels, m \notin Told(ch) PROVE Stream(ch)'
        <4>1. ch = m.channel => m.type \in {"opened", "error"}
          BY <1>3, <3>2, <3>4 DEF Told
        <4>2. ChannelPasses(ch)
          <5> HIDE DEF m
          <5> QED BY <1>3, <1>6, <2>7, <3>1, <3>2, <4>1, RoutedPasses DEF RelayInv
        <4>3. Passes(ch)
          BY <1>4, <2>5, <3>4, <4>2 DEF Passes
        <4> QED BY <4>3, StreamPasses DEF StreamInv
      <3> QED BY <3>3, <3>4 DEF StreamInv
    <2> QED BY <2>6, <2>7
  <1> QED BY <1>5, <1>6

LEMMA FailedChannelPasses ==
  ASSUME ChannelInv, NEW s, FailWaiting(s) \/ UNCHANGED channel, NEW ch \in Channels
  PROVE  ChannelPasses(ch)
PROOF
  <1>1. CASE UNCHANGED channel
    BY <1>1, SameChannelPasses
  <1>2. CASE FailWaiting(s)
    <2>1. channel'[ch] = [channel[ch] EXCEPT !.at = CASE @ = "opening" -> "refused"
                                                      [] @ = "open" -> "closed"
                                                      [] OTHER -> @]
      BY <1>2 DEF FailWaiting
    <2>2. channel[ch] \in ChannelRecords
      BY DEF ChannelInv
    <2> QED BY <2>1, <2>2 DEF ChannelPasses, GetsNothing, ChannelRecords
  <1> QED BY <1>1, <1>2

LEMMA EndedStreams ==
  ASSUME RelayInv, RelayInv', StreamInv, NEW s, RelaySeesEnd(s) \/ RelayLoses(s)
  PROVE  StreamInv'
PROOF
  <1>1. s \in Links /\ link[s] \in LinkRecords /\ LinkType /\ UNCHANGED computer
    BY LinksAreNumbered DEF RelaySeesEnd, RelayLoses, RelayInv, Listed
  <1>2. link[s].up \in Seq(UpMessages) /\ link[s].down \in Seq(DownMessages)
    BY <1>1 DEF LinkRecords
  <1>3. FailWaiting(s) \/ UNCHANGED channel
    BY DEF RelaySeesEnd, RelayLoses, Ended
  <1>4. ASSUME NEW ch \in Channels PROVE UpsPass(ch) /\ DownsPass(ch)
    <2>1. CASE RelaySeesEnd(s)
      <3> DEFINE rec == [link[s] EXCEPT !.relay = "ended"]
      <3>1. rec \in LinkRecords /\ rec.up = link[s].up /\ rec.down = link[s].down /\ rec.relay = "ended"
        BY <1>1 DEF LinkRecords
      <3>2. link' = [link EXCEPT ![s] = rec]
        BY <2>1 DEF RelaySeesEnd, Ended
      <3>3. Keeps(link[s].up, rec.up, Told(ch)) /\ Follows(link[s].down, rec.down, Asking(ch))
        BY <1>2, <3>1, SameKeeps
      <3> HIDE DEF rec
      <3> QED BY <1>1, <3>1, <3>2, <3>3, OneLinkPasses
    <2>2. CASE RelayLoses(s)
      <3> DEFINE rec == [link[s] EXCEPT !.relay = "ended", !.up = <<>>, !.down = <<>>]
      <3>1. rec \in LinkRecords /\ rec.up = <<>> /\ rec.down = <<>> /\ rec.relay = "ended"
        <4>1. <<>> \in Seq(UpMessages) /\ <<>> \in Seq(DownMessages)
          OBVIOUS
        <4> QED BY <1>1, <4>1 DEF LinkRecords
      <3>2. link' = [link EXCEPT ![s] = rec]
        BY <1>1, <2>2 DEF RelayLoses, Ended, LinkRecords
      <3>3. Follows(link[s].down, rec.down, Asking(ch))
        BY <3>1, NothingFollows
      <3> HIDE DEF rec
      <3> QED BY <1>1, <3>1, <3>2, <3>3, OneLinkPasses
    <2> QED BY <2>1, <2>2
  <1>5. \A ch \in Channels : OpeningPasses(ch) /\ PumpsPass(ch) /\ ChannelPasses(ch)
    BY <1>1, <1>3, SameComputersPass, FailedChannelPasses DEF RelayInv
  <1> QED BY <1>4, <1>5, StreamsPass DEF Passes

LEMMA PairingStreams ==
  ASSUME RelayInv, RelayInv', StreamInv, NEW c \in Computers, Pair(c) \/ Revoke(c)
  PROVE  StreamInv'
PROOF
  <1>1. UNCHANGED <<computer, channel>> /\ LinkType
    BY DEF Pair, Revoke, RelayInv
  <1>2. ASSUME NEW ch \in Channels PROVE UpsPass(ch) /\ DownsPass(ch)
    <2>1. CASE UNCHANGED link
      BY <1>1, <2>1, SameLinksPass
    <2>2. CASE link' = CloseAll(link, {Connector}) /\ Connector # NoLink
      <3>1. {Connector} \subseteq Links
        BY <1>1, <2>2, ConnectorIsReady, ReadyIsLinked
      <3> QED BY <1>1, <2>2, <3>1, ClosedLinksPass
    <2> QED BY <2>1, <2>2 DEF Pair, Revoke
  <1>3. \A ch \in Channels : OpeningPasses(ch) /\ PumpsPass(ch) /\ ChannelPasses(ch)
    BY <1>1, SameComputersPass, SameChannelPasses
  <1> QED BY <1>2, <1>3, StreamsPass DEF Passes

LEMMA CallStreams ==
  ASSUME RelayInv, RelayInv', StreamInv, NEW r \in Calls,
         CallStarts(r) \/ CallOffline(r) \/ CallPicks(r) \/ CallSent(r) \/ CallTimesOut(r)
  PROVE  StreamInv'
PROOF
  <1>1. UNCHANGED <<computer, channel>> /\ LinkType
    BY DEF CallStarts, CallOffline, CallPicks, CallSent, CallTimesOut, RelayInv
  <1>2. ASSUME NEW ch \in Channels PROVE UpsPass(ch) /\ DownsPass(ch)
    <2> DEFINE m == [type |-> "request", call |-> r]
    <2>1. m \in DownMessages /\ m \notin Asking(ch)
      BY DEF DownMessages, Asking
    <2>2. CASE UNCHANGED link
      BY <1>1, <2>2, SameLinksPass
    <2>3. CASE CallSent(r) /\ link' = Down(link, call[r].on, m)
      <3>1. call[r].on \in Links
        BY <2>3 DEF CallSent, RelayInv, CallInv
      <3> QED BY <1>1, <2>1, <2>3, <3>1, DownPasses
    <2> QED BY <2>2, <2>3 DEF CallStarts, CallOffline, CallPicks, CallSent, CallTimesOut
  <1>3. \A ch \in Channels : OpeningPasses(ch) /\ PumpsPass(ch) /\ ChannelPasses(ch)
    BY <1>1, SameComputersPass, SameChannelPasses
  <1> QED BY <1>2, <1>3, StreamsPass DEF Passes

-----------------------------------------------------------------------------
(* The streams in the steps of browsers *)

(* The order to open is new on the connection, and the only one. *)
LEMMA AskingStarts ==
  ASSUME RelayInv, RelayInv', NEW ch \in Channels, Stream(ch), channel[ch].at = "new", NEW s \in Links,
         NEW m \in Asking(ch), link' = Down(link, s, m), channel' = [channel EXCEPT ![ch].at = "opening"],
         UNCHANGED computer
  PROVE  Stream(ch)'
PROOF
  <1> DEFINE n == Len(link[s].down) + 1
  <1>1. LinkType /\ ~Asked(ch) /\ Quiet(ch) /\ m \in DownMessages
    BY DEF RelayInv, Stream, Asking
  <1>2. /\ UpsPass(ch) /\ Links' = Links
        /\ link'[s].down = Append(link[s].down, m) /\ \A t \in Links \ {s} : link'[t] = link[t]
    BY <1>1, DownPasses
  <1>3. link[s].down \in Seq(DownMessages)
    BY <1>1, LinksAreNumbered DEF LinkRecords
  <1>4. \A t \in Links : Silent(link[t].down, Asking(ch))
    BY <1>1 DEF Asked
  <1>5. \A t \in Links : \A i \in DOMAIN link'[t].down : link'[t].down[i] \in Asking(ch) => t = s /\ i = n
    <2>1. \A i \in DOMAIN Append(link[s].down, m) : i # n => i \in DOMAIN link[s].down /\ Append(link[s].down, m)[i] = link[s].down[i]
      BY <1>3
    <2> QED BY <1>2, <1>4, <2>1 DEF Silent
  <1>6. \A c \in Computers : ch \notin computer'[c].opening
    BY <1>1 DEF Asked
  <1>7. AskedOnce(ch)'
    BY <1>2, <1>5, <1>6 DEF AskedOnce
  <1>8. /\ channel'[ch].at = "opening" /\ channel'[ch].early = channel[ch].early
        /\ channel'[ch].got = channel[ch].got
    BY DEF RelayInv, ChannelInv, ChannelRecords
  <1>9. Quiet(ch)'
    BY <1>1, <1>2, <1>8, QuietPasses, SameComputersPass DEF GetsNothing
  <1> QED BY <1>7, <1>8, <1>9 DEF Stream

LEMMA OpenStartsStreams ==
  ASSUME RelayInv, RelayInv', StreamInv, NEW b \in Channels, OpenStarts(b)
  PROVE  StreamInv'
PROOF
  <1> DEFINE s == Connector
             m == [type |-> "open", channel |-> b]
  <1>1. UNCHANGED computer /\ LinkType /\ channel[b].at = "new"
    BY DEF OpenStarts, RelayInv
  <1>2. m \in DownMessages /\ m \in Asking(b) /\ \A ch \in Channels \ {b} : m \notin Asking(ch)
    BY DEF DownMessages, Asking
  <1>3. CASE s # NoLink /\ Sendable(s)
    <2>1. s \in Links
      BY <1>1, <1>3, ConnectorIsReady, ReadyIsLinked
    <2>2. link' = Down(link, s, m) /\ channel' = [channel EXCEPT ![b].at = "opening"]
      BY <1>3 DEF OpenStarts
    <2> HIDE DEF m, s
    <2>3. Stream(b)'
      BY <1>1, <1>2, <2>1, <2>2, AskingStarts DEF StreamInv
    <2>4. ASSUME NEW ch \in Channels \ {b} PROVE Stream(ch)'
      <3>1. UpsPass(ch) /\ DownsPass(ch)
        BY <1>1, <1>2, <2>1, <2>2, DownPasses
      <3>2. channel'[ch] = channel[ch]
        BY <2>2 DEF RelayInv, ChannelInv
      <3> QED BY <1>1, <3>1, <3>2, SameComputersPass, SameChannelPasses, StreamPasses DEF Passes, StreamInv
    <2> QED BY <2>3, <2>4 DEF StreamInv
  <1>4. CASE ~(s # NoLink /\ Sendable(s))
    <2>1. UNCHANGED link /\ channel' = [channel EXCEPT ![b].at = "refused"]
      BY <1>4 DEF OpenStarts
    <2>2. \A ch \in Channels : ChannelPasses(ch)
      BY <2>1, MovedChannelPasses DEF RelayInv
    <2> QED BY <1>1, <2>1, <2>2, SameLinksPass, SameComputersPass, StreamsPass DEF Passes
  <1> QED BY <1>3, <1>4

LEMMA LeavingStreams ==
  ASSUME RelayInv, RelayInv', StreamInv, NEW b \in Channels, OpenTimesOut(b) \/ BrowserSends(b) \/ BrowserLeaves(b)
  PROVE  StreamInv'
PROOF
  <1> DEFINE m == [type |-> "close", channel |-> b]
  <1>1. UNCHANGED computer /\ LinkType
    BY DEF OpenTimesOut, BrowserSends, BrowserLeaves, RelayInv
  <1>2. \A ch \in Channels : ChannelPasses(ch)
    <2>1. PICK at \in {"refused", "closed"} : channel' = [channel EXCEPT ![b].at = at]
      BY DEF OpenTimesOut, BrowserSends, BrowserLeaves
    <2> QED BY <2>1, MovedChannelPasses DEF RelayInv
  <1>3. ASSUME NEW ch \in Channels PROVE UpsPass(ch) /\ DownsPass(ch)
    <2>1. m \in DownMessages /\ m \notin Asking(ch)
      BY DEF DownMessages, Asking
    <2>2. CASE UNCHANGED link
      BY <1>1, <2>2, SameLinksPass
    <2>3. CASE Connector # NoLink /\ link' = Down(link, Connector, m)
      <3>1. Connector \in Links
        BY <1>1, <2>3, ConnectorIsReady, ReadyIsLinked
      <3> QED BY <1>1, <2>1, <2>3, <3>1, DownPasses
    <2> QED BY <2>2, <2>3 DEF OpenTimesOut, BrowserSends, BrowserLeaves, Left
  <1> QED BY <1>1, <1>2, <1>3, SameComputersPass, StreamsPass DEF Passes

(* What waited is the beginning of the stream, and its end if a close was among it. *)
LEMMA CaughtInOrder ==
  ASSUME NEW e \in Seq(UpMessages), NEW ch, NEW k \in Nat, Waits(e, ch, k)
  PROVE  /\ Caught(e) \in ChannelRecords /\ Caught(e).early = <<>>
         /\ InOrder(Caught(e).got) /\ Len(Caught(e).got) = k
         /\ Caught(e).at \in {"open", "closed"} /\ (Caught(e).at = "open" => k = Len(e))
PROOF
  <1> DEFINE n == Len(e)
  <1>1. PICK f \in [0..n -> ChannelRecords] :
          /\ f[0] = Accepts /\ Caught(e) = f[n]
          /\ \A i \in 1..n : f[i] = Deliver(f[i - 1], e[i])
    BY CaughtUp
  <1>2. /\ k \in 0..n /\ n \in Nat
        /\ \A i \in 1..k : e[i] \in Data(ch) /\ e[i].n = i
        /\ \A i \in (k + 1)..n : e[i].type = "close"
    BY DEF Waits
  <1> DEFINE S == {i \in 0..n : /\ f[i].early = <<>> /\ InOrder(f[i].got)
                                /\ Len(f[i].got) = (IF i <= k THEN i ELSE k)
                                /\ f[i].at = (IF i <= k THEN "open" ELSE "closed")}
  <1> HIDE DEF n
  <1>3. 0 \in S
    <2>1. InOrder(<<>>) /\ Len(<<>>) = 0
      BY DEF InOrder
    <2> QED BY <1>1, <1>2, <2>1 DEF Accepts
  <1>4. ASSUME NEW i \in 0..n, i \in S, i < n PROVE i + 1 \in S
    <2> DEFINE x == f[i]
               y == f[i + 1]
    <2>1. i + 1 \in 0..n /\ i + 1 \in 1..n /\ (i + 1) - 1 = i
      BY <1>2, <1>4
    <2>2. y = Deliver(x, e[i + 1]) /\ x \in ChannelRecords
      BY <1>1, <2>1
    <2>3. /\ x.early = <<>> /\ InOrder(x.got)
          /\ Len(x.got) = (IF i <= k THEN i ELSE k)
          /\ x.at = (IF i <= k THEN "open" ELSE "closed")
      BY <1>4
    <2>4. x.got \in Seq(Nat)
      BY <2>2 DEF ChannelRecords
    <2> HIDE DEF x, y, S
    <2>5. CASE i < k
      <3>1. e[i + 1] \in Data(ch) /\ e[i + 1].n = i + 1
        BY <1>2, <2>1, <2>5
      <3>2. e[i + 1].type = "data"
        BY <3>1 DEF Data
      <3>3. y.got = Append(x.got, i + 1) /\ y.early = <<>> /\ y.at = x.at
        BY <2>2, <2>3, <3>1, <3>2 DEF Deliver, ChannelRecords
      <3>4. InOrder(y.got) /\ Len(y.got) = i + 1
        BY <1>2, <2>3, <2>4, <2>5, <3>3, MoreInOrder
      <3>5. i + 1 <= k /\ i <= k
        BY <1>2, <2>5
      <3> QED BY <2>1, <2>3, <3>3, <3>4, <3>5 DEF S, y
    <2>6. CASE ~(i < k)
      <3>1. e[i + 1].type = "close"
        BY <1>2, <2>1, <2>6
      <3>2. y.got = x.got /\ y.early = <<>> /\ y.at = "closed"
        BY <2>2, <2>3, <3>1 DEF Deliver, ChannelRecords
      <3>3. ~(i + 1 <= k) /\ Len(x.got) = k
        BY <1>2, <2>3, <2>6
      <3> QED BY <2>1, <2>3, <3>2, <3>3 DEF S, y
    <2> QED BY <2>5, <2>6
  <1>5. n \in S
    <2>1. 0..n \subseteq S
      <3> HIDE DEF S
      <3> QED BY <1>2, <1>3, <1>4, Between
    <2> QED BY <1>2, <2>1
  <1>6. f[n] \in ChannelRecords
    BY <1>1, <1>2
  <1> QED BY <1>1, <1>2, <1>5, <1>6 DEF n

LEMMA AcceptedStreams ==
  ASSUME RelayInv, RelayInv', StreamInv, NEW b \in Channels, Accepted(b)
  PROVE  StreamInv'
PROOF
  <1>1. /\ channel[b].at = "opened" /\ channel' = [channel EXCEPT ![b] = Caught(@.early)]
        /\ UNCHANGED <<link, computer>> /\ LinkType /\ LinkType'
    BY DEF Accepted, RelayInv
  <1>2. ASSUME NEW ch PROVE UpsPass(ch) /\ DownsPass(ch) /\ OpeningPasses(ch) /\ PumpsPass(ch)
    BY <1>1, SameLinksPass, SameComputersPass
  <1>3. ASSUME NEW ch \in Channels \ {b} PROVE Stream(ch)'
    <2>1. channel'[ch] = channel[ch]
      BY <1>1 DEF RelayInv, ChannelInv
    <2> QED BY <1>2, <2>1, SameChannelPasses, StreamPasses DEF Passes, StreamInv
  <1>4. Stream(b)'
    <2> DEFINE x == channel[b]
               y == channel'[b]
    <2>1. x \in ChannelRecords /\ x.early \in Seq(UpMessages) /\ y = Caught(x.early)
      BY <1>1 DEF RelayInv, ChannelInv, ChannelRecords
    <2>2. Stream(b)
      BY DEF StreamInv
    <2>3. AskedOnce(b)' /\ (Asked(b)' => Asked(b))
      BY <1>1, <1>2, <2>2, AskingPasses DEF Stream, UpsPass
    <2>4. CASE Quiet(b)
      <3>1. x.early = <<>> /\ x.got = <<>>
        BY <2>4 DEF Quiet
      <3>2. Waits(x.early, b, 0)
        BY <3>1 DEF Waits
      <3>3. y \in ChannelRecords /\ y.early = <<>> /\ InOrder(y.got) /\ Len(y.got) = 0 /\ y.at \in {"open", "closed"}
        BY <2>1, <3>2, CaughtInOrder
      <3>4. y.got = <<>>
        BY <3>3 DEF ChannelRecords
      <3>5. Quiet(b)'
        BY <1>2, <2>4, <3>1, <3>3, <3>4, QuietPasses DEF GetsNothing
      <3> QED BY <2>3, <3>3, <3>5 DEF Stream
    <2>5. CASE ~Quiet(b)
      <3>1. PICK c \in Computers, s \in Links : Carried(b, c, s)
        BY <2>2, <2>5 DEF Stream
      <3>2. ~Asked(b)
        BY <2>2, <2>5 DEF Stream
      <3>3. PICK k \in Nat : Delivered(x, b, k) /\ (s \in Listed => InStep(b, c, s, k))
        BY <1>1, <3>1 DEF Carried, Live
      <3>4. Waits(x.early, b, k)
        BY <1>1, <3>3 DEF Delivered
      <3>5. /\ InOrder(y.got) /\ Len(y.got) = k
            /\ y.at \in {"open", "closed"}
        BY <2>1, <3>4, CaughtInOrder
      <3> HIDE DEF x, y
      <3>6. Live(y) => Delivered(y, b, k) /\ (s \in Listed' => InStep(b, c, s, k)')
        <4> SUFFICES ASSUME Live(y) PROVE Delivered(y, b, k) /\ (s \in Listed' => InStep(b, c, s, k)')
          OBVIOUS
        <4>1. y.at = "open"
          BY <3>5 DEF Live
        <4>2. Delivered(y, b, k)
          BY <3>5, <4>1 DEF Delivered
        <4>3. Listed' = Listed
          BY <1>1 DEF Listed, Links
        <4> QED BY <1>1, <3>3, <4>1, <4>2, <4>3 DEF InStep, y
      <3>7. Carried(b, c, s)'
        <4>1. \A d \in Computers : b \in computer'[d].pumps => d = c /\ computer'[d].link = s
          BY <1>1, <3>1 DEF Carried
        <4>2. \A t \in Links' \ {s} : Silent(link'[t].up, Told(b))
          BY <1>1, <3>1 DEF Carried, Links
        <4>3. Live(channel'[b]) => \E j \in Nat : Delivered(channel'[b], b, j) /\ (s \in Listed' => InStep(b, c, s, j)')
          BY <3>6 DEF y
        <4> QED BY <4>1, <4>2, <4>3 DEF Carried, Live, Delivered
      <3>8. (\E d \in Computers, t \in Links : Carried(b, d, t))'
        BY <1>1, <3>7 DEF Links
      <3> QED BY <2>3, <3>2, <3>5, <3>8 DEF Stream, y
    <2> QED BY <2>4, <2>5
  <1> QED BY <1>3, <1>4 DEF StreamInv

-----------------------------------------------------------------------------
(* The streams in the steps of a computer *)

LEMMA AskStreams ==
  ASSUME RelayInv, RelayInv', StreamInv, NEW c \in Computers, Ask(c)
  PROVE  StreamInv'
PROOF
  <1> DEFINE p == [computer[c] EXCEPT !.at = "asked"]
  <1>1. computer[c] \in ComputerRecords /\ ComputerInv /\ LinkType
    BY DEF RelayInv, ComputerInv
  <1>2. /\ p.opening = computer[c].opening /\ p.pumps = computer[c].pumps
        /\ p.link = computer[c].link /\ p.pumped = computer[c].pumped
    BY <1>1 DEF ComputerRecords
  <1>3. Set(c, p) /\ UNCHANGED <<link, channel>>
    BY DEF Ask
  <1> HIDE DEF p
  <1>4. \A ch \in Channels : OpeningPasses(ch) /\ PumpsPass(ch)
    BY <1>1, <1>2, <1>3, SetPasses
  <1>5. \A ch \in Channels : UpsPass(ch) /\ DownsPass(ch) /\ ChannelPasses(ch)
    BY <1>1, <1>3, SameLinksPass, SameChannelPasses
  <1> QED BY <1>4, <1>5, StreamsPass DEF Passes

LEMMA DialStreams ==
  ASSUME RelayInv, RelayInv', StreamInv, NEW c \in Computers, Dial(c)
  PROVE  StreamInv'
PROOF
  <1>1. /\ computer[c] \in ComputerRecords /\ ComputerInv /\ LinkType /\ computer[c].link = NoLink
        /\ UNCHANGED channel
    BY DEF RelayInv, ComputerInv, Owns, Dial
  <1>2. CASE token = c
    <2> DEFINE p == [computer[c] EXCEPT !.at = "hello", !.link = Len(link) + 1]
               new == NewLink(c)
    <2>1. p.opening = computer[c].opening /\ p.pumps = computer[c].pumps /\ p.pumped = computer[c].pumped
      BY <1>1 DEF ComputerRecords
    <2>2. link' = Append(link, new) /\ Set(c, p)
      BY <1>2 DEF Dial
    <2>3. new.up = <<[type |-> "hello"]>> /\ new.down = <<>>
      BY DEF NewLink
    <2> HIDE DEF p, new
    <2>4. /\ DOMAIN link' = 1..(Len(link) + 1) /\ DOMAIN link = 1..Len(link) /\ Len(link) \in Nat
          /\ link'[Len(link) + 1] = new /\ \A t \in DOMAIN link : link'[t] = link[t]
      BY <1>1, <2>2 DEF LinkType
    <2>5. ASSUME NEW ch \in Channels PROVE UpsPass(ch) /\ DownsPass(ch)
      <3>1. Silent(new.up, Told(ch)) /\ Silent(new.down, Asking(ch))
        <4>1. [type |-> "hello"] \notin Told(ch)
          BY DEF Told
        <4> QED BY <2>3, <4>1 DEF Silent
      <3>2. \A t \in Links : Keeps(link[t].up, link[t].up, Told(ch)) /\ Follows(link[t].down, link[t].down, Asking(ch))
        <4>1. \A t \in Links : link[t].up \in Seq(UpMessages) /\ link[t].down \in Seq(DownMessages)
          BY <1>1, LinksAreNumbered DEF LinkRecords
        <4> QED BY <4>1, SameKeeps
      <3>3. Links \subseteq Links' /\ Links' \ Links = {Len(link) + 1} /\ Listed' \cap Links \subseteq Listed
        BY <2>4 DEF Links, Listed
      <3> QED BY <2>4, <3>1, <3>2, <3>3 DEF UpsPass, DownsPass, Links
    <2>6. ASSUME NEW ch \in Channels PROVE OpeningPasses(ch) /\ PumpsPass(ch)
      <3>1. ch \notin computer[c].pumps
        <4>1. CASE Quiet(ch)
          BY <4>1 DEF Quiet
        <4>2. ASSUME NEW d \in Computers, NEW s \in Links, Carried(ch, d, s) PROVE ch \notin computer[c].pumps
          <5>1. s # NoLink
            BY <2>4 DEF Links, NoLink
          <5> QED BY <1>1, <4>2, <5>1 DEF Carried
        <4> QED BY <4>1, <4>2 DEF StreamInv, Stream
      <3> QED BY <1>1, <2>1, <2>2, <3>1, SetPasses
    <2>7. \A ch \in Channels : ChannelPasses(ch)
      BY <1>1, SameChannelPasses
    <2> QED BY <2>5, <2>6, <2>7, StreamsPass DEF Passes
  <1>3. CASE token # c
    <2> DEFINE p == [computer[c] EXCEPT !.at = "idle"]
    <2>1. /\ p.opening = computer[c].opening /\ p.pumps = computer[c].pumps
          /\ p.link = computer[c].link /\ p.pumped = computer[c].pumped
      BY <1>1 DEF ComputerRecords
    <2>2. Set(c, p) /\ UNCHANGED link
      BY <1>3 DEF Dial
    <2> HIDE DEF p
    <2>3. \A ch \in Channels : OpeningPasses(ch) /\ PumpsPass(ch)
      BY <1>1, <2>1, <2>2, SetPasses
    <2>4. \A ch \in Channels : UpsPass(ch) /\ DownsPass(ch) /\ ChannelPasses(ch)
      BY <1>1, <2>2, SameLinksPass, SameChannelPasses
    <2> QED BY <2>3, <2>4, StreamsPass DEF Passes
  <1> QED BY <1>2, <1>3

(* What a message does to a computer. *)
Takes(q, m) ==
  CASE m.type = "hello_accepted" -> [q EXCEPT !.at = "connected"]
    [] m.type = "request" -> [q EXCEPT !.calls = @ \cup {m.call}]
    [] m.type = "open" -> [q EXCEPT !.opening = @ \cup {m.channel}]
    [] m.type = "close" -> [q EXCEPT !.local = @ \ {m.channel}, !.pumps = @ \ {m.channel}]

LEMMA ReceivedPasses ==
  ASSUME NEW q \in ComputerRecords, NEW m \in DownMessages, NEW p, p = Takes(q, m)
  PROVE  /\ p.link = q.link /\ p.pumped = q.pumped /\ p.pumps \subseteq q.pumps
         /\ \A ch : ch \in p.opening => ch \in q.opening \/ m \in Asking(ch)
PROOF
  <1>1. CASE m.type \in {"hello_accepted", "request", "close"}
    BY <1>1 DEF ComputerRecords, Takes
  <1>2. CASE m.type = "open"
    <2>1. p = [q EXCEPT !.opening = @ \cup {m.channel}]
      BY <1>2 DEF Takes
    <2>2. p.link = q.link /\ p.pumped = q.pumped /\ p.pumps = q.pumps /\ p.opening = q.opening \cup {m.channel}
      BY <2>1 DEF ComputerRecords
    <2>3. m \in Asking(m.channel)
      BY <1>2 DEF Asking
    <2> QED BY <2>2, <2>3
  <1>3. m.type \in {"hello_accepted", "request", "open", "close"}
    BY DEF DownMessages
  <1> QED BY <1>1, <1>2, <1>3

(* The order to open has come in: there is no other. *)
LEMMA AskingArrives ==
  ASSUME RelayInv, RelayInv', NEW ch \in Channels, Stream(ch), NEW s \in Links, link[s].down # <<>>,
         Head(link[s].down) \in Asking(ch), Links' = Links, link'[s].down = Tail(link[s].down),
         \A t \in Links \ {s} : link'[t] = link[t],
         UpsPass(ch), PumpsPass(ch), channel'[ch] = channel[ch],
         NEW c \in Computers, \A d \in Computers \ {c} : computer'[d] = computer[d]
  PROVE  Stream(ch)'
PROOF
  <1> DEFINE w == link[s].down
  <1>1. w \in Seq(DownMessages) /\ w # <<>>
    BY LinksAreNumbered DEF RelayInv, LinkRecords
  <1>2. w[1] \in Asking(ch) /\ 1 \in DOMAIN w
    BY <1>1
  <1>3. Asked(ch) /\ AskedOnce(ch) /\ Quiet(ch) /\ channel[ch].at # "new"
    BY <1>2 DEF Stream, Asked, Silent
  <1>4. ASSUME NEW t \in Links PROVE Silent(link'[t].down, Asking(ch))
    <2> SUFFICES ASSUME NEW i \in DOMAIN link'[t].down, link'[t].down[i] \in Asking(ch) PROVE FALSE
      BY DEF Silent
    <2>1. CASE t # s
      BY <1>2, <1>3, <2>1 DEF AskedOnce
    <2>2. CASE t = s
      <3> HIDE DEF w
      <3>1. i + 1 \in DOMAIN w /\ w[i + 1] = link'[t].down[i]
        <4>1. link'[t].down = Tail(w)
          BY <2>2 DEF w
        <4>2. i \in DOMAIN Tail(w)
          BY <4>1
        <4> QED BY <1>1, <4>1, <4>2, TailShifts
      <3>2. 1 = i + 1
        BY <1>2, <1>3, <3>1 DEF AskedOnce, w
      <3>3. i \in DOMAIN Tail(w)
        BY <2>2 DEF w
      <3>4. i \in Nat /\ i >= 1
        BY <1>1, <3>3, TailShifts
      <3> QED BY <3>2, <3>4
    <2> QED BY <2>1, <2>2
  <1>5. \A d \in Computers \ {c} : ch \notin computer'[d].opening
    BY <1>2, <1>3 DEF AskedOnce, Silent
  <1>6. AskedOnce(ch)'
    BY <1>4, <1>5 DEF AskedOnce, Silent
  <1>7. Quiet(ch)'
    BY <1>3, QuietPasses DEF GetsNothing
  <1> QED BY <1>3, <1>6, <1>7 DEF Stream

LEMMA ReceiveStreams ==
  ASSUME RelayInv, RelayInv', StreamInv, NEW c \in Computers, Receive(c)
  PROVE  StreamInv'
PROOF
  <1> DEFINE q == computer[c]
             s == q.link
             m == Head(link[s].down)
             p == Takes(q, m)
             rec == [link[s] EXCEPT !.down = Tail(link[s].down)]
  <1>1. /\ q \in ComputerRecords /\ s \in Links /\ LinkType /\ ComputerInv
        /\ link[s].down # <<>> /\ UNCHANGED channel
    BY DEF RelayInv, ComputerInv, Owns, Receive, Links
  <1>2. link[s] \in LinkRecords
    BY <1>1, LinksAreNumbered
  <1>3. m \in DownMessages /\ Tail(link[s].down) \in Seq(DownMessages)
        /\ link[s].up \in Seq(UpMessages) /\ link[s].down \in Seq(DownMessages)
    BY <1>1, <1>2 DEF LinkRecords
  <1>4. /\ rec \in LinkRecords /\ rec.up = link[s].up /\ rec.down = Tail(link[s].down)
        /\ rec.relay = link[s].relay
    <2> HIDE DEF s
    <2> QED BY <1>2, <1>3 DEF LinkRecords
  <1>5. link' = [link EXCEPT ![s] = rec] /\ Set(c, p)
    BY DEF Receive, Takes
  <1>6. /\ p.link = q.link /\ p.pumped = q.pumped /\ p.pumps \subseteq q.pumps
        /\ \A ch : ch \in p.opening => ch \in q.opening \/ m \in Asking(ch)
    <2> HIDE DEF m, q
    <2> QED BY <1>1, <1>3, ReceivedPasses
  <1> HIDE DEF p, rec
  <1>7. ASSUME NEW ch \in Channels PROVE UpsPass(ch) /\ DownsPass(ch)
    <2> HIDE DEF s
    <2>1. Keeps(link[s].up, rec.up, Told(ch)) /\ Follows(link[s].down, rec.down, Asking(ch))
      BY <1>1, <1>3, <1>4, SameKeeps, TailKeeps
    <2> QED BY <1>1, <1>4, <1>5, <2>1, OneLinkPasses
  <1>8. ASSUME NEW ch \in Channels PROVE PumpsPass(ch) /\ (m \notin Asking(ch) => OpeningPasses(ch)) /\ ChannelPasses(ch)
                                         /\ \A d \in Computers \ {c} : computer'[d] = computer[d]
    <2> HIDE DEF m
    <2> QED BY <1>1, <1>5, <1>6, SetPasses, SameChannelPasses
  <1>9. ASSUME NEW ch \in Channels PROVE Stream(ch)'
    <2>1. CASE m \in Asking(ch)
      <3>1. DOMAIN link' = Links /\ link'[s] = rec /\ \A t \in Links \ {s} : link'[t] = link[t]
        <4> HIDE DEF s
        <4> QED BY <1>1, <1>4, <1>5, ReplacedLink
      <3>2. Links' = Links /\ link'[s].down = Tail(link[s].down) /\ channel'[ch] = channel[ch]
        BY <1>1, <1>4, <3>1 DEF Links
      <3>3. UpsPass(ch) /\ PumpsPass(ch) /\ \A d \in Computers \ {c} : computer'[d] = computer[d]
        BY <1>7, <1>8
      <3>4. Stream(ch)
        BY DEF StreamInv
      <3> HIDE DEF s
      <3> QED BY <1>1, <2>1, <3>1, <3>2, <3>3, <3>4, AskingArrives
    <2>2. CASE m \notin Asking(ch)
      <3>1. Passes(ch)
        BY <1>7, <1>8, <2>2 DEF Passes
      <3> QED BY <3>1, StreamPasses DEF StreamInv
    <2> QED BY <2>1, <2>2
  <1> QED BY <1>9 DEF StreamInv

LEMMA RespondsStreams ==
  ASSUME RelayInv, RelayInv', StreamInv, NEW c \in Computers, NEW r \in Calls, Responds(c, r)
  PROVE  StreamInv'
PROOF
  <1> DEFINE p == [computer[c] EXCEPT !.calls = @ \ {r}]
             m == [type |-> "response", call |-> r]
  <1>1. computer[c] \in ComputerRecords /\ ComputerInv /\ LinkType
    BY DEF RelayInv, ComputerInv
  <1>2. /\ p.opening = computer[c].opening /\ p.pumps = computer[c].pumps
        /\ p.link = computer[c].link /\ p.pumped = computer[c].pumped
    BY <1>1 DEF ComputerRecords
  <1>3. Set(c, p) /\ UNCHANGED channel /\ Up(c, m)
    BY DEF Responds
  <1>4. m \in UpMessages /\ \A ch : m \notin Told(ch)
    BY DEF UpMessages, Told
  <1> HIDE DEF p, m
  <1>5. \A ch \in Channels : OpeningPasses(ch) /\ PumpsPass(ch) /\ ChannelPasses(ch)
    BY <1>1, <1>2, <1>3, SetPasses, SameChannelPasses
  <1>6. \A ch \in Channels : UpsPass(ch) /\ DownsPass(ch)
    BY <1>1, <1>3, <1>4, UpPasses
  <1> QED BY <1>5, <1>6, StreamsPass DEF Passes

(* The local socket is opened: from here its computer sends on the connection it has. *)
LEMMA OpensStream ==
  ASSUME RelayInv, RelayInv', NEW ch \in Channels, Stream(ch), NEW c \in Computers, Opens(c, ch)
  PROVE  Stream(ch)'
PROOF
  <1> DEFINE q == computer[c]
             x == channel[ch]
  <1>1. q \in ComputerRecords /\ ComputerInv /\ LinkType /\ UNCHANGED channel /\ ch \in q.opening
    BY DEF RelayInv, ComputerInv, Opens
  <1> PICK s \in Nat : s = q.link
    BY <1>1 DEF ComputerRecords
  <1>2. PICK p \in ComputerRecords, m \in UpMessages :
          /\ Set(c, p) /\ Up(c, m) /\ m.type \in {"opened", "error"} /\ p.link = s /\ p.pumped = q.pumped
          /\ p.opening = q.opening \ {ch} /\ (p.pumps = q.pumps \/ (s # NoLink /\ p.pumps = q.pumps \cup {ch}))
    <2>1. CASE /\ Set(c, [q EXCEPT !.opening = @ \ {ch}, !.local = @ \cup {ch},
                                  !.pumps = IF q.link # NoLink THEN @ \cup {ch} ELSE @])
               /\ Up(c, [type |-> "opened", channel |-> ch])
      <3> DEFINE pumps == IF q.link # NoLink THEN q.pumps \cup {ch} ELSE q.pumps
                 p == [q EXCEPT !.opening = @ \ {ch}, !.local = @ \cup {ch}, !.pumps = pumps]
                 m == [type |-> "opened", channel |-> ch]
      <3>1. pumps \in SUBSET Channels /\ (pumps = q.pumps \/ (q.link # NoLink /\ pumps = q.pumps \cup {ch}))
        BY <1>1 DEF ComputerRecords
      <3>2. Set(c, p) /\ Up(c, m)
        BY <1>1, <2>1 DEF ComputerRecords
      <3> HIDE DEF pumps
      <3>3. /\ p \in ComputerRecords /\ p.link = s /\ p.pumped = q.pumped /\ p.opening = q.opening \ {ch}
            /\ p.pumps = pumps
        BY <1>1, <3>1 DEF ComputerRecords
      <3>4. m \in UpMessages /\ m.type = "opened"
        BY DEF UpMessages
      <3> HIDE DEF p, m
      <3> QED BY <3>1, <3>2, <3>3, <3>4
    <2>2. CASE Set(c, [q EXCEPT !.opening = @ \ {ch}]) /\ Up(c, [type |-> "error", channel |-> ch])
      <3> DEFINE p == [q EXCEPT !.opening = @ \ {ch}]
                 m == [type |-> "error", channel |-> ch]
      <3>1. /\ p \in ComputerRecords /\ p.link = s /\ p.pumped = q.pumped /\ p.opening = q.opening \ {ch}
            /\ p.pumps = q.pumps
        BY <1>1 DEF ComputerRecords
      <3>2. m \in UpMessages /\ m.type = "error"
        BY DEF UpMessages
      <3>3. Set(c, p) /\ Up(c, m)
        BY <2>2
      <3> HIDE DEF p, m
      <3> QED BY <3>1, <3>2, <3>3
    <2> QED BY <2>1, <2>2 DEF Opens
  <1>3. m \notin Told(ch)
    BY <1>2 DEF Told
  <1>4. UpsPass(ch) /\ DownsPass(ch) /\ Links' = Links /\ (s # NoLink => s \in Links)
    BY <1>1, <1>2, <1>3, UpPasses
  <1>5. /\ computer'[c] = p /\ \A d \in Computers \ {c} : computer'[d] = computer[d]
        /\ OpeningPasses(ch)
    BY <1>1, <1>2, SetPasses
  <1>6. Asked(ch) /\ Quiet(ch) /\ x.at # "new" /\ AskedOnce(ch)
    BY <1>1 DEF Stream, Asked
  <1>7. AskedOnce(ch)' /\ (Asked(ch)' => Asked(ch))
    BY <1>4, <1>5, <1>6, AskingPasses DEF RelayInv
  <1>8. ~Asked(ch)'
    <2>1. \A t \in Links : Silent(link'[t].down, Asking(ch))
      BY <1>1, <1>4, <1>6, SilenceKeeps DEF AskedOnce, DownsPass
    <2>2. \A d \in Computers : ch \notin computer'[d].opening
      BY <1>1, <1>2, <1>5, <1>6 DEF AskedOnce
    <2> QED BY <1>4, <2>1, <2>2 DEF Asked
  <1>9. CASE p.pumps = q.pumps
    <2>1. PumpsPass(ch)
      BY <1>1, <1>2, <1>9, SetPasses
    <2>2. Quiet(ch)'
      BY <1>1, <1>4, <1>6, <2>1, QuietPasses DEF GetsNothing
    <2> QED BY <1>1, <1>6, <1>7, <1>8, <2>2 DEF Stream
  <1>10. CASE s # NoLink /\ p.pumps = q.pumps \cup {ch}
    <2>1. \A d \in Computers : ch \in computer'[d].pumps => d = c /\ computer'[d].link = s
      BY <1>2, <1>5, <1>6 DEF Quiet
    <2>2. \A t \in Links' : Silent(link'[t].up, Told(ch))
      BY <1>4, <1>6, SilenceKeeps, NothingFollows DEF Quiet, UpsPass
    <2>3. computer'[c].pumped[ch] = 0 /\ x.early = <<>> /\ x.got = <<>>
      BY <1>2, <1>5, <1>6 DEF Quiet
    <2>4. Delivered(x, ch, 0)
      BY <2>3 DEF Delivered, Waits
    <2>5. InStep(ch, c, s, 0)'
      <3>1. Silent(link'[s].up, Told(ch))
        BY <1>4, <1>10, <2>2
      <3>2. \A i \in DOMAIN link'[s].up : link'[s].up[i] \notin Told(ch) /\ link'[s].up[i] \notin Data(ch)
        BY <3>1 DEF Silent, Data
      <3>3. Flows(link'[s].up, ch, 0, 0) /\ Unbroken(link'[s].up, ch, 0, 0)
        BY <3>2 DEF Flows, Unbroken
      <3>4. ~(0 < Len(channel'[ch].early))
        BY <1>1, <2>3
      <3> QED BY <2>3, <3>3, <3>4 DEF InStep
    <2>6. Carried(ch, c, s)'
      BY <1>1, <2>1, <2>2, <2>4, <2>5 DEF Carried
    <2>7. (\E d \in Computers, t \in Links : Carried(ch, d, t))'
      BY <1>4, <1>10, <2>6
    <2> QED BY <1>1, <1>6, <1>7, <1>8, <2>7 DEF Stream
  <1> QED BY <1>2, <1>9, <1>10

(* The next message goes after all that were sent, and a close after it. *)
LEMMA SentFlows ==
  ASSUME NEW ch, NEW u \in Seq(UpMessages), NEW m \in Told(ch), NEW k \in Nat, NEW p \in Nat,
         Flows(u, ch, k, p), Unbroken(u, ch, k, p)
  PROVE  /\ m \in Data(ch) /\ m.n = p + 1 =>
              Flows(Append(u, m), ch, k, p + 1) /\ Unbroken(Append(u, m), ch, k, p + 1)
         /\ m \notin Data(ch) => Flows(Append(u, m), ch, k, p)
PROOF
  <1> DEFINE v == Append(u, m)
             l == Len(u)
  <1>1. /\ l \in Nat /\ DOMAIN u = 1..l /\ DOMAIN v = 1..(l + 1) /\ v[l + 1] = m
        /\ \A i \in 1..l : v[i] = u[i]
    BY DEF Told
  <1>2. \A x \in Data(ch) : x \in Told(ch) /\ x.n \in Nat
    BY DEF Data, Told, UpMessages
  <1> HIDE DEF v, l
  <1>3. k <= p
    BY DEF Flows
  <1>4. ASSUME NEW i \in 1..l, v[i] \in Data(ch), NEW r \in {p, p + 1}
        PROVE  /\ v[i].n \in (k + 1)..r
               /\ \A n \in (k + 1)..(v[i].n - 1) : \E j \in 1..(i - 1) : v[j] \in Data(ch) /\ v[j].n = n
               /\ \A j \in 1..(i - 1) : v[j] \in Told(ch) => v[j] \in Data(ch) /\ v[j].n < v[i].n
    <2>1. v[i] = u[i] /\ i \in DOMAIN u /\ \A j \in 1..(i - 1) : v[j] = u[j]
      BY <1>1
    <2>2. /\ u[i].n \in (k + 1)..p
          /\ \A n \in (k + 1)..(u[i].n - 1) : \E j \in 1..(i - 1) : u[j] \in Data(ch) /\ u[j].n = n
          /\ \A j \in 1..(i - 1) : u[j] \in Told(ch) => u[j] \in Data(ch) /\ u[j].n < u[i].n
      BY <1>4, <2>1 DEF Flows
    <2>3. v[i].n \in (k + 1)..r
      BY <2>1, <2>2
    <2>4. \A n \in (k + 1)..(v[i].n - 1) : \E j \in 1..(i - 1) : v[j] \in Data(ch) /\ v[j].n = n
      BY <2>1, <2>2
    <2>5. \A j \in 1..(i - 1) : v[j] \in Told(ch) => v[j] \in Data(ch) /\ v[j].n < v[i].n
      BY <2>1, <2>2
    <2> QED BY <2>3, <2>4, <2>5
  <1>5. ASSUME m \notin Data(ch) PROVE Flows(v, ch, k, p)
    <2>1. \A i \in DOMAIN v : v[i] \in Data(ch) => i \in 1..l
      BY <1>1, <1>5
    <2> QED BY <1>3, <1>4, <2>1 DEF Flows
  <1>6. ASSUME m \in Data(ch), m.n = p + 1 PROVE Flows(v, ch, k, p + 1) /\ Unbroken(v, ch, k, p + 1)
    <2>1. ASSUME NEW n \in (k + 1)..p PROVE \E j \in 1..l : v[j] \in Data(ch) /\ v[j].n = n
      BY <1>1 DEF Unbroken
    <2>2. \A j \in 1..l : v[j] \in Told(ch) => v[j] \in Data(ch) /\ v[j].n < p + 1
      <3> SUFFICES ASSUME NEW j \in 1..l, v[j] \in Told(ch) PROVE v[j] \in Data(ch) /\ v[j].n < p + 1
        OBVIOUS
      <3>1. v[j] \in Data(ch)
        BY <1>1 DEF Unbroken
      <3>2. v[j].n \in (k + 1)..p
        BY <1>4, <3>1
      <3> QED BY <3>1, <3>2
    <2>3. ASSUME NEW i \in DOMAIN v, v[i] \in Data(ch)
          PROVE  /\ v[i].n \in (k + 1)..(p + 1)
                 /\ \A n \in (k + 1)..(v[i].n - 1) : \E j \in 1..(i - 1) : v[j] \in Data(ch) /\ v[j].n = n
                 /\ \A j \in 1..(i - 1) : v[j] \in Told(ch) => v[j] \in Data(ch) /\ v[j].n < v[i].n
      <3>1. CASE i \in 1..l
        BY <1>4, <2>3, <3>1
      <3>2. CASE i = l + 1
        <4>1. v[i].n = p + 1 /\ i - 1 = l /\ v[i].n - 1 = p
          BY <1>1, <1>6, <3>2
        <4> QED BY <1>3, <2>1, <2>2, <4>1
      <3> QED BY <1>1, <3>1, <3>2
    <2>4. Flows(v, ch, k, p + 1)
      <3>1. k <= p + 1
        BY <1>3
      <3> QED BY <2>3, <3>1 DEF Flows
    <2>5. \A n \in (k + 1)..(p + 1) : \E j \in DOMAIN v : v[j] \in Data(ch) /\ v[j].n = n
      <3> TAKE n \in (k + 1)..(p + 1)
      <3>1. CASE n = p + 1
        BY <1>1, <1>6, <3>1
      <3>2. CASE n # p + 1
        <4>1. n \in (k + 1)..p
          BY <3>2
        <4> QED BY <1>1, <2>1, <4>1
      <3> QED BY <3>1, <3>2
    <2>6. \A j \in DOMAIN v : v[j] \in Told(ch) => v[j] \in Data(ch)
      BY <1>1, <1>6, <2>2
    <2> QED BY <2>4, <2>5, <2>6 DEF Unbroken
  <1> QED BY <1>5, <1>6 DEF v

LEMMA PumpsStream ==
  ASSUME RelayInv, RelayInv', NEW ch \in Channels, Stream(ch), NEW c \in Computers,
         Pumps(c, ch) \/ LocalEnds(c, ch)
  PROVE  Stream(ch)'
PROOF
  <1> DEFINE q == computer[c]
             x == channel[ch]
  <1>1. q \in ComputerRecords /\ ComputerInv /\ LinkType /\ UNCHANGED channel /\ ch \in q.pumps
    BY DEF RelayInv, ComputerInv, Pumps, LocalEnds
  <1> PICK n \in Nat : n = q.pumped[ch]
    BY <1>1 DEF ComputerRecords
  <1>2. ~Quiet(ch)
    BY <1>1 DEF Quiet
  <1>3. PICK d \in Computers, s \in Links : Carried(ch, d, s)
    BY <1>2 DEF Stream
  <1>4. d = c /\ q.link = s
    BY <1>1, <1>3 DEF Carried
  <1>5. x.at # "new" /\ ~Asked(ch) /\ AskedOnce(ch)
    BY <1>2 DEF Stream
  <1>6. s \in Nat /\ s # NoLink /\ s \in DOMAIN link /\ link[s] \in LinkRecords
    BY <1>1, LinksAreNumbered DEF NoLink, Links
  <1>7. link[s].up \in Seq(UpMessages)
    BY <1>6 DEF LinkRecords
  <1>8. PICK p \in ComputerRecords, m \in Told(ch) :
          /\ Set(c, p) /\ Up(c, m) /\ p.link = s /\ p.opening = q.opening
          /\ \/ m \in Data(ch) /\ m.n = n + 1 /\ p.pumped[ch] = n + 1 /\ p.pumps = q.pumps
             \/ m \notin Data(ch) /\ p.pumped[ch] = n /\ p.pumps = q.pumps \ {ch}
    <2>1. CASE Pumps(c, ch)
      <3> DEFINE p == [q EXCEPT !.pumped[ch] = n + 1]
                 m == [type |-> "data", channel |-> ch, n |-> n + 1]
      <3>1. n + 1 \in Nat
        OBVIOUS
      <3>2. p \in ComputerRecords /\ p.link = q.link /\ p.opening = q.opening /\ p.pumped[ch] = n + 1
            /\ p.pumps = q.pumps
        BY <1>1, <3>1 DEF ComputerRecords
      <3>3. m \in Data(ch) /\ m \in Told(ch) /\ m.n = n + 1
        BY <3>1 DEF Data, Told, UpMessages
      <3>4. Set(c, p) /\ Up(c, m)
        BY <2>1 DEF Pumps
      <3> HIDE DEF p, m
      <3> QED BY <1>4, <3>2, <3>3, <3>4
    <2>2. CASE LocalEnds(c, ch)
      <3> DEFINE p == [q EXCEPT !.local = @ \ {ch}, !.pumps = @ \ {ch}]
                 m == [type |-> "close", channel |-> ch]
      <3>1. p \in ComputerRecords /\ p.link = q.link /\ p.opening = q.opening /\ p.pumped[ch] = n
            /\ p.pumps = q.pumps \ {ch}
        BY <1>1 DEF ComputerRecords
      <3>2. m \in Told(ch) /\ m \notin Data(ch)
        BY DEF Data, Told, UpMessages
      <3>3. Set(c, p) /\ Up(c, m)
        BY <2>2 DEF LocalEnds
      <3> HIDE DEF p, m
      <3> QED BY <1>4, <3>1, <3>2, <3>3
    <2> QED BY <2>1, <2>2
  <1>9. m \in UpMessages
    BY DEF Told
  <1>10. /\ DownsPass(ch) /\ Links' = Links /\ Listed' = Listed
         /\ link'[s].up = Append(link[s].up, m) /\ \A t \in Links \ {s} : link'[t] = link[t]
    BY <1>1, <1>4, <1>6, <1>8, <1>9, UpPasses
  <1>11. /\ computer'[c] = p /\ \A e \in Computers \ {c} : computer'[e] = computer[e]
         /\ OpeningPasses(ch)
    BY <1>1, <1>8, SetPasses
  <1>12. AskedOnce(ch)' /\ ~Asked(ch)'
    BY <1>5, <1>10, <1>11, AskingPasses DEF RelayInv
  <1>13. Carried(ch, c, s)'
    <2>1. \A e \in Computers : ch \in computer'[e].pumps => e = c /\ computer'[e].link = s
      BY <1>3, <1>4, <1>8, <1>11 DEF Carried
    <2>2. \A t \in Links' \ {s} : Silent(link'[t].up, Told(ch))
      BY <1>3, <1>10 DEF Carried
    <2>3. ASSUME Live(x) PROVE \E k \in Nat : Delivered(x, ch, k) /\ (s \in Listed' => InStep(ch, c, s, k)')
      <3>1. PICK k \in Nat : Delivered(x, ch, k) /\ (s \in Listed => InStep(ch, c, s, k))
        BY <1>3, <1>4, <2>3 DEF Carried
      <3>2. ASSUME s \in Listed PROVE InStep(ch, c, s, k)'
        <4>1. /\ Flows(link[s].up, ch, k, n) /\ Unbroken(link[s].up, ch, k, n)
              /\ ~(x.at # "open" /\ k < Len(x.early))
          BY <1>1, <3>1, <3>2 DEF InStep
        <4>2. CASE m \in Data(ch)
          <5>1. computer'[c].pumped[ch] = n + 1
            BY <1>8, <1>11, <4>2
          <5>2. Flows(link'[s].up, ch, k, n + 1) /\ Unbroken(link'[s].up, ch, k, n + 1)
            BY <1>7, <1>8, <1>10, <4>1, <4>2, SentFlows
          <5> QED BY <1>1, <4>1, <5>1, <5>2 DEF InStep
        <4>3. CASE m \notin Data(ch)
          <5>1. computer'[c].pumped[ch] = n /\ ch \notin computer'[c].pumps
            BY <1>8, <1>11, <4>3
          <5>2. Flows(link'[s].up, ch, k, n)
            BY <1>7, <1>10, <4>1, <4>3, SentFlows
          <5> QED BY <1>1, <4>1, <5>1, <5>2 DEF InStep
        <4> QED BY <4>2, <4>3
      <3> QED BY <1>10, <3>1, <3>2
    <2> QED BY <1>1, <2>1, <2>2, <2>3 DEF Carried
  <1>14. (\E e \in Computers, t \in Links : Carried(ch, e, t))'
    BY <1>10, <1>13
  <1> QED BY <1>1, <1>5, <1>12, <1>14 DEF Stream

(* What a task of one websocket does is nothing to the others. *)
LEMMA TaskStreams ==
  ASSUME RelayInv, RelayInv', StreamInv, NEW c \in Computers, NEW b \in Channels,
         Opens(c, b) \/ Pumps(c, b) \/ LocalEnds(c, b)
  PROVE  StreamInv'
PROOF
  <1> DEFINE q == computer[c]
  <1>1. q \in ComputerRecords /\ ComputerInv /\ LinkType /\ UNCHANGED channel
    BY DEF RelayInv, ComputerInv, Opens, Pumps, LocalEnds
  <1>2. Stream(b)'
    BY OpensStream, PumpsStream DEF StreamInv
  <1>3. ASSUME NEW ch \in Channels \ {b} PROVE Stream(ch)'
    <2>1. PICK p \in ComputerRecords, m \in UpMessages :
            /\ Set(c, p) /\ Up(c, m) /\ m \notin Told(ch) /\ p.link = q.link /\ p.pumped[ch] = q.pumped[ch]
            /\ (ch \in p.opening => ch \in q.opening) /\ (ch \in p.pumps => ch \in q.pumps)
      <3>1. CASE Opens(c, b)
        <4>1. CASE /\ Set(c, [q EXCEPT !.opening = @ \ {b}, !.local = @ \cup {b},
                                      !.pumps = IF q.link # NoLink THEN @ \cup {b} ELSE @])
                   /\ Up(c, [type |-> "opened", channel |-> b])
          <5> DEFINE pumps == IF q.link # NoLink THEN q.pumps \cup {b} ELSE q.pumps
                     p == [q EXCEPT !.opening = @ \ {b}, !.local = @ \cup {b}, !.pumps = pumps]
                     m == [type |-> "opened", channel |-> b]
          <5>1. pumps \in SUBSET Channels /\ (ch \in pumps => ch \in q.pumps)
            BY <1>1 DEF ComputerRecords
          <5>2. Set(c, p) /\ Up(c, m)
            BY <1>1, <4>1 DEF ComputerRecords
          <5> HIDE DEF pumps
          <5>3. /\ p \in ComputerRecords /\ p.link = q.link /\ p.pumped = q.pumped /\ p.opening = q.opening \ {b}
                /\ p.pumps = pumps
            BY <1>1, <5>1 DEF ComputerRecords
          <5>4. m \in UpMessages /\ m \notin Told(ch)
            BY DEF UpMessages, Told
          <5> HIDE DEF p, m
          <5> QED BY <5>1, <5>2, <5>3, <5>4
        <4>2. CASE Set(c, [q EXCEPT !.opening = @ \ {b}]) /\ Up(c, [type |-> "error", channel |-> b])
          <5> DEFINE p == [q EXCEPT !.opening = @ \ {b}]
                     m == [type |-> "error", channel |-> b]
          <5>1. /\ p \in ComputerRecords /\ p.link = q.link /\ p.pumped = q.pumped /\ p.opening = q.opening \ {b}
                /\ p.pumps = q.pumps
            BY <1>1 DEF ComputerRecords
          <5>2. m \in UpMessages /\ m \notin Told(ch)
            BY DEF UpMessages, Told
          <5>3. Set(c, p) /\ Up(c, m)
            BY <4>2
          <5> HIDE DEF p, m
          <5> QED BY <5>1, <5>2, <5>3
        <4> QED BY <3>1, <4>1, <4>2 DEF Opens
      <3>2. CASE Pumps(c, b)
        <4> DEFINE n == q.pumped[b] + 1
                   p == [q EXCEPT !.pumped[b] = n]
                   m == [type |-> "data", channel |-> b, n |-> n]
        <4>1. n \in Nat
          BY <1>1 DEF ComputerRecords
        <4>2. Set(c, p) /\ Up(c, m)
          BY <3>2 DEF Pumps
        <4> HIDE DEF n
        <4>3. /\ p \in ComputerRecords /\ p.link = q.link /\ p.opening = q.opening /\ p.pumped[ch] = q.pumped[ch]
              /\ p.pumps = q.pumps
          BY <1>1, <4>1 DEF ComputerRecords
        <4>4. m \in UpMessages /\ m \notin Told(ch)
          BY <4>1 DEF UpMessages, Told
        <4> HIDE DEF p, m
        <4> QED BY <4>2, <4>3, <4>4
      <3>3. CASE LocalEnds(c, b)
        <4> DEFINE p == [q EXCEPT !.local = @ \ {b}, !.pumps = @ \ {b}]
                   m == [type |-> "close", channel |-> b]
        <4>1. /\ p \in ComputerRecords /\ p.link = q.link /\ p.opening = q.opening /\ p.pumped = q.pumped
              /\ p.pumps = q.pumps \ {b}
          BY <1>1 DEF ComputerRecords
        <4>2. m \in UpMessages /\ m \notin Told(ch)
          BY DEF UpMessages, Told
        <4>3. Set(c, p) /\ Up(c, m)
          BY <3>3 DEF LocalEnds
        <4> HIDE DEF p, m
        <4> QED BY <4>1, <4>2, <4>3
      <3> QED BY <3>1, <3>2, <3>3
    <2>2. UpsPass(ch) /\ DownsPass(ch)
      BY <1>1, <2>1, UpPasses
    <2>3. OpeningPasses(ch) /\ PumpsPass(ch)
      BY <1>1, <2>1, SetPasses
    <2> QED BY <1>1, <2>2, <2>3, SameChannelPasses, StreamPasses DEF Passes, StreamInv
  <1> QED BY <1>2, <1>3 DEF StreamInv

LEMMA OverStreams ==
  ASSUME RelayInv, RelayInv', StreamInv, NEW c \in Computers, ComputerSeesEnd(c) \/ Drop(c)
  PROVE  StreamInv'
PROOF
  <1> DEFINE s == computer[c].link
             p == [computer[c] EXCEPT !.at = "idle", !.link = NoLink, !.local = {}, !.pumps = {}]
  <1>1. /\ s # NoLink /\ s \in Links /\ link[s] \in LinkRecords /\ LinkType /\ ComputerInv /\ UNCHANGED channel
        /\ computer[c] \in ComputerRecords /\ link[s].owner = c
    BY LinksAreNumbered DEF RelayInv, ComputerInv, Owns, Links, ComputerSeesEnd, Drop, Over
  <1>2. link[s].up \in Seq(UpMessages) /\ link[s].down \in Seq(DownMessages) /\ <<>> \in Seq(UpMessages)
        /\ <<>> \in Seq(DownMessages)
    BY <1>1 DEF LinkRecords
  <1>3. p.opening = computer[c].opening /\ p.pumps = {} /\ p.pumped = computer[c].pumped
    BY <1>1 DEF ComputerRecords
  <1>4. Set(c, p)
    BY DEF ComputerSeesEnd, Drop, Over
  <1> HIDE DEF p
  <1>5. \A ch \in Channels : OpeningPasses(ch) /\ PumpsPass(ch) /\ ChannelPasses(ch)
    BY <1>1, <1>3, <1>4, SetPasses, SameChannelPasses
  <1>6. PICK u \in {link[s].up, <<>>} : link' = [link EXCEPT ![s] = [@ EXCEPT !.far = "ended", !.up = u, !.down = <<>>]]
    <2>1. CASE ComputerSeesEnd(c)
      <3>1. link' = [link EXCEPT ![s] = [@ EXCEPT !.far = "ended", !.up = link[s].up, !.down = <<>>]]
        BY <1>1, <2>1 DEF ComputerSeesEnd, Over, LinkRecords
      <3> QED BY <3>1
    <2>2. CASE Drop(c)
      <3>1. link' = [link EXCEPT ![s] = [@ EXCEPT !.far = "ended", !.up = <<>>, !.down = <<>>]]
        BY <1>1, <2>2 DEF Drop, Over, LinkRecords
      <3> QED BY <3>1
    <2> QED BY <2>1, <2>2
  <1>7. ASSUME NEW ch \in Channels PROVE UpsPass(ch) /\ DownsPass(ch)
    <2> DEFINE rec == [link[s] EXCEPT !.far = "ended", !.up = u, !.down = <<>>]
    <2>1. rec \in LinkRecords /\ rec.up = u /\ rec.down = <<>> /\ rec.relay = link[s].relay
      <3> HIDE DEF s
      <3> QED BY <1>1, <1>2 DEF LinkRecords
    <2>2. link' = [link EXCEPT ![s] = rec]
      BY <1>6
    <2> HIDE DEF rec
    <2>3. \A d \in Computers : ch \in computer'[d].pumps => computer'[d].link # s
      <3> SUFFICES ASSUME NEW d \in Computers, ch \in computer'[d].pumps PROVE computer'[d].link # s
        OBVIOUS
      <3>1. d # c /\ computer'[d] = computer[d]
        BY <1>1, <1>3, <1>4, SetPasses
      <3> QED BY <1>1, <3>1 DEF ComputerInv, Owns
    <2>4. Follows(link[s].down, rec.down, Asking(ch)) /\ (u = link[s].up => Keeps(link[s].up, rec.up, Told(ch)))
      BY <1>2, <2>1, NothingFollows, SameKeeps
    <2> QED BY <1>1, <1>6, <2>1, <2>2, <2>3, <2>4, OneLinkPasses
  <1> QED BY <1>5, <1>7, StreamsPass DEF Passes

-----------------------------------------------------------------------------
LEMMA StreamInvInit ==
  ASSUME RelayConstants, Init
  PROVE  StreamInv
PROOF
  <1>1. Links = {}
    BY DEF Init, Links
  <1>2. \A ch \in Channels : ~Asked(ch) /\ AskedOnce(ch) /\ Quiet(ch) /\ InOrder(channel[ch].got)
    BY <1>1 DEF Init, Asked, AskedOnce, Quiet, InOrder
  <1> QED BY <1>2 DEF StreamInv, Stream

LEMMA StreamInvNext ==
  ASSUME RelayConstants, RelayInv, RelayInv', StreamInv, [Next]_vars
  PROVE  StreamInv'
PROOF
  <1>1. CASE Relay
    BY <1>1, FromConnectorStreams, EndedStreams DEF Relay
  <1>2. CASE Browser
    BY <1>2, CallStreams, OpenStartsStreams, LeavingStreams, AcceptedStreams DEF Browser
  <1>3. ASSUME NEW c \in Computers, Connect(c) \/ Drop(c) \/ Pair(c) \/ Revoke(c)
        PROVE  StreamInv'
    BY <1>3, AskStreams, DialStreams, ReceiveStreams, OverStreams, PairingStreams DEF Connect
  <1>4. ASSUME NEW c \in Computers, NEW r \in Calls, Responds(c, r)
        PROVE  StreamInv'
    BY <1>4, RespondsStreams
  <1>5. ASSUME NEW c \in Computers, NEW ch \in Channels, Opens(c, ch) \/ Pumps(c, ch) \/ LocalEnds(c, ch)
        PROVE  StreamInv'
    BY <1>5, TaskStreams
  <1>6. CASE UNCHANGED vars
    <2>1. UNCHANGED <<link, computer, channel>> /\ LinkType
      BY <1>6 DEF vars, RelayInv
    <2>2. \A ch \in Channels : Passes(ch)
      BY <2>1, SameLinksPass, SameComputersPass, SameChannelPasses DEF Passes
    <2> QED BY <2>2, StreamsPass
  <1> QED BY <1>1, <1>2, <1>3, <1>4, <1>5, <1>6 DEF Next

(* Whatever else goes over the connections, however they end and are dialled again, and
   whichever computer answers: what the local socket of a websocket sent reaches the browser
   in order and without a gap, what came before the browser's end was accepted included
   (proxyWebSocket, fromConnector and _pump_local_websocket). *)
THEOREM StreamsAreInOrder == Spec => []StreamInOrder
PROOF
  <1>1. Init => StreamInv
    BY StreamInvInit, RelayConstants
  <1>2. RelayInv /\ RelayInv' /\ StreamInv /\ [Next]_vars => StreamInv'
    BY StreamInvNext, RelayConstants
  <1>3. StreamInv => StreamInOrder
    BY DEF StreamInv, Stream, InOrder, StreamInOrder
  <1> QED BY <1>1, <1>2, <1>3, RelayInvAlways, PTL DEF Spec

=============================================================================
