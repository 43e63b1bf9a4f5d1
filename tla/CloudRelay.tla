------------------------------ MODULE CloudRelay ------------------------------
(***************************************************************************)
(* Remote access through the Cloudflare relay: the object of one account,  *)
(* the computers that dial in to it, and the requests and websockets of    *)
(* browsers, which it carries over the one connection of the computer.     *)
(*                                                                         *)
(* A connection ("link") has two ends that see it end at different times.  *)
(* A link the relay has closed stays listed, and fails what is sent on it, *)
(* until the computer has answered the close.                              *)
(***************************************************************************)
EXTENDS Naturals, Sequences, FiniteSets, FiniteSetsExt

CONSTANTS
  Computers, NoComputer,
  Paired,      \* the computer the account is paired with at the start
  Calls,       \* HTTP requests of browsers
  Channels,    \* websockets of browsers
  MaxLinks,    \* bound: connections dialled
  MaxData,     \* bound: messages a local socket sends
  MaxActs      \* bound: pairings, revocations, lost connections, timeouts

ASSUME RelayConstants ==
  /\ Paired \in Computers /\ NoComputer \notin Computers
  /\ MaxLinks \in Nat /\ MaxData \in Nat /\ MaxActs \in Nat

VARIABLES
  token,     \* the computer whose connector token the account accepts
  link,      \* the connections there have been, in the order they were accepted
  computer,  \* per computer: what its connector is doing
  call,      \* per request of a browser
  channel,   \* per websocket of a browser, at the relay
  acts

vars == <<token, link, computer, call, channel, acts>>

Act == acts < MaxActs /\ acts' = acts + 1

-----------------------------------------------------------------------------
(* The object of the account *)

Links == DOMAIN link
Listed == {s \in Links : link[s].relay # "ended"}

(* connector(): the first that said hello. *)
Ready == {s \in Listed : link[s].ready}
NoLink == 0
Connector == IF Ready = {} THEN NoLink ELSE Min(Ready)

(* send() works on a connection that is open here, and throws on one that was closed. *)
Sendable(s) == link[s].relay = "open"
Down(l, s, m) == [l EXCEPT ![s].down = Append(@, m)]

CloseAll(l, S) == [s \in DOMAIN l |-> IF s \in S /\ l[s].relay = "open" THEN [l[s] EXCEPT !.relay = "closing"] ELSE l[s]]

(* Variant: the answer the wrong way round. *)
DemandWhileReady == Connector # NoLink

(* /demand *)
Demand == Connector = NoLink

(* acceptConnector *)
NewLink(c) == [owner |-> c, ready |-> FALSE, relay |-> "open", far |-> "open",
               up |-> <<[type |-> "hello"]>>, down |-> <<>>]

(* The hello of a connection puts every other one out, its own being closed or not. *)
Hello(s) ==
  LET l == [CloseAll(link, Listed \ {s}) EXCEPT ![s] = [link[s] EXCEPT !.ready = TRUE, !.up = Tail(link[s].up)]]
  IN /\ link' = IF Sendable(s) THEN Down(l, s, [type |-> "hello_accepted"]) ELSE l
     /\ UNCHANGED <<call, channel>>

(* deliverToBrowser *)
Deliver(ch, m) ==
  CASE m.type = "data" -> [ch EXCEPT !.got = Append(@, m.n)]
    [] m.type = "close" -> [ch EXCEPT !.at = "closed"]
    [] OTHER -> ch

(* Variant: nothing waits for the browser's end. *)
RoutedAtOnce(ch, m) ==
  CASE ch.at = "opening" /\ m.type = "opened" -> [ch EXCEPT !.at = "opened"]
    [] ch.at = "opening" /\ m.type = "error" -> [ch EXCEPT !.at = "refused"]
    [] ch.at = "open" -> Deliver(ch, m)
    [] OTHER -> ch

(* fromConnector, for a message that names a channel *)
Routed(ch, m) ==
  CASE ch.at = "opening" /\ m.type = "opened" -> [ch EXCEPT !.at = "opened"]
    [] ch.at = "opening" /\ m.type = "error" -> [ch EXCEPT !.at = "refused"]
    [] ch.at \in {"opening", "opened"} /\ m.type \in {"data", "close"} -> [ch EXCEPT !.early = Append(@, m)]
    [] ch.at = "open" -> Deliver(ch, m)
    [] OTHER -> ch

(* webSocketMessage of a connection *)
FromConnector(s) ==
  /\ s \in Listed /\ link[s].up # <<>>
  /\ LET m == Head(link[s].up)
     IN IF m.type = "hello" THEN Hello(s)
        ELSE /\ link' = [link EXCEPT ![s].up = Tail(@)]
             /\ IF m.type = "response"
                THEN /\ call' = [call EXCEPT ![m.call].at = IF @ = "sent" THEN "done" ELSE @]
                     /\ UNCHANGED channel
                ELSE /\ channel' = [channel EXCEPT ![m.channel] = Routed(@, m)]
                     /\ UNCHANGED call
  /\ UNCHANGED <<token, computer, acts>>

(* Variant: what waits is left waiting. *)
FailNothing(S) == UNCHANGED <<call, channel>>

(* Whatever waits for the computer fails, and the browsers are let go. *)
FailWaiting(S) ==
  /\ call' = [r \in Calls |-> [call[r] EXCEPT !.at = IF @ = "sent" THEN "done" ELSE @]]
  /\ channel' = [ch \in Channels |-> [channel[ch] EXCEPT !.at = CASE @ = "opening" -> "refused"
                                                                  [] @ = "open" -> "closed"
                                                                  [] OTHER -> @]]

(* socketEnded of a connection *)
Ended(s, l) ==
  /\ link' = [l EXCEPT ![s].relay = "ended"]
  /\ IF link[s].ready /\ Ready \ {s} = {} THEN FailWaiting(s) ELSE UNCHANGED <<call, channel>>

RelaySeesEnd(s) ==
  /\ s \in Listed /\ link[s].far = "ended" /\ link[s].up = <<>>
  /\ Ended(s, link)
  /\ UNCHANGED <<token, computer, acts>>

(* The connection is lost with what was on it, and the relay notices first. *)
RelayLoses(s) ==
  /\ s \in Listed /\ Act
  /\ Ended(s, [link EXCEPT ![s].up = <<>>, ![s].down = <<>>])
  /\ UNCHANGED <<token, computer>>

(* save-token: pairing a computer makes its token the one that counts. *)
Pair(c) ==
  /\ Act /\ token # c /\ token' = c
  /\ UNCHANGED <<link, computer, call, channel>>

(* revoke, sent by a computer whose token counts *)
Revoke(c) ==
  /\ Act /\ token = c /\ token' = NoComputer
  /\ link' = IF Connector = NoLink THEN link ELSE CloseAll(link, {Connector})
  /\ UNCHANGED <<computer, call, channel>>

-----------------------------------------------------------------------------
(* Browsers *)

(* proxyHttp: the connection is chosen before the body of the request is read. *)
CallStarts(r) ==
  /\ call[r].at = "new"
  /\ call' = [call EXCEPT ![r] = IF Connector # NoLink THEN [at |-> "picked", on |-> Connector]
                                 ELSE [at |-> "waiting", on |-> NoLink]]
  /\ UNCHANGED <<token, link, computer, channel, acts>>

(* A navigation does not wait: the page that says so comes at once. *)
CallOffline(r) ==
  /\ call[r].at = "new" /\ Connector = NoLink
  /\ call' = [call EXCEPT ![r].at = "done"]
  /\ UNCHANGED <<token, link, computer, channel, acts>>

(* waitForConnector *)
CallPicks(r) ==
  /\ call[r].at = "waiting" /\ Connector # NoLink
  /\ call' = [call EXCEPT ![r] = [at |-> "picked", on |-> Connector]]
  /\ UNCHANGED <<token, link, computer, channel, acts>>

CallSent(r) ==
  LET s == call[r].on
  IN /\ call[r].at = "picked"
     /\ IF Sendable(s)
        THEN link' = Down(link, s, [type |-> "request", call |-> r]) /\ call' = [call EXCEPT ![r].at = "sent"]
        ELSE UNCHANGED link /\ call' = [call EXCEPT ![r].at = "done"]
     /\ UNCHANGED <<token, computer, channel, acts>>

(* The wait for a computer, or for its answer, has taken too long. *)
CallTimesOut(r) ==
  /\ call[r].at = "waiting" \/ (call[r].at = "sent" /\ Act)
  /\ call[r].at = "waiting" => Connector = NoLink /\ UNCHANGED acts
  /\ call' = [call EXCEPT ![r].at = "done"]
  /\ UNCHANGED <<token, link, computer, channel>>

(* proxyWebSocket *)
OpenStarts(ch) ==
  LET s == Connector
      sent == s # NoLink /\ Sendable(s)
  IN /\ channel[ch].at = "new"
     /\ link' = IF sent THEN Down(link, s, [type |-> "open", channel |-> ch]) ELSE link
     /\ channel' = [channel EXCEPT ![ch].at = IF sent THEN "opening" ELSE "refused"]
     /\ UNCHANGED <<token, computer, call, acts>>

OpenTimesOut(ch) ==
  /\ channel[ch].at = "opening" /\ Act
  /\ channel' = [channel EXCEPT ![ch].at = "refused"]
  /\ UNCHANGED <<token, link, computer, call>>

(* What waited for the browser's end, delivered to it in turn. *)
Caught(early) ==
  LET after[i \in 0..Len(early)] ==
        IF i = 0 THEN [at |-> "open", early |-> <<>>, got |-> <<>>] ELSE Deliver(after[i - 1], early[i])
  IN after[Len(early)]

(* The browser's end is accepted, and gets what came before it was. *)
Accepted(ch) ==
  /\ channel[ch].at = "opened"
  /\ channel' = [channel EXCEPT ![ch] = Caught(@.early)]
  /\ UNCHANGED <<token, link, computer, call, acts>>

(* webSocketMessage of a browser: what it sends is passed on and not followed here, and
   without a computer the browser is let go. *)
BrowserSends(ch) ==
  /\ channel[ch].at = "open" /\ Connector = NoLink
  /\ channel' = [channel EXCEPT ![ch].at = "closed"]
  /\ UNCHANGED <<token, link, computer, call, acts>>

(* Variant: the computer is not told. *)
LeftQuietly(ch) == link

(* socketEnded of a browser *)
Left(ch) ==
  IF Connector # NoLink /\ Sendable(Connector)
  THEN Down(link, Connector, [type |-> "close", channel |-> ch]) ELSE link

BrowserLeaves(ch) ==
  /\ channel[ch].at = "open"
  /\ channel' = [channel EXCEPT ![ch].at = "closed"]
  /\ link' = Left(ch)
  /\ UNCHANGED <<token, computer, call, acts>>

-----------------------------------------------------------------------------
(* A computer *)

Set(c, rec) == computer' = [computer EXCEPT ![c] = rec]

(* _send goes out on the connection of the moment; without one it raises. *)
Up(c, m) ==
  LET s == computer[c].link
  IN link' = IF s # NoLink /\ link[s].far = "open" THEN [link EXCEPT ![s].up = Append(@, m)] ELSE link

(* _relay_requests_connection: a computer whose token does not count is refused. *)
Ask(c) ==
  /\ computer[c].at = "idle" /\ token = c /\ Demand
  /\ Set(c, [computer[c] EXCEPT !.at = "asked"])
  /\ UNCHANGED <<token, link, call, channel, acts>>

(* _connect_once: the token is checked again, and the hello follows. *)
Dial(c) ==
  /\ computer[c].at = "asked" /\ Len(link) < MaxLinks
  /\ IF token = c
     THEN link' = Append(link, NewLink(c)) /\ Set(c, [computer[c] EXCEPT !.at = "hello", !.link = Len(link) + 1])
     ELSE UNCHANGED link /\ Set(c, [computer[c] EXCEPT !.at = "idle"])
  /\ UNCHANGED <<token, call, channel, acts>>

(* _dispatch_message *)
Receive(c) ==
  LET p == computer[c]
      m == Head(link[p.link].down)
  IN /\ p.link # NoLink /\ link[p.link].far = "open" /\ link[p.link].down # <<>>
     /\ link' = [link EXCEPT ![p.link].down = Tail(@)]
     /\ Set(c, CASE m.type = "hello_accepted" -> [p EXCEPT !.at = "connected"]
                 [] m.type = "request" -> [p EXCEPT !.calls = @ \cup {m.call}]
                 [] m.type = "open" -> [p EXCEPT !.opening = @ \cup {m.channel}]
                 [] m.type = "close" -> [p EXCEPT !.local = @ \ {m.channel}, !.pumps = @ \ {m.channel}])
     /\ UNCHANGED <<token, call, channel, acts>>

(* _proxy_http_request: a task of its own, which outlives the connection it came on. *)
Responds(c, r) ==
  /\ r \in computer[c].calls
  /\ Set(c, [computer[c] EXCEPT !.calls = @ \ {r}])
  /\ Up(c, [type |-> "response", call |-> r])
  /\ UNCHANGED <<token, call, channel, acts>>

(* _open_local_websocket: a task of its own as well. *)
Opens(c, ch) ==
  LET live == computer[c].link # NoLink
  IN /\ ch \in computer[c].opening
     /\ \/ /\ Set(c, [computer[c] EXCEPT !.opening = @ \ {ch}, !.local = @ \cup {ch},
                                         !.pumps = IF live THEN @ \cup {ch} ELSE @])
           /\ Up(c, [type |-> "opened", channel |-> ch])
        \/ /\ Set(c, [computer[c] EXCEPT !.opening = @ \ {ch}])
           /\ Up(c, [type |-> "error", channel |-> ch])
     /\ UNCHANGED <<token, call, channel, acts>>

(* _pump_local_websocket *)
Pumps(c, ch) ==
  LET n == computer[c].pumped[ch] + 1
  IN /\ ch \in computer[c].pumps /\ n <= MaxData
     /\ Set(c, [computer[c] EXCEPT !.pumped[ch] = n])
     /\ Up(c, [type |-> "data", channel |-> ch, n |-> n])
     /\ UNCHANGED <<token, call, channel, acts>>

LocalEnds(c, ch) ==
  /\ ch \in computer[c].pumps
  /\ Set(c, [computer[c] EXCEPT !.local = @ \ {ch}, !.pumps = @ \ {ch}])
  /\ Up(c, [type |-> "close", channel |-> ch])
  /\ UNCHANGED <<token, call, channel, acts>>

(* Variant: the connection is not forgotten. *)
OverKept(c, s, l) ==
  /\ link' = [l EXCEPT ![s].far = "ended", ![s].down = <<>>]
  /\ Set(c, [computer[c] EXCEPT !.at = "idle", !.local = {}, !.pumps = {}])
  /\ UNCHANGED <<token, call, channel>>

(* The connection of a computer is over: the local sockets are closed with it (the
   finally of run). *)
Over(c, s, l) ==
  /\ link' = [l EXCEPT ![s].far = "ended", ![s].down = <<>>]
  /\ Set(c, [computer[c] EXCEPT !.at = "idle", !.link = NoLink, !.local = {}, !.pumps = {}])
  /\ UNCHANGED <<token, call, channel>>

(* It reads what came before the close first. *)
ComputerSeesEnd(c) ==
  LET s == computer[c].link
  IN /\ s # NoLink /\ link[s].relay # "open" /\ link[s].down = <<>>
     /\ Over(c, s, link) /\ UNCHANGED acts

(* The connection is lost with what was on it, and the computer notices first. *)
Drop(c) ==
  LET s == computer[c].link
  IN s # NoLink /\ Act /\ Over(c, s, [link EXCEPT ![s].up = <<>>])

-----------------------------------------------------------------------------
Init ==
  /\ token = Paired /\ link = <<>>
  /\ computer = [c \in Computers |-> [at |-> "idle", link |-> NoLink, calls |-> {}, opening |-> {}, local |-> {},
                                      pumps |-> {}, pumped |-> [ch \in Channels |-> 0]]]
  /\ call = [r \in Calls |-> [at |-> "new", on |-> NoLink]]
  /\ channel = [ch \in Channels |-> [at |-> "new", early |-> <<>>, got |-> <<>>]]
  /\ acts = 0

Relay == \E s \in Links : FromConnector(s) \/ RelaySeesEnd(s) \/ RelayLoses(s)

Connect(c) == Ask(c) \/ Dial(c) \/ Receive(c) \/ ComputerSeesEnd(c)

Browser ==
  \/ \E r \in Calls : CallStarts(r) \/ CallOffline(r) \/ CallPicks(r) \/ CallSent(r) \/ CallTimesOut(r)
  \/ \E ch \in Channels : OpenStarts(ch) \/ OpenTimesOut(ch) \/ Accepted(ch) \/ BrowserSends(ch) \/ BrowserLeaves(ch)

Next ==
  \/ Relay \/ Browser
  \/ \E c \in Computers :
       \/ Connect(c) \/ Drop(c) \/ Pair(c) \/ Revoke(c)
       \/ \E r \in Calls : Responds(c, r)
       \/ \E ch \in Channels : Opens(c, ch) \/ Pumps(c, ch) \/ LocalEnds(c, ch)

Spec == Init /\ [][Next]_vars

(* The relay handles what arrives, and a connector keeps asking, dialling and reading. *)
FairSpec ==
  /\ Spec
  /\ \A s \in 1..MaxLinks : WF_vars(s \in Links /\ (FromConnector(s) \/ RelaySeesEnd(s)))
  /\ \A c \in Computers : WF_vars(Connect(c))

-----------------------------------------------------------------------------
(* Properties *)

(* A computer that says it is connected has a connection of its own, open at its end. *)
TypeOK ==
  /\ token \in Computers \cup {NoComputer} /\ Len(link) <= MaxLinks
  /\ \A c \in Computers :
       /\ computer[c].link \in Links \cup {NoLink}
       /\ computer[c].at \in {"hello", "connected"} <=> computer[c].link # NoLink
       /\ computer[c].link # NoLink => link[computer[c].link].owner = c /\ link[computer[c].link].far = "open"
       /\ computer[c].pumps \subseteq computer[c].local
  /\ \A r \in Calls : call[r].at \in {"new", "waiting", "picked", "sent", "done"}
  /\ \A ch \in Channels : channel[ch].at \in {"new", "opening", "opened", "open", "closed", "refused"}

(* What a local socket sent reaches the browser in order and without a gap, what came
   before the browser's end was accepted included. *)
StreamInOrder == \A ch \in Channels : \A i \in DOMAIN channel[ch].got : channel[ch].got[i] = i

(* A request never waits for a computer that is gone while there is none to wait for. *)
NoneStranded ==
  \A r \in Calls : call[r].at = "sent" /\ link[call[r].on].relay = "ended" => Ready # {}

(* A local socket does not outlive the browser's end that was once open. *)
LocalsFollow ==
  \A c \in Computers, ch \in Channels :
    channel[ch].at = "closed" ~> ch \notin computer[c].local

(* An account that is paired gets a computer again whenever it has none, for as long as
   connections may be dialled at all. *)
ComesBack ==
  token # NoComputer /\ Ready = {} ~> token = NoComputer \/ Ready # {} \/ Len(link) = MaxLinks

=============================================================================
