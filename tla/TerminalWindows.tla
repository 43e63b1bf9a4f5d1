--------------------------- MODULE TerminalWindows ---------------------------
(***************************************************************************)
(* The windows that show one terminal: the server's attach_client and its  *)
(* bounded queue per connection (TerminalClientQueue), the pump that sends *)
(* it, and a view of the browser, which connects, resets or keeps what it  *)
(* shows, loses its connection and comes back (connect and onclose of      *)
(* static/app_terminal.js).                                                *)
(*                                                                         *)
(* Output is a sequence of numbered chunks; a recording replays all of     *)
(* them (ReplayCheckpoint has its limit and what a restart loses).         *)
(***************************************************************************)
EXTENDS Naturals, Sequences, FiniteSets, SequencesExt

CONSTANTS
  Views,       \* browser windows with a view of the terminal
  MaxItems,    \* MAX_PENDING_ITEMS and MAX_PENDING_BYTES
  WireMax,     \* what a connection takes before a send has to wait
  Faults,      \* what people may do, see FaultKinds
  MaxOutput,   \* bound: chunks
  MaxTroubles, \* bound: drops, stalls, overflows, resyncs and rebuilds
  MaxSockets   \* bound: connections

FaultKinds ==
  { "hasty" } \* a view is shown again while its reconnection timer runs, or resynced
              \* while its connection is closing

ASSUME WindowConstants ==
  /\ MaxItems \in Nat \ {0} /\ WireMax \in Nat \ {0}
  /\ Faults \subseteq FaultKinds
  /\ MaxOutput \in Nat \ {0} /\ MaxTroubles \in Nat /\ MaxSockets \in Nat \ {0}

VARIABLES
  kind,     \* what runs in the terminal: a shell, or an agent that records_raw_replay
  lazy,     \* lazy_start_pending: the first attach starts it
  out,      \* chunks printed so far
  missed,   \* output_missed_while_detached
  repaint,  \* screen_repaint_task is pending
  sock,     \* the connections made so far, a sequence
  view,     \* what each view holds
  unseen,   \* history: chunks an attach printed after it had read the replay
  painted,  \* history: chunks that paint the whole screen
  troubles

vars == <<kind, lazy, out, missed, repaint, sock, view, unseen, painted, troubles>>

-----------------------------------------------------------------------------
(* Values *)

Close == 0   \* None in a queue, the end of what a connection delivers
None  == 0   \* no connection

(* A connection of view v that keeps the view's buffer or asks for a replay. *)
NewSocket(v, keep) ==
  [view |-> v, keep |-> keep,
   link |-> TRUE,           \* the network carries it
   client |-> "open",       \* the WebSocket object: open, closing or closed
   server |-> "none",       \* its handler: none, attached or ended
   queue |-> <<>>, over |-> FALSE,
   wire |-> <<>>,           \* sent and not yet delivered
   at |-> 0]                \* history: out when it was attached

NewView == [ws |-> None, timer |-> FALSE, active |-> FALSE,
            again |-> FALSE,     \* reconnectAfterClose
            scratch |-> FALSE,   \* replayFromScratchOnNextConnect, pendingScratchReset
            awaiting |-> TRUE,   \* awaitingSnapshot
            preserve |-> FALSE,  \* preserveBufferOnReconnect
            screen |-> <<>>]

Upto(n) == [k \in 1..n |-> k]

Attached == {s \in DOMAIN sock : sock[s].server = "attached"}

Trouble == troubles < MaxTroubles /\ troubles' = troubles + 1

-----------------------------------------------------------------------------
(* Output and the queues of the windows *)

(* Variant: one item more than fits. *)
FullLate(c) == Len(c.queue) > MaxItems

Full(c) == Len(c.queue) >= MaxItems

(* Variant: an overflow only drops the backlog. *)
PutQuietly(c, item) ==
  IF c.over THEN c
  ELSE IF Full(c) THEN [c EXCEPT !.over = TRUE, !.queue = <<>>]
  ELSE [c EXCEPT !.queue = Append(@, item)]

(* put_nowait: a queue that overflows holds the order to close and nothing else,
   for good. *)
Put(c, item) ==
  IF c.over THEN c
  ELSE IF Full(c) THEN [c EXCEPT !.over = TRUE, !.queue = <<Close>>]
  ELSE [c EXCEPT !.queue = Append(@, item)]

(* Variant: a window still being sent its replay gets nothing. *)
ListeningShown == {s \in Attached : sock[s].wire = <<>>}

Listening == Attached

(* _handle_output of one more chunk. *)
Prints(c) ==
  /\ sock' = [s \in DOMAIN sock |-> IF s \in Listening THEN Put(sock[s], c) ELSE sock[s]]
  /\ missed' = (missed \/ Attached = {})
  /\ out' = c

Overflows == \E s \in Attached : ~sock[s].over /\ Full(sock[s])

Output ==
  /\ ~lazy /\ out < MaxOutput
  /\ Prints(out + 1)
  /\ IF Overflows THEN Trouble ELSE UNCHANGED troubles
  /\ UNCHANGED <<kind, lazy, repaint, view, unseen, painted>>

(* _force_screen_repaint: the size is nudged and the program paints its screen. *)
Repaints ==
  /\ ~lazy /\ repaint /\ out < MaxOutput
  /\ Prints(out + 1) /\ painted' = painted \cup {out + 1}
  /\ repaint' = FALSE
  /\ IF Overflows THEN Trouble ELSE UNCHANGED troubles
  /\ UNCHANGED <<kind, lazy, view, unseen>>

-----------------------------------------------------------------------------
(* The server's end of a connection *)

(* attach_client of connection s, with n chunks of replay. *)
Registered(s, n) ==
  LET c == sock[s]
  IN [sock EXCEPT ![s] = [c EXCEPT !.server = "attached", !.at = out',
                                   !.wire = <<IF c.keep THEN <<>> ELSE Upto(n)>>]]

(* The terminal runs.  A window that keeps its buffer has the screen repainted
   if the terminal printed while nothing was attached, and may have if it shows an
   agent, whose recording may be off or empty; another window may. *)
Accept(s) ==
  /\ ~lazy /\ sock[s].server = "none" /\ sock[s].client = "open" /\ sock[s].link
  /\ UNCHANGED out
  /\ sock' = Registered(s, out)
  /\ missed' = FALSE
  /\ \/ repaint' = (repaint \/ (sock[s].keep /\ missed))
     \/ (sock[s].keep => kind = "agent") /\ repaint' = TRUE
  /\ UNCHANGED <<kind, lazy, view, unseen, painted, troubles>>

(* The attach starts the terminal: it prints before the window is registered,
   and for an agent after the replay was read.  An agent that is reattached
   and served its recording prints nothing. *)
AcceptStarts(s) ==
  /\ lazy /\ sock[s].server = "none" /\ sock[s].client = "open" /\ sock[s].link
  /\ lazy' = FALSE
  /\ \/ /\ out < MaxOutput /\ out' = out + 1
        /\ missed' = (Attached = {})
        /\ sock' = Registered(s, IF kind = "agent" THEN out ELSE out')
        /\ unseen' = IF kind = "agent" THEN unseen \cup {out'} ELSE unseen
     \/ /\ kind = "agent"
        /\ UNCHANGED <<out, unseen>>
        /\ missed' = FALSE /\ sock' = Registered(s, out)
  /\ repaint' \in {repaint, TRUE}
  /\ UNCHANGED <<kind, view, painted, troubles>>

(* _pump_queue_to_client: the next item, or the order to close. *)
Pump(s) ==
  LET c == sock[s]
  IN /\ c.server = "attached" /\ c.link
     /\ c.queue # <<>> /\ Len(c.wire) < WireMax
     /\ sock' = [sock EXCEPT ![s] =
          IF Head(c.queue) = Close
            THEN [c EXCEPT !.queue = <<>>, !.wire = Append(@, <<Close>>), !.server = "ended"]
            ELSE [c EXCEPT !.queue = Tail(@), !.wire = Append(@, <<Head(c.queue)>>)]]
     /\ UNCHANGED <<kind, lazy, out, missed, repaint, view, unseen, painted, troubles>>

(* A send takes longer than SEND_TIMEOUT_SECONDS. *)
Stalls(s) ==
  LET c == sock[s]
  IN /\ c.server = "attached" /\ c.link /\ c.queue # <<>> /\ Len(c.wire) = WireMax
     /\ Trouble
     /\ sock' = [sock EXCEPT ![s] = [c EXCEPT !.queue = <<>>, !.server = "ended",
                                              !.wire = Append(@, <<Close>>)]]
     /\ UNCHANGED <<kind, lazy, out, missed, repaint, view, unseen, painted>>

(* The handler sees that the connection is gone: detach_client. *)
Detach(s) ==
  /\ sock[s].server = "attached" /\ (~sock[s].link \/ sock[s].client # "open")
  /\ sock' = [sock EXCEPT ![s].server = "ended", ![s].queue = <<>>]
  /\ UNCHANGED <<kind, lazy, out, missed, repaint, view, unseen, painted, troubles>>

(* The network drops a connection and what it carries. *)
Drop(s) ==
  /\ sock[s].link /\ sock[s].client = "open"
  /\ Trouble
  /\ sock' = [sock EXCEPT ![s].link = FALSE, ![s].wire = <<>>]
  /\ UNCHANGED <<kind, lazy, out, missed, repaint, view, unseen, painted>>

-----------------------------------------------------------------------------
(* The view's end *)

(* connect, of a view that is w by now, when the connections are others. *)
Connect(v, w, others) ==
  /\ Len(others) < MaxSockets
  /\ \E keep \in IF w.scratch \/ w.screen = <<>> THEN {FALSE} ELSE BOOLEAN :
       /\ sock' = Append(others, NewSocket(v, keep))
       /\ view' = [view EXCEPT ![v] = [w EXCEPT !.ws = Len(others) + 1,
                                                !.awaiting = TRUE, !.preserve = keep]]

(* Variant: a replay is written below what is there. *)
ShownBelow(w, chunks) == [w EXCEPT !.awaiting = FALSE, !.screen = @ \o chunks]

(* onmessage: the first message after a connect is the replay, which takes the
   place of what the view shows unless that is kept. *)
Shown(w, chunks) ==
  IF w.awaiting /\ chunks # <<>> /\ ~w.preserve
    THEN [w EXCEPT !.awaiting = FALSE, !.scratch = FALSE, !.screen = chunks]
    ELSE [w EXCEPT !.awaiting = FALSE, !.screen = @ \o chunks]

Message(s) ==
  LET c == sock[s]
  IN /\ c.client = "open" /\ c.wire # <<>> /\ Head(c.wire) # <<Close>>
     /\ sock' = [sock EXCEPT ![s].wire = Tail(@)]
     /\ view' = [view EXCEPT ![c.view] = Shown(@, Head(c.wire))]
     /\ UNCHANGED <<kind, lazy, out, missed, repaint, unseen, painted, troubles>>

(* Variant: only a view that asked to be reconnected is. *)
ComesBackAsked(w) == FALSE

(* A view in front comes back by itself. *)
ComesBack(w) == w.active

(* onclose: an agent's view is rebuilt from the replay when it comes back, unless
   the close was its own. *)
OnClose(s) ==
  LET c == sock[s]
      v == c.view
      w == [view[v] EXCEPT !.ws = None, !.again = FALSE,
                           !.scratch = @ \/ (~view[v].again /\ kind = "agent")]
      closed == [sock EXCEPT ![s].client = "closed", ![s].wire = <<>>]
  IN /\ c.client # "closed"
     /\ c.client = "closing" \/ ~c.link \/ (c.wire # <<>> /\ Head(c.wire) = <<Close>>)
     /\ IF view[v].again /\ w.active
          THEN Connect(v, w, closed)
          ELSE /\ sock' = closed
               /\ view' = [view EXCEPT ![v] = [w EXCEPT !.timer = @ \/ ComesBack(w)]]
     /\ UNCHANGED <<kind, lazy, out, missed, repaint, unseen, painted, troubles>>

(* RECONNECT_MS are over. *)
TimerFires(v) ==
  /\ view[v].timer
  /\ Connect(v, [view[v] EXCEPT !.timer = FALSE], sock)
  /\ UNCHANGED <<kind, lazy, out, missed, repaint, unseen, painted, troubles>>

(* activate: somebody looks at the terminal. *)
Activate(v) ==
  LET w == [view[v] EXCEPT !.active = TRUE]
  IN /\ ~view[v].active
     /\ view[v].timer => "hasty" \in Faults
     /\ IF w.ws = None THEN Connect(v, w, sock)
        ELSE view' = [view EXCEPT ![v] = w] /\ UNCHANGED sock
     /\ UNCHANGED <<kind, lazy, out, missed, repaint, unseen, painted, troubles>>

Deactivate(v) ==
  /\ view[v].active
  /\ view' = [view EXCEPT ![v].active = FALSE]
  /\ UNCHANGED <<kind, lazy, out, missed, repaint, sock, unseen, painted, troubles>>

(* The view closes its connection, to be what w is. *)
Closes(v, w) ==
  /\ view[v].ws # None /\ sock[view[v].ws].client = "open"
  /\ Trouble
  /\ sock' = [sock EXCEPT ![view[v].ws].client = "closing"]
  /\ view' = [view EXCEPT ![v] = w]
  /\ UNCHANGED <<kind, lazy, out, missed, repaint, unseen, painted>>

(* resyncActiveTerminal: the view is emptied, and its connection closed, to come
   back by itself; a view without an open one connects at once. *)
Resync(v) ==
  LET w == [view[v] EXCEPT !.screen = <<>>]
  IN /\ view[v].active
     /\ \/ Closes(v, w)
        \/ /\ view[v].ws # None => sock[view[v].ws].client # "open" /\ "hasty" \in Faults
           /\ Trouble
           /\ Connect(v, [w EXCEPT !.timer = FALSE], sock)
           /\ UNCHANGED <<kind, lazy, out, missed, repaint, unseen, painted>>

(* rebuildTerminalFromReplay *)
Rebuild(v) ==
  /\ view[v].ws # None => sock[view[v].ws].server # "none"
  /\ Closes(v, [view[v] EXCEPT !.scratch = TRUE, !.again = TRUE])

(* reconnectFocusedConnections: the browser is online or in front again. *)
Refocus(v) ==
  /\ view[v].active
  /\ \/ /\ view[v].ws = None
        /\ Connect(v, [view[v] EXCEPT !.timer = FALSE], sock)
     \/ /\ view[v].ws # None /\ sock[view[v].ws].client = "closing" /\ ~view[v].again
        /\ view' = [view EXCEPT ![v].again = TRUE] /\ UNCHANGED sock
  /\ UNCHANGED <<kind, lazy, out, missed, repaint, unseen, painted, troubles>>

-----------------------------------------------------------------------------
(* The terminal has printed something, and no window shows it yet. *)
Init ==
  /\ kind \in {"shell", "agent"} /\ lazy \in BOOLEAN
  /\ out = 1 /\ missed = ~lazy /\ repaint = FALSE
  /\ sock = <<>> /\ view = [v \in Views |-> NewView]
  /\ unseen = {} /\ painted = {} /\ troubles = 0

Server(s) == Accept(s) \/ AcceptStarts(s) \/ Pump(s) \/ Detach(s)

Client(s) == Message(s) \/ OnClose(s)

Next ==
  \/ Output \/ Repaints
  \/ \E s \in DOMAIN sock : Server(s) \/ Client(s) \/ Stalls(s) \/ Drop(s)
  \/ \E v \in Views : \/ TimerFires(v) \/ Activate(v) \/ Deactivate(v)
                     \/ Resync(v) \/ Rebuild(v) \/ Refocus(v)

Spec == Init /\ [][Next]_vars

(* The event loops of the server and of the browser run what is ready. *)
FairSpec ==
  /\ Spec
  /\ \A s \in 1..MaxSockets : /\ WF_vars(s \in DOMAIN sock /\ Server(s))
                              /\ WF_vars(s \in DOMAIN sock /\ Client(s))
  /\ \A v \in Views : WF_vars(TimerFires(v))

-----------------------------------------------------------------------------
(* Properties *)

(* Every variable has its type; a backlog never outgrows its limit, and one that
   overflowed is gone. *)
TypeOK ==
  /\ kind \in {"shell", "agent"} /\ lazy \in BOOLEAN /\ missed \in BOOLEAN /\ repaint \in BOOLEAN
  /\ out \in 1..MaxOutput /\ unseen \subseteq 1..out /\ painted \subseteq 1..out
  /\ \A s \in DOMAIN sock :
       /\ sock[s].view \in Views /\ sock[s].at <= out
       /\ sock[s].client \in {"open", "closing", "closed"}
       /\ sock[s].server \in {"none", "attached", "ended"}
       /\ Len(sock[s].queue) <= MaxItems
       /\ sock[s].over => sock[s].queue \in {<<>>, <<Close>>}
  /\ \A v \in Views : /\ view[v].ws \in 0..Len(sock)
                      /\ view[v].screen \in Seq(1..MaxOutput)
  /\ troubles \in 0..MaxTroubles

(* What is on its way to the view over connection s. *)
OnItsWay(s) == FlattenSeq(sock[s].wire) \o sock[s].queue

(* attach_client registers the queue in the step that reads the replay: from
   then on the window is sent every chunk, once and in order, however the
   replay, the backlog and the output fall, until its backlog overflows. *)
StreamWhole ==
  \A s \in Attached :
    LET w == view[sock[s].view]
        at == sock[s].at
        coming == (IF w.awaiting THEN <<>> ELSE w.screen) \o OnItsWay(s)
        old == Len(coming) - (out - at)
    IN sock[s].link /\ sock[s].client = "open" /\ ~sock[s].over
       => /\ old >= 0
          /\ \A k \in DOMAIN coming : IF k <= old THEN coming[k] <= at
                                      ELSE coming[k] = at + (k - old)

(* "Replaying the whole stream reproduces exactly what a continuously attached
   client saw" (attach_client): no view shows a chunk twice or out of order,
   and an agent's leaves none out, but for what an attach that started the
   terminal printed. *)
ScreenReplays ==
  \A v \in Views :
    LET shown == view[v].screen
    IN /\ \A k \in 1..(Len(shown) - 1) : shown[k] < shown[k + 1]
       /\ kind = "agent" /\ shown # <<>>
            => 1..Last(shown) \subseteq ToSet(shown) \cup unseen

(* "reconnect to resync" (_pump_queue_to_client): an agent's view that somebody
   looks at shows the latest output in the end, whatever backlogs overflow, sends
   stall and connections drop.  (A shell's may not, see LossMadeGood.) *)
CatchesUp ==
  \A v \in Views :
    kind = "agent" /\ view[v].active
      ~> \/ ~view[v].active
         \/ /\ view[v].screen # <<>>
            /\ (Last(view[v].screen) + 1)..out \subseteq unseen

(* "A reconnecting client claiming have_buffer is only safe to trust when it missed
   nothing" (ManagedSession), and a client whose backlog overflowed is to
   "reconnect to resync": a view that kept its buffer over a connection has shown
   all that the terminal printed, or the screen is painted anew for it. *)
LossMadeGood ==
  \A s \in Attached :
    LET v == sock[s].view
        coming == view[v].screen \o OnItsWay(s)
    IN /\ sock[s].keep /\ sock[s].link /\ sock[s].client = "open" /\ ~sock[s].over
       => \/ 1..out \subseteq ToSet(coming)
          \/ repaint \/ painted \cap ToSet(coming) # {}

=============================================================================
