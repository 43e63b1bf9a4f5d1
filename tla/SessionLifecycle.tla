-------------------------- MODULE SessionLifecycle --------------------------
(***************************************************************************)
(* The life of TermDeck's terminals: the in-memory deck of the session     *)
(* manager (_sessions), the dtach masters that outlive the server, the pty *)
(* bridges that connect the two, and the two files that remember records   *)
(* (sessions.json and the closed-terminal history).                        *)
(*                                                                         *)
(* The server is one asyncio loop.  A step of a handler runs from one      *)
(* await to the next; `loop` is Free between steps.   A handler that      *)
(* writes a file in the middle of a step is split there, and holds `loop`  *)
(* meanwhile: nothing else of the server runs, but the server can die.     *)
(*                                                                         *)
(* Every terminal tree is named by the number of the spawn that created    *)
(* it, every bridge by the number of the spawn that opened it.             *)
(***************************************************************************)
EXTENDS Naturals, FiniteSets, Sequences, SequencesExt

CONSTANTS
  Sessions,    \* session ids, of open, closed and future terminals
  Agents,      \* those that run an agent bound to a resumable conversation
  Ops,         \* requests that can be in flight at the same time
  Kinds,       \* the kinds of long request this instance makes
  Faults,      \* what the environment may do, see FaultKinds
  MaxSpawn,    \* bound: spawns of one session
  MaxCrash,    \* bound: deaths of the server
  ClosedMax    \* CLOSED_HISTORY_MAX

FaultKinds == { "overlap",   \* two requests on one session at a time (two windows)
                "probe",     \* lsof times out: the sample comes back empty
                "refused",   \* a resume is refused while a request works on the terminal
                "spawn",     \* the pty cannot be started (cwd gone)
                "client",    \* the dtach client dies while its master lives
                "stubborn",  \* a process tree outlives SIGKILL's grace
                "torn" }     \* the server dies between two file writes

RequestKinds == { "stop", "delete", "restart", "killall", "killstale",
                  "stopworktree", "finish", "reclaim", "report" }

ASSUME ConstantsOK ==
  /\ Agents \subseteq Sessions
  /\ Kinds \subseteq RequestKinds
  /\ Faults \subseteq FaultKinds
  /\ MaxSpawn \in Nat \ {0}
  /\ MaxCrash \in Nat
  /\ ClosedMax \in Nat \ {0}

VARIABLES
  up,        \* the server process is running
  loop,      \* Free, or what holds the event loop between two file writes
  listed,    \* keys of _sessions
  ms,        \* the ManagedSession of each id: lazy, detached, proc, ...
  bound,     \* records whose agent_session_id is set (saved with the record)
  disk,      \* sessions.json
  closed,    \* closed-terminal history, most recent first
  masters,   \* dtach masters alive, by session
  linked,    \* the master whose socket file is at the session's path, 0: none
  doomed,    \* masters a signal was sent to
  spawned,   \* spawns so far, by session
  bridge,    \* PtyProcess of every spawn
  on,        \* the master each bridge is attached to
  req,       \* what each request is doing
  job,       \* the _terminate_proc coroutine of a request, by session
  crashes

osvars   == <<masters, linked, doomed, spawned, bridge, on>>
deckvars == <<listed, ms, bound, disk, closed>>
reqvars  == <<req, job>>
vars == <<up, loop, deckvars, osvars, reqvars, crashes>>

-----------------------------------------------------------------------------
(* Values *)

Spawns == 1..MaxSpawn
NoProc == 0
Free   == <<"free">>

Ms == [lazy: BOOLEAN, detached: BOOLEAN, proc: 0..MaxSpawn, resuming: BOOLEAN, fallback: BOOLEAN]
NewMs == [lazy |-> FALSE, detached |-> FALSE, proc |-> NoProc, resuming |-> FALSE, fallback |-> FALSE]

JobPc == {"none", "queued", "scan", "poll", "sweep", "swept", "hangup", "done"}
Job == [pc: JobPc, sig: {"term", "kill"}, ok: BOOLEAN, proc: 0..MaxSpawn, gone: BOOLEAN]
NoJob == [pc |-> "none", sig |-> "term", ok |-> FALSE, proc |-> NoProc, gone |-> FALSE]
NoJobs == [s \in Sessions |-> NoJob]
StartJob == [NoJob EXCEPT !.pc = "scan"]

(* Requests whose code after _terminate_proc runs without another await. *)
Direct == {"stop", "restart", "killstale", "stopworktree"}

Reqs == RequestKinds \cup {"idle"}

Loops == {Free} \cup ({"create", "reopen", "delete"} \X Sessions) \cup ({"op"} \X Ops)

ServerTypes == /\ up \in BOOLEAN
               /\ loop \in Loops
               /\ crashes \in 0..MaxCrash

DeckTypes == /\ listed \subseteq Sessions
             /\ ms \in [Sessions -> Ms]
             /\ bound \subseteq Agents
             /\ disk \subseteq Sessions

Histories == {q \in Seq(Sessions) : Len(q) <= ClosedMax /\ IsInjective(q)}

Bridges == [Sessions -> [Spawns -> {"unborn", "up", "down", "closed"}]]

WorldTypes == /\ masters \in [Sessions -> SUBSET Spawns]
              /\ linked \in [Sessions -> 0..MaxSpawn]
              /\ doomed \in [Sessions -> SUBSET Spawns]
              /\ spawned \in [Sessions -> 0..MaxSpawn]
              /\ bridge \in Bridges
              /\ on \in [Sessions -> [Spawns -> 0..MaxSpawn]]

RequestTypes == /\ req \in [Ops -> Reqs]
                /\ job \in [Ops -> [Sessions -> Job]]

(* Every variable has its type, and the history of closed terminals is no
   longer than its cap and names no terminal twice. *)
TypeOK == /\ ServerTypes /\ DeckTypes /\ WorldTypes /\ RequestTypes
          /\ closed \in Histories

-----------------------------------------------------------------------------
(* State formulae *)

Attached(s) == /\ ms[s].proc # NoProc
               /\ bridge[s][ms[s].proc] = "up"

Running(s) == ms[s].detached \/ Attached(s)

Dormant(s) == ms[s].lazy /\ ~Running(s)

(* A socket file with a holder behind it. *)
SocketLive(s) == linked[s] \in masters[s]

ClosedIds == ToSet(closed)

ServerReady == up /\ loop = Free

Working(o, s) == job[o][s].pc # "none" /\ ~job[o][s].gone

(* May a request on s start?  Two requests on one session overlap only when
   two windows (or a window and the API) use it at the same moment. *)
Admitted(s) == "overlap" \in Faults \/ \A o \in Ops : ~Working(o, s)

(* Whether lsof answers: a sample that times out is empty. *)
LsofAnswers == {TRUE} \cup (IF "probe" \in Faults THEN {FALSE} ELSE {})

-----------------------------------------------------------------------------
(* Spawning.  dtach -A joins the master behind the socket file when there is
   one, and otherwise creates one at that path, replacing a dead file. *)

(* Variant: a start never joins the master that is there. *)
OpensAnother(s, n, bridges) ==
  /\ spawned' = [spawned EXCEPT ![s] = n]
  /\ bridge' = [bridges EXCEPT ![s][n] = "up"]
  /\ on' = [on EXCEPT ![s][n] = n]
  /\ masters' = [masters EXCEPT ![s] = @ \cup {n}]
  /\ linked' = [linked EXCEPT ![s] = n]

Opens(s, n, bridges) ==
  /\ spawned' = [spawned EXCEPT ![s] = n]
  /\ bridge' = [bridges EXCEPT ![s][n] = "up"]
  /\ IF SocketLive(s)
       THEN /\ on' = [on EXCEPT ![s][n] = linked[s]]
            /\ UNCHANGED <<masters, linked>>
       ELSE /\ on' = [on EXCEPT ![s][n] = n]
            /\ masters' = [masters EXCEPT ![s] = @ \cup {n}]
            /\ linked' = [linked EXCEPT ![s] = n]

(* Bound: an operation that will spawn starts only while a spawn is left. *)
Room(s) == spawned[s] < MaxSpawn

(* _spawn, from the ManagedSession m of s and the bridges there are; `hasId`
   says whether the record is bound to an agent conversation. *)
Spawn(s, m, bridges, resume, hasId) ==
  /\ UNCHANGED doomed
  /\ \E answers \in LsofAnswers :
       LET reattach == resume /\ answers /\ SocketLive(s)
           spawning == [m EXCEPT !.lazy = FALSE, !.detached = reattach,
                                 !.resuming = ~reattach /\ hasId]
       IN \/ /\ Room(s)
             /\ LET n == spawned[s] + 1
                IN /\ ms' = [ms EXCEPT ![s] = [spawning EXCEPT !.proc = n]]
                   /\ Opens(s, n, bridges)
          \/ /\ "spawn" \in Faults
             /\ ms' = [ms EXCEPT ![s] = [spawning EXCEPT !.detached = FALSE]]
             /\ bridge' = bridges
             /\ UNCHANGED <<masters, linked, spawned, on>>

(* _spawn of a ManagedSession that reopening has replaced: it is started all the same,
   and the deck does not see it. *)
SpawnGone(s) ==
  /\ UNCHANGED <<ms, doomed>>
  /\ \/ Room(s) /\ Opens(s, spawned[s] + 1, bridge)
     \/ "spawn" \in Faults /\ UNCHANGED <<masters, linked, spawned, bridge, on>>

(* create_session: a new id enters the deck, is spawned, then saved. *)
Create(s) ==
  /\ ServerReady
  /\ s \notin listed \cup ClosedIds
  /\ spawned[s] = 0
  /\ listed' = listed \cup {s}
  /\ Spawn(s, NewMs, bridge, FALSE, FALSE)
  /\ loop' = <<"create", s>>
  /\ UNCHANGED <<up, bound, disk, closed, reqvars, crashes>>

(* Variant: a new terminal is not saved at once. *)
CreateUnsaved(s) ==
  /\ up /\ loop = <<"create", s>>
  /\ loop' = Free
  /\ UNCHANGED <<up, listed, ms, bound, disk, closed, osvars, reqvars, crashes>>

CreateSaved(s) ==
  /\ up /\ loop = <<"create", s>>
  /\ disk' = listed
  /\ loop' = Free
  /\ UNCHANGED <<up, listed, ms, bound, closed, osvars, reqvars, crashes>>

(* attach_client and ensure_session_running: a lazy terminal is started. *)
Attach(s) ==
  /\ ServerReady
  /\ s \in listed /\ ms[s].lazy
  /\ Admitted(s)
  /\ Spawn(s, ms[s], bridge, TRUE, s \in bound)
  /\ UNCHANGED <<up, loop, listed, bound, disk, closed, reqvars, crashes>>

(* No id is twice in the history. *)
Without(seq, s) == IF s \in ToSet(seq) THEN RemoveAt(seq, CHOOSE i \in DOMAIN seq : seq[i] = s)
                   ELSE seq

(* reopen_closed_session: the record leaves the history file, then the deck
   gets a new ManagedSession for it; coroutines of an older one keep theirs. *)
(* Variant: reopening copies the record and leaves it in the history. *)
ReopenCopies(s) ==
  /\ ServerReady
  /\ s \in ClosedIds
  /\ Admitted(s) /\ Room(s)
  /\ loop' = <<"reopen", s>>
  /\ UNCHANGED <<up, listed, ms, bound, disk, closed, osvars, reqvars, crashes>>

Reopen(s) ==
  /\ ServerReady
  /\ s \in ClosedIds
  /\ Admitted(s) /\ Room(s)
  /\ closed' = Without(closed, s)
  /\ loop' = <<"reopen", s>>
  /\ UNCHANGED <<up, listed, ms, bound, disk, osvars, reqvars, crashes>>

ReopenStarted(s) ==
  /\ up /\ loop = <<"reopen", s>>
  /\ listed' = listed \cup {s}
  /\ Spawn(s, NewMs, bridge, TRUE, s \in bound)
  /\ job' = [o \in Ops |-> [job[o] EXCEPT ![s].gone = (job[o][s].pc # "none")]]
  /\ disk' = listed \cup {s}
  /\ loop' = Free
  /\ UNCHANGED <<up, bound, closed, req, crashes>>

(* purge_closed_session: forget a closed terminal for good. *)
Purge(s) ==
  /\ ServerReady
  /\ s \in ClosedIds
  /\ closed' = Without(closed, s)
  /\ UNCHANGED <<up, loop, listed, ms, bound, disk, osvars, reqvars, crashes>>

(* The tracker finds the conversation of a running agent: the record is bound
   to it and saved. *)
Bind(s) ==
  /\ ServerReady
  /\ s \in (listed \cap Agents) \ bound
  /\ Running(s)
  /\ bound' = bound \cup {s}
  /\ disk' = listed
  /\ UNCHANGED <<up, loop, listed, ms, closed, osvars, reqvars, crashes>>

-----------------------------------------------------------------------------
(* Processes *)

(* A shell or agent ends, or obeys a signal, and its dtach master with it.
   A master that is killed leaves its socket file behind.  The tree is its master:
   a descendant that outlives it holds no socket, and nothing of the server sees it. *)
MasterDies(s, m) ==
  /\ m \in masters[s]
  /\ masters' = [masters EXCEPT ![s] = @ \ {m}]
  /\ doomed' = [doomed EXCEPT ![s] = @ \ {m}]
  /\ \/ UNCHANGED linked
     \/ linked[s] = m /\ linked' = [linked EXCEPT ![s] = 0]
  /\ UNCHANGED <<up, loop, deckvars, spawned, bridge, on, reqvars, crashes>>

HungUp(s, b) == \E o \in Ops : job[o][s].pc = "hangup" /\ job[o][s].proc = b

(* The dtach client ends: its master is gone, it was hung up, or by itself. *)
ClientExits(s, b) ==
  /\ bridge[s][b] = "up"
  /\ on[s][b] \notin masters[s] \/ HungUp(s, b) \/ "client" \in Faults
  /\ bridge' = [bridge EXCEPT ![s][b] = "down"]
  /\ UNCHANGED <<up, loop, deckvars, masters, linked, doomed, spawned, on, reqvars, crashes>>

(* _handle_exit.  An exit of a bridge that is no longer the session's own is
   ignored.  A resume that stopped at once without a saved transcript was
   refused: the binding is dropped and the terminal started afresh, once. *)
RefusedResume(s) == ms[s].resuming /\ ~ms[s].fallback /\ s \in bound

BridgeExits(s, b) ==
  LET closing == [bridge EXCEPT ![s][b] = "closed"]
  IN /\ ServerReady
     /\ bridge[s][b] = "down"
     /\ \/ /\ ms[s].proc # b
           /\ bridge' = closing
           /\ UNCHANGED <<ms, bound, disk, masters, linked, doomed, spawned, on>>
        \/ /\ ms[s].proc = b
           /\ \E answers \in LsofAnswers :
                ms' = [ms EXCEPT ![s].proc = NoProc, ![s].detached = answers /\ SocketLive(s)]
           /\ bridge' = closing
           /\ UNCHANGED <<bound, disk, masters, linked, doomed, spawned, on>>
        \/ /\ ms[s].proc = b /\ RefusedResume(s)
           /\ "refused" \in Faults \/ \A o \in Ops : ~Working(o, s)
           /\ bound' = bound \ {s}
           /\ disk' = listed
           /\ Spawn(s, [ms[s] EXCEPT !.proc = NoProc, !.fallback = TRUE], closing, TRUE, FALSE)
     /\ UNCHANGED <<up, loop, listed, closed, reqvars, crashes>>

-----------------------------------------------------------------------------
(* _terminate_proc and _kill_dtach_socket: TERM the holders of the socket,
   poll until none is left, else KILL; sample once more and unlink the socket
   file; then hang up the bridge and wait for it to finish. *)

SetJob(o, s, j) == job' = [job EXCEPT ![o][s] = j]

(* What lsof and ps say of the holders of the socket path: they go on naming
   a path whose file was unlinked. *)
Holders(s) == {IF answers THEN masters[s] ELSE {} : answers \in LsofAnswers}

Scan(o, s) ==
  /\ ServerReady
  /\ job[o][s].pc = "scan"
  /\ \E seen \in Holders(s) :
       /\ SetJob(o, s, [job[o][s] EXCEPT !.pc = IF seen = {} THEN "sweep" ELSE "poll"])
       /\ doomed' = [doomed EXCEPT ![s] = @ \cup seen]
  /\ UNCHANGED <<up, loop, deckvars, masters, linked, spawned, bridge, on, req, crashes>>

PollGone(o, s) ==
  /\ ServerReady
  /\ job[o][s].pc = "poll"
  /\ {} \in Holders(s)
  /\ SetJob(o, s, [job[o][s] EXCEPT !.pc = "sweep"])
  /\ UNCHANGED <<up, loop, deckvars, osvars, req, crashes>>

(* Variant: after SIGKILL the polling has no end. *)
PollsForever(o, s) ==
  /\ ServerReady
  /\ job[o][s].pc = "poll"
  /\ masters[s] # {}
  /\ job[o][s].sig = "term"
  /\ SetJob(o, s, [job[o][s] EXCEPT !.pc = "scan", !.sig = "kill"])
  /\ UNCHANGED <<up, loop, deckvars, osvars, req, crashes>>

(* KILL_GRACE_POLLS ran out.  SIGKILL is obeyed in that time. *)
PollsExhausted(o, s) ==
  /\ ServerReady
  /\ job[o][s].pc = "poll"
  /\ masters[s] # {}
  /\ \/ /\ job[o][s].sig = "term"
        /\ SetJob(o, s, [job[o][s] EXCEPT !.pc = "scan", !.sig = "kill"])
     \/ /\ job[o][s].sig = "kill"
        /\ "stubborn" \in Faults \/ ~(masters[s] \subseteq doomed[s])
        /\ SetJob(o, s, [job[o][s] EXCEPT !.pc = "sweep"])
  /\ UNCHANGED <<up, loop, deckvars, osvars, req, crashes>>

(* _remove_dead_dtach_socket: the sample is taken in one step ... *)
SweepSampled(o, s) ==
  /\ ServerReady
  /\ job[o][s].pc = "sweep"
  /\ \E seen \in Holders(s) :
       SetJob(o, s, [job[o][s] EXCEPT !.pc = "swept", !.ok = (seen = {})])
  /\ UNCHANGED <<up, loop, deckvars, osvars, req, crashes>>

(* ... and acted on in a later one.  A request with nothing to await after
   _terminate_proc keeps the loop for its own completion. *)
LoopAfter(o) == IF req[o] \in Direct THEN <<"op", o>> ELSE Free

Swept(o, s) ==
  LET j == job[o][s]
      bare == req[o] = "reclaim" \/ j.gone \/ ms[s].proc = NoProc
  IN /\ ServerReady
     /\ j.pc = "swept"
     /\ linked' = IF j.ok THEN [linked EXCEPT ![s] = 0] ELSE linked
     /\ ms' = IF req[o] = "reclaim" \/ j.gone THEN ms ELSE [ms EXCEPT ![s].detached = ~j.ok]
     /\ SetJob(o, s, IF bare THEN [j EXCEPT !.pc = "done"]
                             ELSE [j EXCEPT !.pc = "hangup", !.proc = ms[s].proc])
     /\ loop' = IF bare THEN LoopAfter(o) ELSE Free
     /\ UNCHANGED <<up, listed, bound, disk, closed, masters, doomed, spawned, bridge, on, req, crashes>>

(* The tree is dead and its bridge hung up: wait for the bridge to end. *)
HangupSeen(o, s) ==
  /\ ServerReady
  /\ job[o][s].pc = "hangup"
  /\ \/ /\ bridge[s][job[o][s].proc] = "closed"
        /\ SetJob(o, s, [job[o][s] EXCEPT !.pc = "done"])
     \/ /\ bridge[s][job[o][s].proc] # "closed"
        /\ "stubborn" \in Faults
        /\ SetJob(o, s, [job[o][s] EXCEPT !.pc = "done", !.ok = FALSE])
  /\ loop' = LoopAfter(o)
  /\ UNCHANGED <<up, deckvars, osvars, req, crashes>>

-----------------------------------------------------------------------------
(* Requests *)

Begin(o, kind, targets) ==
  /\ ServerReady
  /\ req[o] = "idle" /\ kind \in Kinds
  /\ req' = [req EXCEPT ![o] = kind]
  /\ job' = [job EXCEPT ![o] = [s \in Sessions |-> IF s \in targets THEN StartJob ELSE NoJob]]
  /\ UNCHANGED <<up, loop, listed, bound, disk, closed, osvars, crashes>>

Finished(o) == /\ req' = [req EXCEPT ![o] = "idle"]
               /\ job' = [job EXCEPT ![o] = NoJobs]

Done(o, s, kind) == /\ req[o] = kind
                    /\ job[o][s].pc = "done"
                    /\ up /\ loop = (IF kind \in Direct THEN <<"op", o>> ELSE Free)

(* What stop, kill-all and kill-stale do to the session whose tree is gone. *)
Cleared(s) == [ms[s] EXCEPT !.proc = NoProc, !.detached = FALSE]

(* stop_session *)
StopBegins(o, s) ==
  /\ s \in listed /\ Admitted(s) /\ Running(s)
  /\ Begin(o, "stop", {s})
  /\ ms' = [ms EXCEPT ![s].lazy = TRUE]

StopEnds(o, s) ==
  /\ Done(o, s, "stop")
  /\ Finished(o)
  /\ loop' = Free
  /\ IF job[o][s].ok
       THEN /\ ms' = IF job[o][s].gone THEN ms ELSE [ms EXCEPT ![s] = Cleared(s)]
            /\ disk' = listed
       ELSE /\ ms' = IF job[o][s].gone THEN ms ELSE [ms EXCEPT ![s].lazy = FALSE]
            /\ UNCHANGED disk
  /\ UNCHANGED <<up, listed, bound, closed, osvars, crashes>>

(* restart_session, of a terminal whose conversation is known *)
RestartBegins(o, s) ==
  /\ s \in listed /\ Admitted(s) /\ Room(s)
  /\ Begin(o, "restart", {s})
  /\ UNCHANGED ms

RestartEnds(o, s) ==
  /\ Done(o, s, "restart")
  /\ Finished(o)
  /\ loop' = Free
  /\ IF job[o][s].ok
       THEN IF job[o][s].gone THEN SpawnGone(s) ELSE Spawn(s, ms[s], bridge, TRUE, s \in bound)
       ELSE UNCHANGED <<ms, osvars>>
  /\ UNCHANGED <<up, listed, bound, disk, closed, crashes>>

(* delete_session.  The record leaves the deck after replay.discard has been
   awaited, enters the history, and the deck is saved. *)
(* Variant: a terminal without a bridge is taken to have no process. *)
DeleteUnattached(o, s) ==
  /\ s \in listed /\ Admitted(s)
  /\ ServerReady
  /\ req[o] = "idle" /\ "delete" \in Kinds
  /\ req' = [req EXCEPT ![o] = "delete"]
  /\ SetJob(o, s, IF Attached(s) THEN StartJob ELSE [NoJob EXCEPT !.pc = "done", !.ok = TRUE])
  /\ UNCHANGED <<up, loop, deckvars, osvars, crashes>>

DeleteBegins(o, s) ==
  /\ s \in listed /\ Admitted(s)
  /\ Begin(o, "delete", {s})
  /\ UNCHANGED ms

(* Variant: the history is not capped. *)
PushUncapped(seq, s) == <<s>> \o Without(seq, s)

Push(seq, s) == LET entries == <<s>> \o Without(seq, s)
                IN SubSeq(entries, 1, IF Len(entries) < ClosedMax THEN Len(entries) ELSE ClosedMax)

(* Variant: the record does not enter the history. *)
DeleteForgets(o, s) ==
  /\ Done(o, s, "delete")
  /\ Finished(o)
  /\ IF job[o][s].ok /\ s \in listed
       THEN listed' = listed \ {s} /\ loop' = <<"delete", s>>
       ELSE UNCHANGED <<listed, loop>>
  /\ UNCHANGED <<up, ms, bound, disk, closed, osvars, crashes>>

DeleteEnds(o, s) ==
  /\ Done(o, s, "delete")
  /\ Finished(o)
  /\ IF job[o][s].ok /\ s \in listed
       THEN /\ listed' = listed \ {s}
            /\ closed' = Push(closed, s)
            /\ loop' = <<"delete", s>>
       ELSE UNCHANGED <<listed, closed, loop>>
  /\ UNCHANGED <<up, ms, bound, disk, osvars, crashes>>

(* Variant: the deck is not saved after the record left it. *)
DeleteUnsaved(s) ==
  /\ up /\ loop = <<"delete", s>>
  /\ loop' = Free
  /\ UNCHANGED <<up, listed, ms, bound, disk, closed, osvars, reqvars, crashes>>

DeleteSaved(s) ==
  /\ up /\ loop = <<"delete", s>>
  /\ disk' = listed
  /\ loop' = Free
  /\ UNCHANGED <<up, listed, ms, bound, closed, osvars, reqvars, crashes>>

(* _finish_worktree: stop the process, change the worktree -- which can fail
   and leave the terminal as it is -- and remove the record for good. *)
FinishBegins(o, s) ==
  /\ s \in listed /\ Admitted(s)
  /\ Begin(o, "stopworktree", {s})
  /\ UNCHANGED ms

WorktreeChanged(o, s) ==
  /\ Done(o, s, "stopworktree")
  /\ loop' = Free
  /\ \/ Finished(o)
     \/ /\ job[o][s].ok /\ s \in listed
        /\ req' = [req EXCEPT ![o] = "finish"]
        /\ SetJob(o, s, [StartJob EXCEPT !.gone = job[o][s].gone])
  /\ UNCHANGED <<up, deckvars, osvars, crashes>>

FinishEnds(o, s) ==
  /\ Done(o, s, "finish")
  /\ Finished(o)
  /\ IF job[o][s].ok /\ s \in listed
       THEN listed' = listed \ {s} /\ disk' = listed \ {s}
       ELSE UNCHANGED <<listed, disk>>
  /\ UNCHANGED <<up, loop, ms, bound, closed, osvars, crashes>>

(* kill_all_running_sessions: all targets at once *)
KillAllBegins(o) ==
  LET targets == {s \in listed : Running(s)}
  IN /\ \A s \in targets : Admitted(s)
     /\ Begin(o, "killall", targets)
     /\ ms' = [s \in Sessions |-> IF s \in targets THEN [ms[s] EXCEPT !.lazy = TRUE] ELSE ms[s]]

KillAllEnds(o) ==
  /\ ServerReady
  /\ req[o] = "killall"
  /\ \A s \in Sessions : job[o][s].pc \in {"none", "done"}
  /\ Finished(o)
  /\ ms' = [s \in Sessions |-> IF job[o][s].ok /\ ~job[o][s].gone THEN Cleared(s) ELSE ms[s]]
  /\ disk' = listed
  /\ UNCHANGED <<up, loop, listed, bound, closed, osvars, crashes>>

(* kill_stale_running_sessions: the ones idle for long, one after another *)
KillStaleBegins(o) ==
  \E targets \in (SUBSET {s \in listed : Running(s)}) \ {{}} : \E first \in targets :
    /\ \A s \in targets : Admitted(s)
    /\ ServerReady
    /\ req[o] = "idle" /\ "killstale" \in Kinds
    /\ req' = [req EXCEPT ![o] = "killstale"]
    /\ job' = [job EXCEPT ![o] = [s \in Sessions |->
                 IF s = first THEN StartJob
                 ELSE IF s \in targets THEN [NoJob EXCEPT !.pc = "queued"] ELSE NoJob]]
    /\ ms' = [ms EXCEPT ![first].lazy = TRUE]
    /\ UNCHANGED <<up, loop, listed, bound, disk, closed, osvars, crashes>>

StaleKilled(o, s) ==
  LET queued == {t \in Sessions : job[o][t].pc = "queued"}
      after == IF job[o][s].ok /\ ~job[o][s].gone THEN [ms EXCEPT ![s] = Cleared(s)] ELSE ms
  IN /\ Done(o, s, "killstale")
     /\ loop' = Free
     /\ \/ /\ queued = {}
           /\ Finished(o)
           /\ ms' = after
           /\ disk' = listed
        \/ \E t \in queued :
             /\ job' = [job EXCEPT ![o][s] = NoJob, ![o][t] = [StartJob EXCEPT !.gone = job[o][t].gone]]
             /\ ms' = IF job[o][t].gone THEN after ELSE [after EXCEPT ![t].lazy = TRUE]
             /\ UNCHANGED <<req, disk>>
     /\ UNCHANGED <<up, listed, bound, closed, osvars, crashes>>

(* reclaim_orphan_dtach_sessions: walk the socket files that were there and
   kill the trees of ids the deck does not know; then report. *)
ReclaimBegins(o) ==
  LET sockets == {s \in Sessions : linked[s] # 0}
  IN /\ ServerReady
     /\ req[o] = "idle" /\ "reclaim" \in Kinds
     /\ req' = [req EXCEPT ![o] = "reclaim"]
     /\ job' = [job EXCEPT ![o] = [s \in Sessions |->
                  IF s \in sockets THEN [NoJob EXCEPT !.pc = "queued"] ELSE NoJob]]
     /\ UNCHANGED <<up, loop, deckvars, osvars, crashes>>

ReclaimNext(o, s) ==
  /\ ServerReady
  /\ req[o] = "reclaim"
  /\ job[o][s].pc = "queued"
  /\ \A t \in Sessions : job[o][t].pc \in {"none", "queued"}
  /\ SetJob(o, s, IF s \in listed THEN NoJob ELSE StartJob)
  /\ UNCHANGED <<up, loop, deckvars, osvars, req, crashes>>

ReclaimOne(o, s) ==
  /\ Done(o, s, "reclaim")
  /\ SetJob(o, s, NoJob)
  /\ UNCHANGED <<up, loop, deckvars, osvars, req, crashes>>

(* terminal_process_report: one sample, then `detached` of every session with
   a socket file is set from it. *)
ReportSampled(o) ==
  /\ ServerReady
  /\ \/ req[o] = "idle" /\ "report" \in Kinds
     \/ req[o] = "reclaim" /\ \A s \in Sessions : job[o][s].pc = "none"
  /\ req' = [req EXCEPT ![o] = "report"]
  /\ \E answers \in LsofAnswers :
       job' = [job EXCEPT ![o] = [s \in Sessions |-> [NoJob EXCEPT !.ok = (answers /\ masters[s] # {})]]]
  /\ UNCHANGED <<up, loop, deckvars, osvars, crashes>>

ReportApplied(o) ==
  /\ ServerReady
  /\ req[o] = "report"
  /\ Finished(o)
  /\ ms' = [s \in Sessions |-> IF s \in listed /\ linked[s] # 0
                                 THEN [ms[s] EXCEPT !.detached = job[o][s].ok] ELSE ms[s]]
  /\ UNCHANGED <<up, loop, listed, bound, disk, closed, osvars, crashes>>

-----------------------------------------------------------------------------
(* The server itself *)

(* It stops -- SIGKILL, power loss, or politely through detach_for_shutdown,
   which only saves the deck again -- and every bridge goes with it. *)
ServerStops ==
  /\ up /\ crashes < MaxCrash
  /\ loop = Free \/ "torn" \in Faults
  /\ up' = FALSE
  /\ crashes' = crashes + 1
  /\ loop' = Free
  /\ listed' = {}
  /\ ms' = [s \in Sessions |-> NewMs]
  /\ bridge' = [s \in Sessions |-> [b \in Spawns |-> IF bridge[s][b] = "unborn" THEN "unborn" ELSE "closed"]]
  /\ req' = [o \in Ops |-> "idle"]
  /\ job' = [o \in Ops |-> NoJobs]
  /\ UNCHANGED <<bound, disk, closed, masters, linked, doomed, spawned, on>>

(* Variant: a restored terminal is not marked to be started when opened. *)
StartsIdle ==
  /\ ~up
  /\ up' = TRUE
  /\ listed' = disk
  /\ ms' = [s \in Sessions |-> [NewMs EXCEPT !.detached = (s \in disk /\ masters[s] # {})]]
  /\ UNCHANGED <<loop, bound, disk, closed, osvars, reqvars, crashes>>

(* startup_respawn_saved_sessions: every saved session is listed, lazy, and
   detached if the one sample names a holder of its socket; dead socket files
   are unlinked unless the sample failed. *)
ServerStarts ==
  /\ ~up
  /\ up' = TRUE
  /\ listed' = disk
  /\ \E answers \in LsofAnswers :
       /\ ms' = [s \in Sessions |-> IF s \in disk
                   THEN [NewMs EXCEPT !.lazy = TRUE, !.detached = answers /\ masters[s] # {}]
                   ELSE NewMs]
       /\ linked' = [s \in Sessions |-> IF answers /\ s \in disk /\ masters[s] = {} THEN 0 ELSE linked[s]]
  /\ UNCHANGED <<loop, bound, disk, closed, masters, doomed, spawned, bridge, on, reqvars, crashes>>

-----------------------------------------------------------------------------
Init ==
  /\ up = TRUE /\ loop = Free
  /\ listed = {} /\ disk = {} /\ closed = <<>> /\ bound = {}
  /\ ms = [s \in Sessions |-> NewMs]
  /\ masters = [s \in Sessions |-> {}]
  /\ linked = [s \in Sessions |-> 0]
  /\ doomed = [s \in Sessions |-> {}]
  /\ spawned = [s \in Sessions |-> 0]
  /\ bridge = [s \in Sessions |-> [b \in Spawns |-> "unborn"]]
  /\ on = [s \in Sessions |-> [b \in Spawns |-> 0]]
  /\ req = [o \in Ops |-> "idle"]
  /\ job = [o \in Ops |-> NoJobs]
  /\ crashes = 0

UserSteps(s) == Create(s) \/ Attach(s) \/ Reopen(s) \/ Purge(s)

SaveSteps(s) == CreateSaved(s) \/ ReopenStarted(s) \/ DeleteSaved(s)

TerminateSteps(o, s) ==
  \/ Scan(o, s) \/ PollGone(o, s) \/ PollsExhausted(o, s)
  \/ SweepSampled(o, s) \/ Swept(o, s) \/ HangupSeen(o, s)

RequestBegins(o, s) ==
  StopBegins(o, s) \/ RestartBegins(o, s) \/ DeleteBegins(o, s) \/ FinishBegins(o, s)

RequestEnds(o, s) ==
  \/ StopEnds(o, s) \/ RestartEnds(o, s) \/ DeleteEnds(o, s) \/ WorktreeChanged(o, s)
  \/ FinishEnds(o, s) \/ StaleKilled(o, s) \/ ReclaimNext(o, s) \/ ReclaimOne(o, s)

SweepBegins(o) == KillAllBegins(o) \/ KillStaleBegins(o) \/ ReclaimBegins(o)

SweepEnds(o) == KillAllEnds(o) \/ ReportApplied(o)

Next ==
  \/ \E s \in Sessions : UserSteps(s) \/ SaveSteps(s) \/ Bind(s)
  \/ \E s \in Sessions : \E n \in Spawns : MasterDies(s, n) \/ ClientExits(s, n) \/ BridgeExits(s, n)
  \/ \E o \in Ops : \E s \in Sessions : RequestBegins(o, s) \/ TerminateSteps(o, s) \/ RequestEnds(o, s)
  \/ \E o \in Ops : SweepBegins(o) \/ ReportSampled(o) \/ SweepEnds(o)
  \/ ServerStops \/ ServerStarts

Spec == Init /\ [][Next]_vars

(* The event loop runs every coroutine that can move, SIGKILL is obeyed, and a
   dtach client that lost its master or was hung up ends.  Users, TERM-ed
   programs and the server's own death owe nothing. *)
KillObeyed(s, n) == /\ "stubborn" \notin Faults
                    /\ \E o \in Ops : job[o][s].pc = "poll" /\ job[o][s].sig = "kill"
                    /\ n \in doomed[s]
                    /\ MasterDies(s, n)

ClientMustExit(s, n) == /\ on[s][n] \notin masters[s] \/ HungUp(s, n)
                        /\ ClientExits(s, n)

Fairness ==
  /\ \A s \in Sessions : WF_vars(SaveSteps(s))
  /\ \A s \in Sessions : \A n \in Spawns :
       WF_vars(KillObeyed(s, n)) /\ WF_vars(ClientMustExit(s, n)) /\ WF_vars(BridgeExits(s, n))
  /\ \A o \in Ops : \A s \in Sessions : WF_vars(TerminateSteps(o, s)) /\ WF_vars(RequestEnds(o, s))
  /\ \A o \in Ops : WF_vars(SweepEnds(o)) /\ WF_vars(req[o] = "reclaim" /\ ReportSampled(o))

FairSpec == Spec /\ Fairness

-----------------------------------------------------------------------------
(* Properties *)

Busy(s) == \E o \in Ops : Working(o, s)

(* Whenever the loop is free, sessions.json is the deck: a handler that adds
   or removes a terminal has saved before it yields, so a death at an await
   never resurrects a closed terminal nor forgets an open one. *)
DiskMirrorsDeck == ServerReady => disk = listed

(* Every live process tree belongs to a terminal on the deck: delete and the
   worktree removal let go of a record only once its tree is gone. *)
NoOrphan == ServerReady => \A s \in Sessions : masters[s] # {} => s \in listed

(* One terminal never has two process trees: a start finds the old master
   behind its socket and joins it, or the old one is dead. *)
OneTree == \A s \in Sessions : Cardinality(masters[s]) <= 1

(* Opening a terminal whose tree lives gives a bridge to it: it has one, or
   the attach that opens it makes one. *)
Reachable ==
  ServerReady => \A s \in listed :
    masters[s] # {} /\ ~Busy(s) => ms[s].proc # NoProc \/ ms[s].lazy

(* A terminal on the deck is not also in the history of closed ones, where
   reopening it would replace a ManagedSession that is in use. *)
OpenOrClosed == ServerReady => listed \cap ClosedIds = {}

(* A saved terminal stays in one of the two files, or on its way from one to
   the other, until the user forgets it or the history is full. *)
Recorded(s) == s \in disk \cup ClosedIds \/ loop = <<"reopen", s>>

Forgotten(s) == \/ Purge(s)
                \/ \E o \in Ops : FinishEnds(o, s)
                \/ s \in ClosedIds /\ Len(closed') = ClosedMax /\ closed[Len(closed)] = s

RecordSurvives == [][\A s \in Sessions : Recorded(s) /\ ~Recorded(s)' => Forgotten(s)]_vars

(* Every request comes to an end, whatever the processes do. *)
RequestsEnd == \A o \in Ops : req[o] # "idle" ~> req[o] = "idle"

-----------------------------------------------------------------------------
(* The contract, seen through the deck while the server is up and through the
   saved deck while it is down. *)
RecordOf(s) == IF s \in (IF up THEN listed ELSE disk) THEN "open"
               ELSE IF s \in ClosedIds \/ loop = <<"reopen", s>> THEN "closed" ELSE "absent"

Contract == INSTANCE DeckContract WITH
              record <- [s \in Sessions |-> RecordOf(s)],
              tree <- [s \in Sessions |-> IF masters[s] = {} THEN "dead" ELSE "live"]

(* The lifecycle keeps the contract, across server restarts too. *)
KeepsContract == Contract!Spec
=============================================================================
