-------------------------- MODULE ReplayCheckpoint --------------------------
(***************************************************************************)
(* How a terminal's output is kept for the next window and the next server *)
(* (ReplayRecorder): the buffer in memory, the bytes not yet on disk, the  *)
(* one flush that covers every terminal, the checkpoint lock, the sweep    *)
(* that removes recordings nobody owns, and the server dying at any time.  *)
(*                                                                         *)
(* Output is a sequence of numbered chunks, and a recording a sequence of  *)
(* chunk numbers.  A step runs from one await of a coroutine to the next,  *)
(* or is what a worker thread does to the disk.                            *)
(***************************************************************************)
EXTENDS Naturals, Sequences, FiniteSets, SequencesExt, Folds, Functions

CONSTANTS
  Terms,       \* terminals
  RawRecorded, \* those of them whose agent records_raw_replay
  Limit,       \* chunks a recording may hold (SCROLLBACK_BYTES, RAW_REPLAY_SESSION_BYTES)
  HistoryMax,  \* CLOSED_HISTORY_MAX
  Faults,      \* what the environment may do, see FaultKinds
  MaxOutput,   \* bound: chunks of all terminals
  MaxReopens,  \* bound: reopenings
  MaxTroubles  \* bound: writes that fail and deaths of the server

FaultKinds == { "fail",     \* a write fails and leaves the file as it was
                "torn",     \* an append fails and leaves some of its bytes
                "overlap" } \* a terminal is reopened while the sweep's thread reads who owns what

ASSUME ReplayConstants ==
  /\ RawRecorded \subseteq Terms
  /\ Limit \in Nat \ {0} /\ HistoryMax \in Nat \ {0}
  /\ Faults \subseteq FaultKinds
  /\ MaxOutput \in Nat /\ MaxReopens \in Nat /\ MaxTroubles \in Nat

VARIABLES
  up,       \* the server runs
  open,     \* sessions.json and, while it runs, the server's sessions
  closed,   \* those in closed_sessions.json
  state,    \* what runs in a terminal
  mem,      \* its recording in memory
  life,     \* how often it was reopened: which ManagedSession object is the present one
  file,     \* its recording on disk
  flush,    \* where the flush task is
  todo,     \* the snapshots it still has to write
  cur,      \* the one being written
  written,  \* how many it has written
  line,     \* _checkpoint_lock: its holder, then its waiters
  sweep,    \* where the sweep is
  keep,     \* the owners its thread has found
  out,      \* history: chunks of each terminal so far
  lost,     \* history: chunks a death or a close found in memory only
  fails, deaths

vars == <<up, open, closed, state, mem, life, file, flush, todo, cur, written, line, sweep, keep,
          out, lost, fails, deaths>>

-----------------------------------------------------------------------------
(* Values *)

States == { "off",       \* nothing runs
            "detached",  \* a process runs, the server has no bridge to it
            "started",   \* a process runs that has printed nothing yet
            "on" }
Running(i) == state[i] # "off"

(* The bounds on chunks and on reopenings. *)
TotalOf(f) == FoldFunction(LAMBDA x, y : x + y, 0, f)
MayRecord == TotalOf(out) < MaxOutput
MayReopen == TotalOf(life) < MaxReopens

NoFile == <<>>   \* a recording is never written empty

NewMem == [buf |-> <<>>, pending |-> <<>>, gen |-> 0, saved |-> 0]

(* restore_saved_buffers *)
Restored(i) == [NewMem EXCEPT !.buf = file[i]]

Flusher    == <<"flush">>
Sweeper    == <<"sweep">>
Discard(i) == <<"discard", i>>

Holds(who)   == line # <<>> /\ Head(line) = who
InLine(who)  == who \in ToSet(line)
Closing(i)   == InLine(Discard(i))

-----------------------------------------------------------------------------
(* Recording *)

(* Variant: a recording is cut only when it is one chunk too long already. *)
DropsLate(i, n) == IF n <= Limit + 1 THEN {0}
                   ELSE IF i \in RawRecorded THEN (n - Limit)..(n - 1) ELSE {n - Limit}

(* How many of its oldest chunks a recording of n loses to the limit: a shell
   only what is too much, a raw recording down to a place to cut at. *)
Drops(i, n) == IF n <= Limit THEN {0}
               ELSE IF i \in RawRecorded THEN (n - Limit)..(n - 1) ELSE {n - Limit}

(* One more chunk of terminal i. *)
Record(i) ==
  LET c == out[i] + 1
      b == Append(mem[i].buf, c)
  IN /\ MayRecord
     /\ out' = [out EXCEPT ![i] = c]
     /\ \E n \in Drops(i, Len(b)) :
          mem' = [mem EXCEPT ![i] = [buf |-> SubSeq(b, n + 1, Len(b)),
                                     pending |-> Append(mem[i].pending, c),
                                     gen |-> mem[i].gen + (IF n > 0 THEN 1 ELSE 0),
                                     saved |-> mem[i].saved]]

(* _arm: one flush is pending at most. *)
Arm == flush' = IF flush = "none" THEN "armed" ELSE flush

(* The process prints. *)
Output(i) ==
  /\ up /\ i \in open /\ state[i] \in {"started", "on"}
  /\ Record(i) /\ Arm
  /\ state' = [state EXCEPT ![i] = "on"]
  /\ UNCHANGED <<up, open, closed, life, file, todo, cur, written, line, sweep, keep,
                 lost, fails, deaths>>

(* Somebody types. *)
Input(i) ==
  /\ up /\ i \in open /\ Running(i) /\ flush = "none"
  /\ Arm
  /\ UNCHANGED <<up, open, closed, state, mem, life, file, todo, cur, written, line, sweep, keep,
                 out, lost, fails, deaths>>

(* _spawn of a terminal that is not running: its first line is recorded while
   the terminal does not count as running yet. *)
Start(i) ==
  /\ up /\ i \in open /\ state[i] = "off" /\ ~Closing(i)
  /\ Record(i)
  /\ state' = [state EXCEPT ![i] = "started"]
  /\ UNCHANGED <<up, open, closed, life, file, flush, todo, cur, written, line, sweep, keep,
                 lost, fails, deaths>>

(* _spawn as a reattachment to a process that outlived the server: it prints a
   divider, unless the window is served the raw recording. *)
Reattach(i) ==
  /\ up /\ i \in open /\ state[i] = "detached"
  /\ \/ /\ mem[i].buf # <<>>
        /\ Record(i) /\ Arm
        /\ state' = [state EXCEPT ![i] = "on"]
     \/ /\ mem[i].buf = <<>> \/ i \in RawRecorded
        /\ state' = [state EXCEPT ![i] = "started"]
        /\ UNCHANGED <<mem, out, flush>>
  /\ UNCHANGED <<up, open, closed, life, file, todo, cur, written, line, sweep, keep,
                 lost, fails, deaths>>

(* The process exits or is stopped. *)
Exits(i) ==
  /\ i \in open /\ Running(i)
  /\ state' = [state EXCEPT ![i] = "off"]
  /\ UNCHANGED <<up, open, closed, mem, life, file, flush, todo, cur, written, line, sweep, keep,
                 out, lost, fails, deaths>>

-----------------------------------------------------------------------------
(* The flush *)

(* _snapshot: write the whole recording, or append what is new. *)
Replaces(i) ==
  file[i] = NoFile \/ mem[i].gen # mem[i].saved \/ Len(file[i]) + Len(mem[i].pending) > Limit

(* _pending_snapshots(active_only) has one for this terminal. *)
Due(i) ==
  /\ i \in open /\ Running(i) /\ mem[i].buf # <<>>
  /\ mem[i].pending # <<>> \/ mem[i].gen # mem[i].saved \/ file[i] = NoFile

Snapshot(i) == [term |-> i, life |-> life[i], gen |-> mem[i].gen,
                pending |-> mem[i].pending, replace |-> Replaces(i),
                payload |-> IF Replaces(i) THEN mem[i].buf ELSE mem[i].pending]

Snapshots == {Snapshot(i) : i \in {j \in Terms : Due(j)}}

NoSnapshot == [term |-> "none"]

(* The debounce is over. *)
FlushBegins ==
  /\ flush = "armed"
  /\ todo' = Snapshots
  /\ IF Snapshots = {}
       THEN flush' = "none" /\ UNCHANGED line
       ELSE flush' = "locking" /\ line' = Append(line, Flusher)
  /\ UNCHANGED <<up, open, closed, state, mem, life, file, cur, written, sweep, keep,
                 out, lost, fails, deaths>>

(* Variant: any session of that id will do. *)
StillThereById(s) == s.term \in open /\ ~(s.term \in RawRecorded /\ mem[s.term].buf = <<>>)

(* The session is still the one the snapshot was taken of. *)
StillThere(s) == /\ s.term \in open /\ s.life = life[s.term]
                 /\ ~(s.term \in RawRecorded /\ mem[s.term].buf = <<>>)

(* Variant: a flush that ends is not armed again. *)
RearmNever(n) == FALSE

(* Output that came during the flush is flushed next, if this one got anywhere. *)
Rearm(n) == n > 0 /\ (\E i \in Terms : Due(i))'

(* The lock is passed on, and waited for again if there are more snapshots. *)
Continue(rest, n) ==
  /\ todo' = rest /\ cur' = NoSnapshot
  /\ \/ /\ rest # {} /\ written' = n
        /\ flush' = "locking" /\ line' = Append(Tail(line), Flusher)
     \/ /\ rest = {} /\ written' = 0
        /\ flush' = IF Rearm(n) THEN "armed" ELSE "none"
        /\ line' = Tail(line)

FlushSkips(s) ==
  /\ flush = "locking" /\ Holds(Flusher) /\ ~StillThere(s)
  /\ UNCHANGED <<up, open, closed, state, mem, life, file, sweep, keep, out, lost, fails, deaths>>
  /\ Continue(todo \ {s}, written)

FlushWrites(s) ==
  /\ flush = "locking" /\ Holds(Flusher) /\ StillThere(s)
  /\ flush' = "writing" /\ cur' = s /\ todo' = todo \ {s}
  /\ UNCHANGED <<up, open, closed, state, mem, life, file, written, line, sweep, keep,
                 out, lost, fails, deaths>>

(* What the file is when a write is complete. *)
WholeWrite(s) == [file EXCEPT ![s.term] = IF s.replace THEN s.payload ELSE @ \o s.payload]

(* What it may be when a write stops midway: a replacement is renamed into
   place, an append is not. *)
TornWrites(s) ==
  IF s.replace THEN {file}
  ELSE {[file EXCEPT ![s.term] = @ \o SubSeq(s.payload, 1, n)] : n \in 0..Len(s.payload)}

(* The thread has written, or has failed. *)
ThreadWrites ==
  /\ flush = "writing"
  /\ \/ /\ file' = WholeWrite(cur) /\ flush' = "written"
        /\ UNCHANGED fails
     \/ /\ fails + deaths < MaxTroubles /\ fails' = fails + 1
        /\ flush' = "failed"
        /\ \/ "fail" \in Faults /\ UNCHANGED file
           \/ "torn" \in Faults /\ file' \in TornWrites(cur)
  /\ UNCHANGED <<up, open, closed, state, mem, life, todo, cur, written, line, sweep, keep,
                 out, lost, deaths>>

(* Variant: everything pending is taken for written. *)
SavedAll(m, s) == [buf |-> m.buf, gen |-> m.gen, pending |-> <<>>,
                   saved |-> IF s.replace /\ m.gen = s.gen THEN s.gen ELSE m.saved]

(* _record_checkpoint_success *)
Saved(m, s) ==
  [buf |-> m.buf, gen |-> m.gen,
   pending |-> IF IsPrefix(s.pending, m.pending)
                 THEN SubSeq(m.pending, Len(s.pending) + 1, Len(m.pending)) ELSE m.pending,
   saved |-> IF s.replace /\ m.gen = s.gen THEN s.gen ELSE m.saved]

FlushRecords ==
  /\ flush \in {"written", "failed"}
  /\ mem' = IF flush = "written" THEN [mem EXCEPT ![cur.term] = Saved(@, cur)] ELSE mem
  /\ UNCHANGED <<up, open, closed, state, life, file, sweep, keep, out, lost, fails, deaths>>
  /\ Continue(todo, IF flush = "written" THEN written + 1 ELSE written)

-----------------------------------------------------------------------------
(* Closing and reopening *)

(* delete_session and remove_session_after_worktree_finish: the process is
   dead, and the discard of the recording waits for the lock. *)
CloseBegins(i) ==
  /\ up /\ i \in open /\ ~Closing(i)
  /\ state' = [state EXCEPT ![i] = "off"]
  /\ line' = Append(line, Discard(i))
  /\ UNCHANGED <<up, open, closed, mem, life, file, flush, todo, cur, written, sweep, keep,
                 out, lost, fails, deaths>>

(* Variant: the discard does not wait for the lock. *)
MayDiscardAtOnce(i) == Closing(i)

MayDiscard(i) == Holds(Discard(i))

(* The history with one more, and one fewer if it was full; SessionLifecycle
   has the order that decides which. *)
Pushed(i) == IF Cardinality(closed) < HistoryMax THEN {closed \cup {i}}
             ELSE {(closed \ {j}) \cup {i} : j \in closed}

(* The session leaves the deck; a deleted one enters the history. *)
CloseEnds(i, kept) ==
  /\ up /\ MayDiscard(i)
  /\ line' = Tail(line)
  /\ open' = open \ {i}
  /\ closed' \in IF kept THEN Pushed(i) ELSE {closed}
  /\ lost' = [lost EXCEPT ![i] = @ \cup ToSet(mem[i].pending)]
  /\ mem' = [mem EXCEPT ![i] = NewMem]
  /\ UNCHANGED <<up, state, life, file, flush, todo, cur, written, sweep, keep, out, fails, deaths>>

(* reopen_closed_session; the sweep's thread may be half way through reading. *)
Reopen(i) ==
  /\ up /\ i \in closed /\ MayReopen /\ MayRecord
  /\ sweep = "half" => "overlap" \in Faults
  /\ closed' = closed \ {i}
  /\ open' = open \cup {i}
  /\ life' = [life EXCEPT ![i] = @ + 1]
  /\ LET c == out[i] + 1
     IN /\ out' = [out EXCEPT ![i] = c]
        /\ \E n \in Drops(i, Len(file[i]) + 1) :
             mem' = [mem EXCEPT ![i] = [buf |-> SubSeq(Append(file[i], c), n + 1, Len(file[i]) + 1),
                                        pending |-> <<c>>, gen |-> IF n > 0 THEN 1 ELSE 0,
                                        saved |-> 0]]
  /\ state' = [state EXCEPT ![i] = "started"]
  /\ UNCHANGED <<up, file, flush, todo, cur, written, line, sweep, keep, lost, fails, deaths>>

Purge(i) ==
  /\ up /\ i \in closed
  /\ closed' = closed \ {i}
  /\ UNCHANGED <<up, open, state, mem, life, file, flush, todo, cur, written, line, sweep, keep,
                 out, lost, fails, deaths>>

-----------------------------------------------------------------------------
(* The sweep *)

(* sweep_orphaned_replays, every REPLAY_SWEEP_INTERVAL_SECONDS. *)
SweepBegins ==
  /\ up /\ sweep = "none"
  /\ sweep' = "waiting" /\ line' = Append(line, Sweeper)
  /\ UNCHANGED <<up, open, closed, state, mem, life, file, flush, todo, cur, written, keep,
                 out, lost, fails, deaths>>

(* _remove_orphaned_replays, in a thread: the deck's sessions are read, then
   the history of closed ones. *)
SweepReadsOpen ==
  /\ sweep = "waiting" /\ Holds(Sweeper)
  /\ sweep' = "half" /\ keep' = open
  /\ UNCHANGED <<up, open, closed, state, mem, life, file, flush, todo, cur, written, line,
                 out, lost, fails, deaths>>

(* Variant: only the deck's sessions own their recordings. *)
OwnersOpenOnly == keep

Owners == keep \cup closed

SweepReadsClosed ==
  /\ sweep = "half"
  /\ sweep' = "read" /\ keep' = Owners
  /\ UNCHANGED <<up, open, closed, state, mem, life, file, flush, todo, cur, written, line,
                 out, lost, fails, deaths>>

SweepEnds ==
  /\ sweep = "read"
  /\ file' = [i \in Terms |-> IF i \in keep THEN file[i] ELSE NoFile]
  /\ sweep' = "none" /\ keep' = {} /\ line' = Tail(line)
  /\ UNCHANGED <<up, open, closed, state, mem, life, flush, todo, cur, written,
                 out, lost, fails, deaths>>

-----------------------------------------------------------------------------
(* The server's death and its next start *)

(* Whatever was only in memory is gone, and so is what a thread was writing;
   the processes live on. *)
ServerDies ==
  /\ up /\ fails + deaths < MaxTroubles
  /\ deaths' = deaths + 1 /\ up' = FALSE
  /\ file' \in IF flush = "writing" THEN TornWrites(cur) \cup {WholeWrite(cur)}
              ELSE {file}
  /\ lost' = [i \in Terms |-> lost[i] \cup ToSet(mem[i].pending)]
  /\ mem' = [i \in Terms |-> NewMem]
  /\ state' = [i \in Terms |-> IF Running(i) THEN "detached" ELSE "off"]
  /\ flush' = "none" /\ todo' = {} /\ cur' = NoSnapshot /\ written' = 0
  /\ line' = <<>> /\ sweep' = "none" /\ keep' = {}
  /\ UNCHANGED <<open, closed, life, out, fails>>

(* startup_respawn_saved_sessions *)
ServerStarts ==
  /\ ~up /\ up' = TRUE
  /\ mem' = [i \in Terms |-> IF i \in open THEN Restored(i) ELSE NewMem]
  /\ UNCHANGED <<open, closed, state, life, file, flush, todo, cur, written, line, sweep, keep,
                 out, lost, fails, deaths>>

-----------------------------------------------------------------------------
(* Every terminal has just been created: its first line is recorded. *)
Init ==
  /\ up = TRUE /\ open = Terms /\ closed = {}
  /\ state = [i \in Terms |-> "started"]
  /\ mem = [i \in Terms |-> [buf |-> <<1>>, pending |-> <<1>>, gen |-> 0, saved |-> 0]]
  /\ life = [i \in Terms |-> 0]
  /\ file = [i \in Terms |-> NoFile]
  /\ flush = "none" /\ todo = {} /\ cur = NoSnapshot /\ written = 0
  /\ line = <<>> /\ sweep = "none" /\ keep = {}
  /\ out = [i \in Terms |-> 1] /\ lost = [i \in Terms |-> {}]
  /\ fails = 0 /\ deaths = 0

Flush == \/ FlushBegins
         \/ \E s \in todo : FlushSkips(s) \/ FlushWrites(s)
         \/ ThreadWrites \/ FlushRecords

Sweep == SweepReadsOpen \/ SweepReadsClosed \/ SweepEnds

Close(i) == \E kept \in BOOLEAN : CloseEnds(i, kept)

Next ==
  \/ \E i \in Terms : \/ Output(i) \/ Input(i) \/ Start(i) \/ Reattach(i) \/ Exits(i)
                     \/ CloseBegins(i) \/ Close(i) \/ Reopen(i) \/ Purge(i)
  \/ Flush
  \/ SweepBegins \/ Sweep
  \/ ServerDies \/ ServerStarts

Spec == Init /\ [][Next]_vars

(* The event loop runs a coroutine whose sleep, lock or thread is done. *)
FairSpec == Spec /\ WF_vars(Flush) /\ WF_vars(Sweep) /\ \A i \in Terms : WF_vars(Close(i))

-----------------------------------------------------------------------------
(* Properties *)

(* Every variable has its type: recordings hold what was printed, and no more of it
   than the limit, and the history no more sessions than its own. *)
TypeOK ==
  /\ up \in BOOLEAN /\ open \subseteq Terms
  /\ closed \subseteq Terms \ open /\ Cardinality(closed) <= HistoryMax
  /\ state \in [Terms -> States]
  /\ \A i \in Terms : /\ mem[i].buf \in Seq(1..out[i]) /\ Len(mem[i].buf) <= Limit
                      /\ mem[i].pending \in Seq(1..out[i])
                      /\ mem[i].saved \in 0..mem[i].gen
                      /\ file[i] \in Seq(1..out[i])
                      /\ lost[i] \subseteq 1..out[i]
  /\ flush \in {"none", "armed", "locking", "writing", "written", "failed"}
  /\ sweep \in {"none", "waiting", "half", "read"} /\ keep \subseteq Terms
  /\ written \in Nat /\ fails \in 0..MaxTroubles /\ deaths \in 0..MaxTroubles

(* A stretch of the output: in order, nothing twice, and nothing left out but
   what a death or a close found in memory only. *)
Stretch(i, s) ==
  \A k \in 1..(Len(s) - 1) :
    /\ s[k] < s[k + 1]
    /\ (s[k] + 1)..(s[k + 1] - 1) \subseteq lost[i]

(* Appends, replacements, compactions, failures, deaths and reopenings together
   leave a recording that replays the output (_snapshot,
   _record_checkpoint_success), and it never outgrows the limit although
   the choice between append and replace is made before the lock is waited for. *)
FileIsOutput == \A i \in Terms : Stretch(i, file[i]) /\ Len(file[i]) <= Limit

(* What of terminal i is in memory only. *)
Unsaved(i) ==
  IF flush = "written" /\ cur.term = i
    THEN Saved(mem[i], cur).pending ELSE mem[i].pending

(* What the next server restores and what the next append adds are what an
   attaching window is shown now: a window sees the same history whether or
   not the server died in between.  A recording that was compacted in memory
   is exempt until it is replaced on disk. *)
RestoreShowsBuffer ==
  \A i \in open :
    /\ up /\ file[i] # NoFile /\ mem[i].gen = mem[i].saved
    => IsSuffix(mem[i].buf, file[i] \o Unsaved(i))

(* discard and the identity test of _checkpoint_active: while a thread writes
   a recording, its terminal is on the deck, as the same session object. *)
WriterOwns ==
  flush \in {"writing", "written", "failed"} =>
    Holds(Flusher) /\ cur.term \in open /\ cur.life = life[cur.term]

(* sweep_orphaned_replays: only a recording of no session, open or in the
   history, is removed. *)
OwnedSpared ==
  [][\A i \in Terms : file[i] # NoFile /\ file'[i] = NoFile
       => i \notin open \cup closed]_vars

(* schedule_checkpoint: "this is the only thing that makes a replay durable".
   While writes succeed, what a process prints is written, however its output
   falls between the steps of a flush, unless the terminal or the server stops first. *)
OutputWritten ==
  \A i \in Terms :
    mem[i].pending # <<>> /\ state[i] = "on"
      ~> mem[i].pending = <<>> \/ state[i] # "on" \/ fails > 0

(* The same for what a process prints just before it exits. *)
LastOutputWritten ==
  \A i \in Terms :
    mem[i].pending # <<>> /\ state[i] = "off" ~> mem[i].pending = <<>> \/ state[i] # "off"

=============================================================================
