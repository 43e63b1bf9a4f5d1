----------------------- MODULE ReplayCheckpointProofs -----------------------
(***************************************************************************)
(* What is proved of ReplayCheckpoint for any terminals and any bounds:    *)
(* whoever writes a recording writes it for the session that is on the     *)
(* deck, no step removes the recording of a session that somebody can      *)
(* still see or reopen, a recording never outgrows its limit, the file     *)
(* replays the output, and what the next server would restore is what a    *)
(* window is shown now.                                                    *)
(***************************************************************************)
EXTENDS ReplayCheckpoint, InductionLemmas, FiniteSetTheorems, TLAPS

-----------------------------------------------------------------------------
(* Who writes *)

Waiters == {Flusher, Sweeper} \cup {Discard(i) : i \in Terms}

InThread == {"writing", "written", "failed"}

(* The inductive invariant: WriterOwns, the sweep holds the lock while its
   thread runs, and what is closed is not open, so that a reopening cannot
   replace the session being written. *)
FlushInv ==
  /\ line \in Seq(Waiters)
  /\ life \in [Terms -> Nat]
  /\ open \cap closed = {}
  /\ sweep \in {"half", "read"} => Holds(Sweeper)
  /\ WriterOwns

LEMMA WaitersDiffer ==
  /\ Flusher \in Waiters /\ Sweeper \in Waiters /\ Flusher # Sweeper
  /\ \A i \in Terms : /\ Discard(i) \in Waiters
                      /\ Discard(i) # Flusher /\ Discard(i) # Sweeper
<1>1. Flusher # Sweeper
  BY DEF Flusher, Sweeper
<1>2. ASSUME NEW i \in Terms PROVE Discard(i) # Flusher /\ Discard(i) # Sweeper
  <2>1. Len(Discard(i)) = 2 /\ Len(Flusher) = 1 /\ Len(Sweeper) = 1
    BY DEF Discard, Flusher, Sweeper
  <2> QED BY <2>1
<1> QED BY <1>1, <1>2 DEF Waiters

(* Whoever asks for the lock goes to the end of the line. *)
LEMMA AskKeepsHolder ==
  ASSUME NEW q \in Seq(Waiters), NEW w \in Waiters
  PROVE  /\ Append(q, w) \in Seq(Waiters)
         /\ q # <<>> => Append(q, w) # <<>> /\ Head(Append(q, w)) = Head(q)
  OBVIOUS

LEMMA TailOfLine ==
  ASSUME NEW q \in Seq(Waiters), q # <<>>
  PROVE  Tail(q) \in Seq(Waiters)
  OBVIOUS

(* Two cannot hold the lock. *)
LEMMA OneHolder ==
  ASSUME NEW i \in Terms
  PROVE  /\ ~(Holds(Flusher) /\ Holds(Sweeper))
         /\ ~(Holds(Discard(i)) /\ Holds(Flusher))
         /\ ~(Holds(Discard(i)) /\ Holds(Sweeper))
  BY WaitersDiffer DEF Holds

(* The steps that leave the lock, the writer and the sessions alone. *)
LEMMA FlushUntouched ==
  ASSUME FlushInv, UNCHANGED <<line, life, open, cur, sweep>>, closed' \subseteq closed,
         flush' = flush \/ flush' \notin InThread
  PROVE  FlushInv'
  BY DEF FlushInv, WriterOwns, Holds, InThread

(* Somebody asks for the lock, and nobody is writing or sweeping because of it. *)
LEMMA FlushAsked ==
  ASSUME FlushInv, NEW w \in Waiters, line' = Append(line, w),
         UNCHANGED <<life, open, closed, cur>>,
         sweep' = sweep \/ sweep' = "waiting",
         flush' = flush \/ flush' = "locking"
  PROVE  FlushInv'
<1>1. line' \in Seq(Waiters) /\ (line # <<>> => line' # <<>> /\ Head(line') = Head(line))
  BY AskKeepsHolder DEF FlushInv
<1> QED BY <1>1 DEF FlushInv, WriterOwns, Holds

(* The flush lets go of the lock. *)
LEMMA FlushLetsGo ==
  ASSUME FlushInv, NEW rest, NEW n, Holds(Flusher), Continue(rest, n),
         UNCHANGED <<life, open, closed, sweep>>
  PROVE  FlushInv'
<1>1. Tail(line) \in Seq(Waiters)
  BY TailOfLine DEF FlushInv, Holds
<1>2. line' \in Seq(Waiters)
  BY <1>1, WaitersDiffer, AskKeepsHolder DEF Continue
<1>3. flush' \notin InThread
  BY DEF Continue, InThread
<1>4. sweep' \notin {"half", "read"}
  BY WaitersDiffer DEF FlushInv, Holds
<1> QED BY <1>2, <1>3, <1>4 DEF FlushInv, WriterOwns, InThread

LEMMA FlushStep == FlushInv /\ [Next]_vars => FlushInv'
<1> SUFFICES ASSUME FlushInv, [Next]_vars PROVE FlushInv'
  OBVIOUS
<1>1. ASSUME NEW i \in Terms,
             Output(i) \/ Input(i) \/ Start(i) \/ Reattach(i) \/ Exits(i) \/ Purge(i)
      PROVE  FlushInv'
  <2>1. UNCHANGED <<line, life, open, cur, sweep>> /\ closed' \subseteq closed
    BY <1>1 DEF Output, Input, Start, Reattach, Exits, Purge
  <2>2. flush' = flush \/ flush' \notin InThread
    BY <1>1 DEF Output, Input, Start, Reattach, Exits, Purge, Arm, InThread
  <2> QED BY <2>1, <2>2, FlushUntouched
<1>2. ASSUME NEW i \in Terms, CloseBegins(i) PROVE FlushInv'
  BY <1>2, WaitersDiffer, FlushAsked DEF CloseBegins
<1>3. ASSUME NEW i \in Terms, NEW kept \in BOOLEAN, CloseEnds(i, kept) PROVE FlushInv'
  <2>1. Holds(Discard(i)) /\ line' = Tail(line) /\ open' = open \ {i}
        /\ UNCHANGED <<life, flush, cur, sweep>>
    BY <1>3 DEF CloseEnds, MayDiscard
  <2>2. flush \notin InThread /\ sweep \notin {"half", "read"}
    BY <2>1, OneHolder DEF FlushInv, WriterOwns, InThread
  <2>3. line' \in Seq(Waiters)
    BY <2>1, TailOfLine DEF FlushInv, Holds
  <2>4. closed' \subseteq closed \cup {i}
    BY <1>3 DEF CloseEnds, Pushed
  <2> QED BY <2>1, <2>2, <2>3, <2>4 DEF FlushInv, WriterOwns, InThread
<1>4. ASSUME NEW i \in Terms, Reopen(i) PROVE FlushInv'
  <2>1. /\ i \in closed /\ closed' = closed \ {i} /\ open' = open \cup {i}
        /\ life' = [life EXCEPT ![i] = @ + 1]
        /\ UNCHANGED <<line, flush, cur, sweep>>
    BY <1>4 DEF Reopen
  <2>2. life' \in [Terms -> Nat] /\ open' \cap closed' = {}
    BY <2>1 DEF FlushInv
  <2>3. \A j \in open : life'[j] = life[j]
    BY <2>1 DEF FlushInv
  <2> QED BY <2>1, <2>2, <2>3 DEF FlushInv, WriterOwns, Holds
<1>5. CASE FlushBegins
  <2>1. CASE Snapshots = {}
    BY <1>5, <2>1, FlushUntouched DEF FlushBegins, InThread
  <2>2. CASE Snapshots # {}
    BY <1>5, <2>2, WaitersDiffer, FlushAsked DEF FlushBegins
  <2> QED BY <2>1, <2>2
<1>6. ASSUME NEW s \in todo, FlushSkips(s) PROVE FlushInv'
  BY <1>6, FlushLetsGo DEF FlushSkips
<1>7. ASSUME NEW s \in todo, FlushWrites(s) PROVE FlushInv'
  BY <1>7 DEF FlushWrites, StillThere, FlushInv, WriterOwns, Holds
<1>8. CASE ThreadWrites
  BY <1>8 DEF ThreadWrites, FlushInv, WriterOwns, Holds
<1>9. CASE FlushRecords
  <2>1. Holds(Flusher)
    BY <1>9 DEF FlushRecords, FlushInv, WriterOwns
  <2> QED BY <1>9, <2>1, FlushLetsGo DEF FlushRecords
<1>10. CASE SweepBegins
  BY <1>10, WaitersDiffer, FlushAsked DEF SweepBegins
<1>11. CASE SweepReadsOpen \/ SweepReadsClosed
  BY <1>11 DEF SweepReadsOpen, SweepReadsClosed, FlushInv, WriterOwns, Holds
<1>12. CASE SweepEnds
  <2>1. Holds(Sweeper) /\ line' = Tail(line) /\ sweep' = "none"
        /\ UNCHANGED <<life, open, closed, flush, cur>>
    BY <1>12 DEF SweepEnds, FlushInv
  <2>2. flush \notin InThread
    BY <2>1, WaitersDiffer DEF FlushInv, WriterOwns, InThread, Holds
  <2>3. line' \in Seq(Waiters)
    BY <2>1, TailOfLine DEF FlushInv, Holds
  <2> QED BY <2>1, <2>2, <2>3 DEF FlushInv, WriterOwns, InThread
<1>13. CASE ServerDies
  BY <1>13 DEF ServerDies, FlushInv, WriterOwns
<1>14. CASE ServerStarts
  BY <1>14, FlushUntouched DEF ServerStarts
<1>15. CASE UNCHANGED vars
  BY <1>15, FlushUntouched DEF vars
<1> QED
  BY <1>1, <1>2, <1>3, <1>4, <1>5, <1>6, <1>7, <1>8, <1>9, <1>10, <1>11, <1>12, <1>13,
     <1>14, <1>15 DEF Next, Flush, Sweep, Close

(* _checkpoint_active and discard: while a thread writes a recording, its
   terminal is on the deck as the same session object, however closes,
   reopenings, sweeps and deaths of the server fall around it. *)
THEOREM WriterAlwaysOwns == Spec => []WriterOwns
<1>1. Init => FlushInv
  BY DEF Init, FlushInv, WriterOwns
<1>2. FlushInv => WriterOwns
  BY DEF FlushInv
<1> QED
  BY <1>1, <1>2, FlushStep, PTL DEF Spec

-----------------------------------------------------------------------------
(* What the sweep spares *)

Recording == Seq(Nat)

InMemory == [buf : Recording, pending : Recording, gen : Nat, saved : Nat]

(* A snapshot to write: a replacement is never empty. *)
ToWrite == {s \in [term : Terms, life : Nat, gen : Nat, pending : Recording,
                   replace : BOOLEAN, payload : Recording] :
              s.replace => s.payload # <<>>}

(* The inductive invariant: recordings are sequences, no write empties one, and
   the sweep's thread has seen, of the sessions there are now, the open ones
   after its first read and all of them after its second, if nothing is reopened
   in between.  It is inductive together with FlushInv: no terminal leaves the
   deck while the sweep holds the lock. *)
OwnersInv ==
  /\ open \subseteq Terms /\ closed \subseteq Terms
  /\ life \in [Terms -> Nat] /\ out \in [Terms -> Nat]
  /\ mem \in [Terms -> InMemory]
  /\ file \in [Terms -> Recording]
  /\ todo \subseteq ToWrite
  /\ flush \in InThread => cur \in ToWrite
  /\ "overlap" \notin Faults =>
       /\ sweep = "half" => open \subseteq keep
       /\ sweep = "read" => open \cup closed \subseteq keep

LEMMA CutIsRecording ==
  ASSUME NEW s \in Recording, NEW m \in Nat \ {0}, NEW n \in 0..Len(s)
  PROVE  SubSeq(s, m, n) \in Recording
<1>1. \A k \in m..n : k \in 1..Len(s)
  OBVIOUS
<1> QED BY <1>1 DEF Recording

(* How much a recording loses is less than it holds. *)
LEMMA DropsBounded ==
  ASSUME NEW i, NEW n \in Nat, NEW d \in Drops(i, n)
  PROVE  d \in Nat
<1>1. Limit \in Nat
  BY ReplayConstants
<1>2. CASE n <= Limit
  BY <1>2 DEF Drops
<1>3. CASE n > Limit
  <2>1. d \in (n - Limit)..(n - 1) \/ d = n - Limit
    BY <1>3, <1>1 DEF Drops
  <2> QED BY <2>1, <1>3, <1>1
<1> QED BY <1>1, <1>2, <1>3

(* One more chunk keeps the types. *)
LEMMA RecordKeeps ==
  ASSUME OwnersInv, NEW i \in Terms, Record(i)
  PROVE  mem' \in [Terms -> InMemory] /\ out' \in [Terms -> Nat]
<1> DEFINE c == out[i] + 1
           b == Append(mem[i].buf, c)
<1>1. c \in Nat /\ mem[i].buf \in Recording /\ mem[i].pending \in Recording
      /\ mem[i].gen \in Nat /\ mem[i].saved \in Nat
  BY DEF OwnersInv, InMemory
<1>2. b \in Recording /\ Append(mem[i].pending, c) \in Recording /\ Len(b) \in Nat
  BY <1>1 DEF Recording
<1>3. out' = [out EXCEPT ![i] = c]
  BY DEF Record
<1>4. PICK n \in Drops(i, Len(b)) :
        mem' = [mem EXCEPT ![i] = [buf |-> SubSeq(b, n + 1, Len(b)),
                                   pending |-> Append(mem[i].pending, c),
                                   gen |-> mem[i].gen + (IF n > 0 THEN 1 ELSE 0),
                                   saved |-> mem[i].saved]]
  BY DEF Record
<1> HIDE DEF b, c
<1>5. n \in Nat
  BY <1>2, <1>4, DropsBounded
<1>6. SubSeq(b, n + 1, Len(b)) \in Recording
  <2>1. n + 1 \in Nat \ {0} /\ Len(b) \in 0..Len(b)
    BY <1>2, <1>5
  <2> QED BY <1>2, <2>1, CutIsRecording
<1>7. mem[i].gen + (IF n > 0 THEN 1 ELSE 0) \in Nat
  BY <1>1
<1>8. mem' \in [Terms -> InMemory]
  BY <1>1, <1>2, <1>4, <1>6, <1>7 DEF OwnersInv, InMemory
<1> QED BY <1>1, <1>3, <1>8 DEF OwnersInv

(* A snapshot of a terminal that has something to write. *)
LEMMA SnapshotsToWrite ==
  ASSUME OwnersInv
  PROVE  Snapshots \subseteq ToWrite
<1> SUFFICES ASSUME NEW i \in Terms, Due(i) PROVE Snapshot(i) \in ToWrite
  BY DEF Snapshots
<1>1. mem[i].buf \in Recording /\ mem[i].pending \in Recording /\ mem[i].gen \in Nat
      /\ life[i] \in Nat /\ mem[i].buf # <<>>
  BY DEF OwnersInv, InMemory, Due
<1>2. Replaces(i) \in BOOLEAN
  BY DEF Replaces
<1> QED BY <1>1, <1>2 DEF Snapshot, ToWrite

(* Acknowledging a write keeps the types. *)
LEMMA SavedKeeps ==
  ASSUME NEW m \in InMemory, NEW s \in ToWrite
  PROVE  Saved(m, s) \in InMemory
<1>1. m.pending \in Recording /\ s.pending \in Recording /\ s.gen \in Nat
      /\ m.gen \in Nat /\ m.saved \in Nat
  BY DEF InMemory, ToWrite
<1>2. SubSeq(m.pending, Len(s.pending) + 1, Len(m.pending)) \in Recording
  BY <1>1, CutIsRecording DEF Recording
<1> QED BY <1>1, <1>2 DEF Saved, InMemory

(* Complete or torn, a write leaves a recording, and not an empty one where
   there was one. *)
LEMMA WritesKeep ==
  ASSUME OwnersInv, cur \in ToWrite,
         NEW f, f = WholeWrite(cur) \/ f \in TornWrites(cur) \/ f = file
  PROVE  /\ f \in [Terms -> Recording]
         /\ \A i \in Terms : file[i] # NoFile => f[i] # NoFile
<1> DEFINE t == cur.term
<1>1. t \in Terms /\ cur.payload \in Recording /\ (cur.replace => cur.payload # <<>>)
      /\ cur.replace \in BOOLEAN /\ file[t] \in Recording
  BY DEF ToWrite, OwnersInv
<1>2. \A p \in Recording : /\ file[t] \o p \in Recording
                           /\ file[t] # <<>> => file[t] \o p # <<>>
  BY <1>1 DEF Recording
<1>3. CASE f = WholeWrite(cur)
  <2>1. CASE cur.replace
    BY <1>1, <1>3, <2>1 DEF WholeWrite, OwnersInv, NoFile
  <2>2. CASE ~cur.replace
    BY <1>1, <1>2, <1>3, <2>2 DEF WholeWrite, OwnersInv, NoFile
  <2> QED BY <2>1, <2>2
<1>4. CASE f \in TornWrites(cur)
  <2>1. CASE cur.replace
    BY <1>4, <2>1 DEF TornWrites, OwnersInv
  <2>2. CASE ~cur.replace
    <3>1. PICK n \in 0..Len(cur.payload) :
            f = [file EXCEPT ![t] = @ \o SubSeq(cur.payload, 1, n)]
      BY <1>4, <2>2 DEF TornWrites
    <3>2. SubSeq(cur.payload, 1, n) \in Recording
      BY <1>1, CutIsRecording DEF Recording
    <3> HIDE DEF t
    <3>3. f = [file EXCEPT ![t] = file[t] \o SubSeq(cur.payload, 1, n)]
      BY <3>1
    <3> QED BY <1>1, <1>2, <3>2, <3>3 DEF OwnersInv, NoFile
  <2> QED BY <2>1, <2>2
<1> QED BY <1>3, <1>4 DEF OwnersInv

(* The steps that touch neither the disk, nor what is to be written, nor what
   the sweep has seen. *)
LEMMA OwnersUntouched ==
  ASSUME OwnersInv, UNCHANGED <<file, life, sweep, keep, open>>, closed' \subseteq closed,
         mem' \in [Terms -> InMemory], out' \in [Terms -> Nat],
         UNCHANGED <<todo, cur>>, flush' = flush \/ flush' \notin InThread
  PROVE  OwnersInv'
  BY DEF OwnersInv

(* The flush passes on the lock. *)
LEMMA OwnersLetsGo ==
  ASSUME OwnersInv, UNCHANGED <<file, life, sweep, keep, open, closed, out>>,
         mem' \in [Terms -> InMemory], NEW rest, rest \subseteq todo, NEW n, Continue(rest, n)
  PROVE  OwnersInv'
<1>1. flush' \notin InThread /\ todo' \subseteq ToWrite
  BY DEF Continue, InThread, OwnersInv
<1> QED BY <1>1 DEF OwnersInv

LEMMA NewMemTyped ==
  ASSUME OwnersInv, NEW i \in Terms
  PROVE  NewMem \in InMemory /\ Restored(i) \in InMemory
<1>1. <<>> \in Recording /\ file[i] \in Recording
  BY DEF OwnersInv, Recording
<1>2. NewMem \in InMemory
  BY <1>1 DEF NewMem, InMemory
<1> QED BY <1>1, <1>2 DEF Restored, InMemory

LEMMA OwnersStep ==
  ASSUME FlushInv, OwnersInv, [Next]_vars
  PROVE  OwnersInv'
<1>1. ASSUME NEW i \in Terms, Output(i) \/ Start(i) PROVE OwnersInv'
  <2>1. Record(i)
    BY <1>1 DEF Output, Start
  <2>2. mem' \in [Terms -> InMemory] /\ out' \in [Terms -> Nat]
    BY <2>1, RecordKeeps
  <2>3. flush' = flush \/ flush' \notin InThread
    BY <1>1 DEF Output, Start, Arm, InThread
  <2> QED BY <1>1, <2>2, <2>3, OwnersUntouched DEF Output, Start
<1>2. ASSUME NEW i \in Terms, Input(i) \/ Exits(i) \/ Purge(i) PROVE OwnersInv'
  <2>1. UNCHANGED <<mem, out>> /\ (flush' = flush \/ flush' \notin InThread)
    BY <1>2 DEF Input, Exits, Purge, Arm, InThread
  <2>2. mem' \in [Terms -> InMemory] /\ out' \in [Terms -> Nat]
    BY <2>1 DEF OwnersInv
  <2> QED BY <1>2, <2>1, <2>2, OwnersUntouched DEF Input, Exits, Purge
<1>3. ASSUME NEW i \in Terms, Reattach(i) PROVE OwnersInv'
  <2>1. CASE Record(i)
    <3>1. mem' \in [Terms -> InMemory] /\ out' \in [Terms -> Nat]
      BY <2>1, RecordKeeps
    <3>2. flush' = flush \/ flush' \notin InThread
      BY <1>3 DEF Reattach, Arm, InThread
    <3> QED BY <1>3, <3>1, <3>2, OwnersUntouched DEF Reattach
  <2>2. CASE UNCHANGED <<mem, out, flush>>
    <3>1. mem' \in [Terms -> InMemory] /\ out' \in [Terms -> Nat]
      BY <2>2 DEF OwnersInv
    <3> QED BY <1>3, <2>2, <3>1, OwnersUntouched DEF Reattach
  <2> QED BY <1>3, <2>1, <2>2 DEF Reattach
<1>4. ASSUME NEW i \in Terms, CloseBegins(i) PROVE OwnersInv'
  BY <1>4 DEF CloseBegins, OwnersInv
<1>5. ASSUME NEW i \in Terms, NEW kept \in BOOLEAN, CloseEnds(i, kept) PROVE OwnersInv'
  <2>1. closed' \subseteq closed \cup {i} /\ open' = open \ {i} /\ i \in Terms
    BY <1>5 DEF CloseEnds, Pushed
  <2>2. mem' \in [Terms -> InMemory]
    BY <1>5, NewMemTyped DEF CloseEnds, OwnersInv
  <2>3. sweep # "read"
    BY <1>5, OneHolder DEF CloseEnds, MayDiscard, FlushInv
  <2> QED BY <1>5, <2>1, <2>2, <2>3 DEF CloseEnds, OwnersInv
<1>6. ASSUME NEW i \in Terms, Reopen(i) PROVE OwnersInv'
  <2>1. /\ i \in closed /\ closed' = closed \ {i} /\ open' = open \cup {i}
        /\ (sweep = "half" => "overlap" \in Faults) /\ life' = [life EXCEPT ![i] = @ + 1]
        /\ UNCHANGED <<file, todo, cur, flush, sweep, keep>>
    BY <1>6 DEF Reopen
  <2>2. life' \in [Terms -> Nat]
    BY <2>1 DEF OwnersInv
  <2>3. mem' \in [Terms -> InMemory] /\ out' \in [Terms -> Nat]
    <3> DEFINE c == out[i] + 1
               b == Append(file[i], c)
    <3>1. c \in Nat /\ file[i] \in Recording /\ <<c>> \in Recording
      BY DEF OwnersInv, Recording
    <3>2. b \in Recording /\ Len(b) = Len(file[i]) + 1 /\ Len(b) \in Nat
      BY <3>1 DEF Recording
    <3>3. PICK n \in Drops(i, Len(file[i]) + 1) :
            mem' = [mem EXCEPT ![i] = [buf |-> SubSeq(b, n + 1, Len(file[i]) + 1),
                                       pending |-> <<c>>, gen |-> IF n > 0 THEN 1 ELSE 0,
                                       saved |-> 0]]
      BY <1>6 DEF Reopen
    <3>4. out' = [out EXCEPT ![i] = c]
      BY <1>6 DEF Reopen
    <3> HIDE DEF b, c
    <3>5. n \in Nat
      BY <3>2, <3>3, DropsBounded
    <3>6. SubSeq(b, n + 1, Len(file[i]) + 1) \in Recording
      <4>1. n + 1 \in Nat \ {0} /\ Len(file[i]) + 1 \in 0..Len(b)
        BY <3>2, <3>5
      <4> QED BY <3>2, <4>1, CutIsRecording
    <3>7. mem' \in [Terms -> InMemory]
      BY <3>1, <3>3, <3>6 DEF OwnersInv, InMemory
    <3> QED BY <3>1, <3>4, <3>7 DEF OwnersInv
  <2> QED BY <2>1, <2>2, <2>3 DEF OwnersInv
<1>7. CASE FlushBegins
  <2>1. todo' = Snapshots /\ flush' \notin InThread
    BY <1>7 DEF FlushBegins, InThread
  <2> QED BY <1>7, <2>1, SnapshotsToWrite DEF FlushBegins, OwnersInv
<1>8. ASSUME NEW s \in todo, FlushSkips(s) PROVE OwnersInv'
  <2>1. mem' \in [Terms -> InMemory]
    BY <1>8 DEF FlushSkips, OwnersInv
  <2> QED BY <1>8, <2>1, OwnersLetsGo DEF FlushSkips
<1>9. ASSUME NEW s \in todo, FlushWrites(s) PROVE OwnersInv'
  BY <1>9 DEF FlushWrites, OwnersInv
<1>10. CASE ThreadWrites
  <2>1. flush = "writing" /\ UNCHANGED <<open, closed, mem, life, todo, cur, sweep, keep, out>>
    BY <1>10 DEF ThreadWrites
  <2>2. cur \in ToWrite
    BY <2>1 DEF OwnersInv, InThread
  <2>3. file' = WholeWrite(cur) \/ file' \in TornWrites(cur) \/ file' = file
    BY <1>10 DEF ThreadWrites
  <2>4. file' \in [Terms -> Recording]
    BY <2>2, <2>3, WritesKeep
  <2> QED BY <2>1, <2>2, <2>4 DEF OwnersInv
<1>11. CASE FlushRecords
  <2>1. mem' \in [Terms -> InMemory]
    <3>1. cur \in ToWrite
      BY <1>11 DEF FlushRecords, OwnersInv, InThread
    <3>2. cur.term \in Terms
      BY <3>1 DEF ToWrite
    <3>3. Saved(mem[cur.term], cur) \in InMemory
      BY <3>1, <3>2, SavedKeeps DEF OwnersInv
    <3> QED BY <1>11, <3>2, <3>3 DEF FlushRecords, OwnersInv
  <2> QED BY <1>11, <2>1, OwnersLetsGo DEF FlushRecords
<1>12. CASE SweepBegins \/ SweepReadsOpen \/ SweepReadsClosed
  BY <1>12 DEF SweepBegins, SweepReadsOpen, SweepReadsClosed, Owners, OwnersInv
<1>13. CASE SweepEnds
  <2>1. NoFile \in Recording
    BY DEF NoFile, Recording
  <2> QED BY <1>13, <2>1 DEF SweepEnds, OwnersInv
<1>14. CASE ServerDies
  <2>1. file' \in [Terms -> Recording]
    <3>1. CASE flush = "writing"
      BY <1>14, <3>1, WritesKeep DEF ServerDies, OwnersInv, InThread
    <3>2. CASE flush # "writing"
      BY <1>14, <3>2 DEF ServerDies, OwnersInv
    <3> QED BY <3>1, <3>2
  <2>2. mem' \in [Terms -> InMemory]
    BY <1>14, NewMemTyped DEF ServerDies
  <2> QED BY <1>14, <2>1, <2>2 DEF ServerDies, OwnersInv, InThread
<1>15. CASE ServerStarts
  <2>1. mem' \in [Terms -> InMemory]
    BY <1>15, NewMemTyped DEF ServerStarts
  <2> QED BY <1>15, <2>1 DEF ServerStarts, OwnersInv
<1>16. CASE UNCHANGED vars
  BY <1>16 DEF vars, OwnersInv
<1> QED
  BY <1>1, <1>2, <1>3, <1>4, <1>5, <1>6, <1>7, <1>8, <1>9, <1>10, <1>11, <1>12, <1>13,
     <1>14, <1>15, <1>16 DEF Next, Flush, Sweep, Close

(* No step but the sweep's removes a recording, and that one only removes what
   its thread has seen no owner of. *)
LEMMA SweepSpares ==
  ASSUME "overlap" \notin Faults, OwnersInv, [Next]_vars, NEW i \in Terms, file[i] # NoFile, file'[i] = NoFile
  PROVE  i \notin open \cup closed
<1>1. CASE SweepEnds
  <2>1. i \notin keep /\ open \cup closed \subseteq keep
    BY <1>1 DEF SweepEnds, OwnersInv
  <2> QED BY <2>1
<1>2. CASE ThreadWrites
  <2>1. cur \in ToWrite
    BY <1>2 DEF ThreadWrites, OwnersInv, InThread
  <2>2. file' = WholeWrite(cur) \/ file' \in TornWrites(cur) \/ file' = file
    BY <1>2 DEF ThreadWrites
  <2> QED BY <2>1, <2>2, WritesKeep
<1>3. CASE ServerDies
  <2>1. CASE flush = "writing"
    BY <1>3, <2>1, WritesKeep DEF ServerDies, OwnersInv, InThread
  <2>2. CASE flush # "writing"
    BY <1>3, <2>2 DEF ServerDies
  <2> QED BY <2>1, <2>2
<1>4. CASE UNCHANGED file
  BY <1>4
<1>5. ASSUME NEW s \in todo, FlushSkips(s) \/ FlushWrites(s) PROVE UNCHANGED file
  BY <1>5 DEF FlushSkips, FlushWrites
<1>6. ASSUME NEW j \in Terms,
             \/ Output(j) \/ Input(j) \/ Start(j) \/ Reattach(j) \/ Exits(j)
             \/ CloseBegins(j) \/ Close(j) \/ Reopen(j) \/ Purge(j)
      PROVE  UNCHANGED file
  BY <1>6 DEF Output, Input, Start, Reattach, Exits, CloseBegins, Close, CloseEnds, Reopen, Purge
<1>7. FlushBegins \/ FlushRecords \/ SweepBegins \/ SweepReadsOpen \/ SweepReadsClosed
      \/ ServerStarts \/ UNCHANGED vars => UNCHANGED file
  BY DEF FlushBegins, FlushRecords, SweepBegins, SweepReadsOpen, SweepReadsClosed,
         ServerStarts, vars
<1> QED
  BY <1>1, <1>2, <1>3, <1>4, <1>5, <1>6, <1>7 DEF Next, Flush, Sweep

(* sweep_orphaned_replays: as long as no terminal is reopened while its thread
   is between its two reads, only a recording of no session is removed. *)
THEOREM OwnedAlwaysSpared ==
  ASSUME "overlap" \notin Faults
  PROVE  Spec => OwnedSpared
<1>1. Init => OwnersInv
  <2>1. <<>> \in Recording /\ <<1>> \in Recording
    BY DEF Recording
  <2> QED BY <2>1 DEF Init, OwnersInv, InMemory, InThread, NoFile
<1>2. Init => FlushInv
  BY DEF Init, FlushInv, WriterOwns
<1>3. FlushInv /\ OwnersInv /\ [Next]_vars => OwnersInv'
  BY OwnersStep
<1>4. OwnersInv /\ [Next]_vars
        => [\A i \in Terms : file[i] # NoFile /\ file'[i] = NoFile => i \notin open \cup closed]_vars
  BY SweepSpares
<1> QED
  BY <1>1, <1>2, <1>3, <1>4, FlushStep, PTL DEF Spec, OwnedSpared

-----------------------------------------------------------------------------
(* Sequences of chunks *)

(* t begins as s does, or ends so. *)
Begins(s, t) == Len(s) <= Len(t) /\ \A k \in 1..Len(s) : t[k] = s[k]

EndsWith(t, s) == Len(s) <= Len(t) /\ \A k \in 1..Len(s) : t[(Len(t) - Len(s)) + k] = s[k]

(* The last of o chunks. *)
Run(p, o) == Len(p) <= o /\ \A k \in 1..Len(p) : p[k] = (o - Len(p)) + k

Within(s, o) == \A k \in 1..Len(s) : s[k] \in 1..o

(* A stretch of the output up to chunk n, but for what is in L. *)
Told(L, s, n) ==
  /\ \A k \in 1..(Len(s) - 1) : s[k] < s[k + 1] /\ (s[k] + 1)..(s[k + 1] - 1) \subseteq L
  /\ s # <<>> => s[Len(s)] <= n /\ (s[Len(s)] + 1)..n \subseteq L

LEMMA LengthOf ==
  ASSUME NEW s \in Recording
  PROVE  /\ Len(s) \in Nat /\ DOMAIN s = 1..Len(s) /\ (s = <<>> <=> Len(s) = 0)
         /\ \A k \in 1..Len(s) : s[k] \in Nat
BY DEF Recording

LEMMA CutIs ==
  ASSUME NEW s \in Recording, NEW d \in 0..Len(s)
  PROVE  /\ SubSeq(s, d + 1, Len(s)) \in Recording
         /\ Len(SubSeq(s, d + 1, Len(s))) = Len(s) - d
         /\ \A k \in 1..(Len(s) - d) : SubSeq(s, d + 1, Len(s))[k] = s[d + k]
PROOF
  <1>1. Len(s) \in Nat /\ d \in Nat /\ d + 1 \in Nat \ {0} /\ Len(s) \in 0..Len(s)
    BY LengthOf
  <1>2. SubSeq(s, d + 1, Len(s)) \in Recording
    BY <1>1, CutIsRecording
  <1> QED BY <1>1, <1>2 DEF Recording

LEMMA FirstIs ==
  ASSUME NEW s \in Recording, NEW d \in 0..Len(s)
  PROVE  /\ SubSeq(s, 1, d) \in Recording /\ Len(SubSeq(s, 1, d)) = d
         /\ \A k \in 1..d : SubSeq(s, 1, d)[k] = s[k]
PROOF
  <1>1. SubSeq(s, 1, d) \in Recording /\ d \in Nat
    BY CutIsRecording, LengthOf
  <1> QED BY <1>1 DEF Recording

LEMMA AddIs ==
  ASSUME NEW s \in Recording, NEW c \in Nat
  PROVE  /\ Append(s, c) \in Recording /\ Len(Append(s, c)) = Len(s) + 1
         /\ \A k \in 1..Len(s) : Append(s, c)[k] = s[k]
         /\ Append(s, c)[Len(s) + 1] = c
BY DEF Recording

LEMMA JoinIs ==
  ASSUME NEW s \in Recording, NEW p \in Recording
  PROVE  /\ s \o p \in Recording /\ Len(s \o p) = Len(s) + Len(p)
         /\ \A k \in 1..Len(s) : (s \o p)[k] = s[k]
         /\ \A k \in 1..Len(p) : (s \o p)[Len(s) + k] = p[k]
BY DEF Recording

(* Two sequences of one length and with the same elements. *)
LEMMA SameRecording ==
  ASSUME NEW s \in Recording, NEW t \in Recording, Len(s) = Len(t), \A k \in 1..Len(s) : s[k] = t[k]
  PROVE  s = t
BY SMTT(20) DEF Recording

LEMMA PrefixIs ==
  ASSUME NEW s \in Recording, NEW t \in Recording
  PROVE  IsPrefix(s, t) <=> Begins(s, t)
PROOF
  <1>1. Len(s) \in Nat /\ Len(t) \in Nat
    BY LengthOf
  <1>2. CASE Len(s) <= Len(t)
    <2> DEFINE x == SubSeq(s, 1, Len(s))
               y == SubSeq(t, 1, Len(s))
    <2>1. /\ x \in Recording /\ Len(x) = Len(s) /\ \A k \in 1..Len(s) : x[k] = s[k]
      BY <1>1, FirstIs
    <2>2. /\ y \in Recording /\ Len(y) = Len(s) /\ \A k \in 1..Len(s) : y[k] = t[k]
      BY <1>1, <1>2, FirstIs
    <2> HIDE DEF x, y
    <2>3. x = y <=> \A k \in 1..Len(s) : t[k] = s[k]
      BY <2>1, <2>2, SameRecording
    <2> QED BY <1>2, <2>3 DEF IsPrefix, Begins, x, y
  <1>3. CASE ~(Len(s) <= Len(t))
    BY <1>3 DEF IsPrefix, Begins
  <1> QED BY <1>2, <1>3

LEMMA ReverseIs ==
  ASSUME NEW s \in Recording
  PROVE  /\ Reverse(s) \in Recording /\ Len(Reverse(s)) = Len(s)
         /\ \A k \in 1..Len(s) : Reverse(s)[k] = s[(Len(s) - k) + 1]
PROOF
  <1>1. Len(s) \in Nat /\ \A k \in 1..Len(s) : s[k] \in Nat
    BY LengthOf
  <1>2. \A k \in 1..Len(s) : (Len(s) - k) + 1 \in 1..Len(s)
    BY <1>1
  <1>3. Reverse(s) = [k \in 1..Len(s) |-> s[(Len(s) - k) + 1]]
    BY DEF Reverse
  <1>4. Reverse(s) \in [1..Len(s) -> Nat]
    BY <1>1, <1>2, <1>3
  <1>5. Reverse(s) \in Seq(Nat) /\ Len(Reverse(s)) = Len(s)
    BY <1>1, <1>4
  <1> QED BY <1>3, <1>5 DEF Recording

LEMMA SuffixIs ==
  ASSUME NEW s \in Recording, NEW t \in Recording, EndsWith(t, s)
  PROVE  IsSuffix(s, t)
PROOF
  <1> DEFINE x == Reverse(s)
             y == Reverse(t)
  <1>1. Len(s) \in Nat /\ Len(t) \in Nat /\ Len(s) <= Len(t)
    BY LengthOf DEF EndsWith
  <1>2. x \in Recording /\ Len(x) = Len(s) /\ \A k \in 1..Len(s) : x[k] = s[(Len(s) - k) + 1]
    BY ReverseIs
  <1>3. y \in Recording /\ Len(y) = Len(t) /\ \A k \in 1..Len(t) : y[k] = t[(Len(t) - k) + 1]
    BY ReverseIs
  <1> HIDE DEF x, y
  <1>4. ASSUME NEW k \in 1..Len(s) PROVE y[k] = x[k]
    <2> DEFINE j == (Len(s) - k) + 1
    <2>1. j \in 1..Len(s) /\ (Len(t) - Len(s)) + j = (Len(t) - k) + 1 /\ k \in 1..Len(t)
      BY <1>1
    <2>2. t[(Len(t) - Len(s)) + j] = s[j]
      BY <2>1 DEF EndsWith
    <2> QED BY <1>2, <1>3, <2>1, <2>2
  <1>5. Begins(x, y)
    BY <1>1, <1>2, <1>3, <1>4 DEF Begins
  <1>6. IsPrefix(x, y)
    BY <1>2, <1>3, <1>5, PrefixIs
  <1> QED BY <1>6 DEF IsSuffix, x, y

LEMMA BeginsSelf ==
  ASSUME NEW s \in Recording
  PROVE  Begins(s, s)
BY LengthOf DEF Begins

LEMMA BeginsFurther ==
  ASSUME NEW r \in Recording, NEW s \in Recording, NEW t \in Recording, Begins(r, s), Begins(s, t)
  PROVE  Begins(r, t)
BY LengthOf DEF Begins

-----------------------------------------------------------------------------
(* What a chunk does to a recording *)

(* b is `old` with chunk c after it and without its d oldest. *)
Grown(b, old, c, d) ==
  /\ d \in 0..Len(old) /\ Len(b) = (Len(old) - d) + 1 /\ Len(b) <= Limit
  /\ \A k \in 1..(Len(old) - d) : b[k] = old[d + k]
  /\ b[Len(b)] = c

LEMMA DropsIs ==
  ASSUME NEW i, NEW n \in Nat, NEW d \in Drops(i, n + 1)
  PROVE  d \in 0..n /\ (n + 1) - d <= Limit
PROOF
  <1>1. Limit \in Nat /\ Limit >= 1
    BY ReplayConstants
  <1>2. CASE n + 1 <= Limit
    BY <1>1, <1>2 DEF Drops
  <1>3. CASE ~(n + 1 <= Limit)
    <2>1. d \in ((n + 1) - Limit)..((n + 1) - 1) \/ d = (n + 1) - Limit
      BY <1>3, <1>1 DEF Drops
    <2> QED BY <2>1, <1>3, <1>1
  <1> QED BY <1>2, <1>3

LEMMA GrownIs ==
  ASSUME NEW i, NEW old \in Recording, NEW c \in Nat, NEW d \in Drops(i, Len(old) + 1)
  PROVE  /\ SubSeq(Append(old, c), d + 1, Len(old) + 1) \in Recording
         /\ Grown(SubSeq(Append(old, c), d + 1, Len(old) + 1), old, c, d)
PROOF
  <1> DEFINE n == Len(old)
             a == Append(old, c)
             b == SubSeq(a, d + 1, n + 1)
  <1>1. n \in Nat
    BY LengthOf
  <1>2. d \in 0..n /\ (n + 1) - d <= Limit
    BY <1>1, DropsIs
  <1>3. a \in Recording /\ Len(a) = n + 1 /\ (\A k \in 1..n : a[k] = old[k]) /\ a[n + 1] = c
    BY AddIs
  <1> HIDE DEF a
  <1>4. d \in 0..Len(a)
    BY <1>1, <1>2, <1>3
  <1>5. /\ b \in Recording /\ Len(b) = (n + 1) - d
        /\ \A k \in 1..((n + 1) - d) : b[k] = a[d + k]
    BY <1>3, <1>4, CutIs
  <1> HIDE DEF b, n
  <1>6. Len(b) = (n - d) + 1 /\ Len(b) <= Limit
    BY <1>1, <1>2, <1>5
  <1>7. ASSUME NEW k \in 1..(n - d) PROVE b[k] = old[d + k]
    <2>1. k \in 1..((n + 1) - d) /\ d + k \in 1..n
      BY <1>1, <1>2
    <2> QED BY <1>3, <1>5, <2>1
  <1>8. b[Len(b)] = c
    <2>1. Len(b) \in 1..((n + 1) - d) /\ d + Len(b) = n + 1
      BY <1>1, <1>2, <1>5
    <2> QED BY <1>3, <1>5, <2>1
  <1>9. Grown(b, old, c, d)
    BY <1>2, <1>6, <1>7, <1>8 DEF Grown, n
  <1> QED BY <1>5, <1>9 DEF a, b, n

(* What the buffer of terminal i becomes when a chunk is recorded after `old`,
   at generation g. *)
Recorded(m, old, c, g) ==
  \E d \in Nat : Grown(m.buf, old, c, d) /\ m.gen = g + (IF d > 0 THEN 1 ELSE 0)

LEMMA RecordIs ==
  ASSUME OwnersInv, NEW i \in Terms, Record(i)
  PROVE  /\ Recorded(mem'[i], mem[i].buf, out[i] + 1, mem[i].gen)
         /\ mem'[i].pending = Append(mem[i].pending, out[i] + 1)
         /\ mem'[i].saved = mem[i].saved
         /\ out'[i] = out[i] + 1
         /\ \A j \in Terms : j # i => mem'[j] = mem[j] /\ out'[j] = out[j]
PROOF
  <1> DEFINE c == out[i] + 1
             n == Len(mem[i].buf) + 1
             b == Append(mem[i].buf, c)
  <1>1. c \in Nat /\ mem[i].buf \in Recording /\ mem \in [Terms -> InMemory] /\ out \in [Terms -> Nat]
    BY DEF OwnersInv, InMemory
  <1>2. Len(b) = n
    BY <1>1, AddIs
  <1>3. PICK d \in Drops(i, Len(b)) :
          mem' = [mem EXCEPT ![i] = [buf |-> SubSeq(b, d + 1, Len(b)),
                                     pending |-> Append(mem[i].pending, c),
                                     gen |-> mem[i].gen + (IF d > 0 THEN 1 ELSE 0),
                                     saved |-> mem[i].saved]]
    BY DEF Record
  <1>4. d \in Drops(i, n)
    BY <1>2, <1>3
  <1> DEFINE x == SubSeq(b, d + 1, n)
  <1>5. Grown(x, mem[i].buf, c, d) /\ d \in Nat
    <2>1. Len(mem[i].buf) \in Nat
      BY <1>1, LengthOf
    <2> QED BY <1>1, <1>4, <2>1, GrownIs, DropsIs
  <1>6. out' = [out EXCEPT ![i] = c]
    BY DEF Record
  <1>7. mem' = [mem EXCEPT ![i] = [buf |-> x, pending |-> Append(mem[i].pending, c),
                                   gen |-> mem[i].gen + (IF d > 0 THEN 1 ELSE 0),
                                   saved |-> mem[i].saved]]
    BY <1>2, <1>3
  <1> HIDE DEF x, b, n, c
  <1>8. /\ mem'[i].buf = x /\ mem'[i].gen = mem[i].gen + (IF d > 0 THEN 1 ELSE 0)
        /\ mem'[i].pending = Append(mem[i].pending, c) /\ mem'[i].saved = mem[i].saved
        /\ out'[i] = c
        /\ \A j \in Terms : j # i => mem'[j] = mem[j] /\ out'[j] = out[j]
    BY <1>1, <1>6, <1>7
  <1>9. Recorded(mem'[i], mem[i].buf, c, mem[i].gen)
    BY <1>5, <1>8 DEF Recorded
  <1> QED BY <1>8, <1>9 DEF c

LEMMA ReopenIs ==
  ASSUME OwnersInv, NEW i \in Terms, Reopen(i)
  PROVE  /\ Recorded(mem'[i], file[i], out[i] + 1, 0)
         /\ mem'[i].pending = <<out[i] + 1>>
         /\ mem'[i].saved = 0
         /\ out'[i] = out[i] + 1
         /\ \A j \in Terms : j # i => mem'[j] = mem[j] /\ out'[j] = out[j]
PROOF
  <1> DEFINE c == out[i] + 1
             n == Len(file[i]) + 1
             p == <<c>>
  <1>1. c \in Nat /\ file[i] \in Recording /\ mem \in [Terms -> InMemory] /\ out \in [Terms -> Nat]
    BY DEF OwnersInv, InMemory
  <1>2. PICK d \in Drops(i, n) :
          mem' = [mem EXCEPT ![i] = [buf |-> SubSeq(Append(file[i], c), d + 1, n),
                                     pending |-> <<c>>, gen |-> IF d > 0 THEN 1 ELSE 0,
                                     saved |-> 0]]
    BY DEF Reopen
  <1> DEFINE x == SubSeq(Append(file[i], c), d + 1, n)
  <1>3. Grown(x, file[i], c, d) /\ d \in Nat
    <2>1. Len(file[i]) \in Nat
      BY <1>1, LengthOf
    <2> QED BY <1>1, <2>1, GrownIs, DropsIs
  <1>4. out' = [out EXCEPT ![i] = c]
    BY DEF Reopen
  <1>5. mem' = [mem EXCEPT ![i] = [buf |-> x, pending |-> p, gen |-> IF d > 0 THEN 1 ELSE 0,
                                   saved |-> 0]]
    BY <1>2
  <1> HIDE DEF x, n, c, p
  <1>6. /\ mem'[i].buf = x /\ mem'[i].gen = (IF d > 0 THEN 1 ELSE 0)
        /\ mem'[i].pending = p /\ mem'[i].saved = 0
        /\ out'[i] = c
        /\ \A j \in Terms : j # i => mem'[j] = mem[j] /\ out'[j] = out[j]
    BY <1>1, <1>4, <1>5
  <1>7. mem'[i].gen = 0 + (IF d > 0 THEN 1 ELSE 0)
    BY <1>6
  <1>8. Recorded(mem'[i], file[i], c, 0)
    BY <1>3, <1>6, <1>7 DEF Recorded
  <1> QED BY <1>6, <1>8 DEF c, p

(* Bounds and contents of a recording that grew. *)
LEMMA GrownWithin ==
  ASSUME NEW b \in Recording, NEW old \in Recording, NEW o \in Nat, NEW d \in Nat,
         Grown(b, old, o + 1, d), Within(old, o)
  PROVE  Within(b, o + 1) /\ Len(b) <= Limit /\ b # <<>>
PROOF
  <1>1. Len(b) \in Nat /\ Len(old) \in Nat /\ d \in 0..Len(old) /\ Len(b) = (Len(old) - d) + 1
    BY LengthOf DEF Grown
  <1>2. ASSUME NEW k \in 1..Len(b) PROVE b[k] \in 1..(o + 1)
    <2>1. CASE k = Len(b)
      BY <2>1 DEF Grown
    <2>2. CASE k # Len(b)
      <3>1. k \in 1..(Len(old) - d) /\ d + k \in 1..Len(old)
        BY <1>1, <2>2
      <3>2. b[k] = old[d + k] /\ old[d + k] \in 1..o
        BY <3>1 DEF Grown, Within
      <3> QED BY <3>2
    <2> QED BY <2>1, <2>2
  <1>3. Len(b) <= Limit /\ Len(b) # 0
    BY <1>1 DEF Grown
  <1>4. b # <<>>
    BY <1>3, LengthOf
  <1> QED BY <1>2, <1>3, <1>4 DEF Within

LEMMA RunGrows ==
  ASSUME NEW p \in Recording, NEW o \in Nat, Run(p, o)
  PROVE  Run(Append(p, o + 1), o + 1) /\ Begins(p, Append(p, o + 1))
PROOF
  <1>1. /\ Append(p, o + 1) \in Recording /\ Len(Append(p, o + 1)) = Len(p) + 1
        /\ \A k \in 1..Len(p) : Append(p, o + 1)[k] = p[k]
        /\ Append(p, o + 1)[Len(p) + 1] = o + 1
    BY AddIs
  <1>2. Len(p) \in Nat
    BY LengthOf
  <1> DEFINE a == Append(p, o + 1)
  <1> HIDE DEF a
  <1>3. ASSUME NEW k \in 1..Len(a) PROVE a[k] = ((o + 1) - Len(a)) + k
    <2>1. CASE k = Len(p) + 1
      BY <1>1, <1>2, <2>1 DEF a
    <2>2. CASE k # Len(p) + 1
      <3>1. k \in 1..Len(p)
        BY <1>1, <1>2, <2>2 DEF a
      <3>2. a[k] = (o - Len(p)) + k
        BY <1>1, <3>1 DEF Run, a
      <3> QED BY <1>1, <1>2, <3>1, <3>2 DEF a
    <2> QED BY <2>1, <2>2
  <1>4. Len(a) <= o + 1
    BY <1>1, <1>2 DEF a, Run
  <1> QED BY <1>1, <1>2, <1>3, <1>4 DEF Run, Begins, a

LEMMA RunOfOne ==
  ASSUME NEW o \in Nat
  PROVE  Run(<<o + 1>>, o + 1)
BY DEF Run

LEMMA RunOfNone ==
  ASSUME NEW o \in Nat
  PROVE  Run(<<>>, o) /\ Within(<<>>, o) /\ <<>> \in Recording /\ Len(<<>>) = 0
BY DEF Run, Within, Recording

LEMMA RunWithin ==
  ASSUME NEW p \in Recording, NEW o \in Nat, Run(p, o)
  PROVE  Within(p, o)
BY LengthOf DEF Run, Within

LEMMA RunCut ==
  ASSUME NEW p \in Recording, NEW o \in Nat, Run(p, o), NEW d \in 0..Len(p)
  PROVE  Run(SubSeq(p, d + 1, Len(p)), o)
PROOF
  <1> DEFINE q == SubSeq(p, d + 1, Len(p))
  <1>1. q \in Recording /\ Len(q) = Len(p) - d /\ \A k \in 1..(Len(p) - d) : q[k] = p[d + k]
    BY CutIs
  <1>2. Len(p) \in Nat
    BY LengthOf
  <1> HIDE DEF q
  <1>3. ASSUME NEW k \in 1..Len(q) PROVE q[k] = (o - Len(q)) + k
    <2>1. d + k \in 1..Len(p) /\ k \in 1..(Len(p) - d)
      BY <1>1, <1>2
    <2>2. q[k] = (o - Len(p)) + (d + k)
      BY <1>1, <2>1 DEF Run
    <2> QED BY <1>1, <1>2, <2>2
  <1>4. Len(q) <= o
    BY <1>1, <1>2 DEF Run
  <1> QED BY <1>3, <1>4 DEF Run, q

LEMMA JoinWithin ==
  ASSUME NEW s \in Recording, NEW p \in Recording, NEW o \in Nat, Within(s, o), Within(p, o)
  PROVE  Within(s \o p, o)
PROOF
  <1>1. /\ s \o p \in Recording /\ Len(s \o p) = Len(s) + Len(p)
        /\ \A k \in 1..Len(s) : (s \o p)[k] = s[k]
        /\ \A k \in 1..Len(p) : (s \o p)[Len(s) + k] = p[k]
    BY JoinIs
  <1>2. Len(s) \in Nat /\ Len(p) \in Nat
    BY LengthOf
  <1> DEFINE a == s \o p
  <1> HIDE DEF a
  <1>3. ASSUME NEW k \in 1..Len(a) PROVE a[k] \in 1..o
    <2>1. CASE k \in 1..Len(s)
      BY <1>1, <2>1 DEF a, Within
    <2>2. CASE k \notin 1..Len(s)
      <3>1. k - Len(s) \in 1..Len(p) /\ Len(s) + (k - Len(s)) = k
        BY <1>1, <1>2, <2>2 DEF a
      <3> QED BY <1>1, <3>1 DEF a, Within
    <2> QED BY <2>1, <2>2
  <1> QED BY <1>3 DEF Within, a

-----------------------------------------------------------------------------
(* The types *)

(* What is on disk and in memory of terminal i. *)
Sized(i) ==
  /\ Within(file[i], out[i]) /\ Len(file[i]) <= Limit
  /\ Within(mem[i].buf, out[i]) /\ Len(mem[i].buf) <= Limit
  /\ Run(mem[i].pending, out[i])
  /\ mem[i].saved <= mem[i].gen

(* A snapshot of the session that is on the deck now. *)
Live(s) == s.term \in open /\ s.life = life[s.term]

(* It can be written: what it takes for new is still the oldest of what is not
   on disk, and there is room for it. *)
Ready(s) ==
  /\ Begins(s.pending, mem[s.term].pending)
  /\ Within(s.payload, out[s.term])
  /\ s.replace => Len(s.payload) <= Limit
  /\ ~s.replace => s.payload = s.pending /\ Len(file[s.term]) + Len(s.payload) <= Limit

(* The inductive invariant behind TypeOK: what it says of the recordings holds
   only because every snapshot still to be written stays fit to be written
   whatever is printed, closed, reopened or swept meanwhile, and because there
   is one of each terminal at most. *)
SnapInv ==
  /\ ~up => flush = "none" /\ todo = {} /\ \A i \in Terms : mem[i] = NewMem
  /\ \A i \in Terms : i \notin open => mem[i] = NewMem
  /\ \A i \in Terms : Sized(i)
  /\ \A s, t \in todo : s.term = t.term => s = t
  /\ flush \in InThread => \A s \in todo : s.term # cur.term
  /\ \A s \in todo : s.life <= life[s.term] /\ (Live(s) => Ready(s))
  /\ flush = "writing" => Ready(cur)
  /\ flush = "written" => Begins(cur.pending, mem[cur.term].pending)

(* What a step does to terminal i while there are snapshots of it: it prints
   more or stays as it is, leaves the deck, or is another session from then on. *)
Follows(i) ==
  /\ life'[i] >= life[i]
  /\ \/ /\ i \in open /\ i \in open' /\ life'[i] = life[i]
        /\ Begins(mem[i].pending, mem'[i].pending) /\ out'[i] >= out[i]
     \/ i \notin open'
     \/ life'[i] = life[i] + 1

LEMMA ReadyFollows ==
  ASSUME OwnersInv, OwnersInv', NEW s \in ToWrite, Ready(s), UNCHANGED file,
         Begins(mem[s.term].pending, mem'[s.term].pending), out'[s.term] >= out[s.term]
  PROVE  Ready(s)'
PROOF
  <1> DEFINE t == s.term
  <1>1. /\ s.term \in Terms /\ s.pending \in Recording /\ s.payload \in Recording
        /\ mem[s.term].pending \in Recording /\ mem'[s.term].pending \in Recording
        /\ out[s.term] \in Nat /\ out'[s.term] \in Nat
    BY DEF ToWrite, OwnersInv, InMemory
  <1>2. Begins(s.pending, mem'[s.term].pending)
    BY <1>1, BeginsFurther DEF Ready
  <1>3. Within(s.payload, out'[s.term])
    BY <1>1 DEF Ready, Within
  <1> QED BY <1>2, <1>3 DEF Ready

LEMMA SnapKept ==
  ASSUME OwnersInv, OwnersInv', FlushInv, FlushInv', SnapInv, up,
         UNCHANGED <<up, todo, cur, file>>, flush' = flush \/ flush' \notin InThread,
         \A i \in Terms : Sized(i)', \A i \in Terms : i \notin open' => mem'[i] = NewMem,
         \A i \in Terms : Follows(i)
  PROVE  SnapInv'
PROOF
  <1>1. ASSUME NEW s \in todo PROVE s.life <= life'[s.term] /\ (Live(s)' => Ready(s)')
    <2>1. s \in ToWrite /\ s.term \in Terms /\ s.life \in Nat
      BY DEF OwnersInv, ToWrite
    <2>2. s.life <= life[s.term] /\ life[s.term] \in Nat /\ life'[s.term] \in Nat
      BY <2>1 DEF SnapInv, OwnersInv
    <2>3. life'[s.term] >= life[s.term] /\ Follows(s.term)
      BY <2>1 DEF Follows
    <2>4. ASSUME Live(s)' PROVE Ready(s)'
      <3>1. s.term \in open' /\ s.life = life'[s.term]
        BY <2>4 DEF Live
      <3>2. life'[s.term] # life[s.term] + 1
        BY <2>1, <2>2, <3>1
      <3>3. /\ s.term \in open /\ life'[s.term] = life[s.term]
            /\ Begins(mem[s.term].pending, mem'[s.term].pending) /\ out'[s.term] >= out[s.term]
        BY <2>3, <3>1, <3>2 DEF Follows
      <3>4. Ready(s)
        BY <3>1, <3>3 DEF SnapInv, Live
      <3> QED BY <2>1, <3>3, <3>4, ReadyFollows
    <2> QED BY <2>1, <2>2, <2>3, <2>4
  <1>2. ASSUME flush' \in {"writing", "written"}
        PROVE  /\ flush' = flush /\ cur \in ToWrite
               /\ Begins(mem[cur.term].pending, mem'[cur.term].pending)
               /\ out'[cur.term] >= out[cur.term]
    <2>1. flush' = flush /\ flush \in InThread
      BY <1>2 DEF InThread
    <2>2. cur \in ToWrite /\ cur.term \in Terms
      BY <2>1 DEF OwnersInv, ToWrite
    <2>3. /\ cur.term \in open /\ cur.life = life[cur.term]
          /\ cur.term \in open' /\ cur.life = life'[cur.term]
      BY <2>1 DEF FlushInv, WriterOwns, InThread
    <2>4. life[cur.term] \in Nat
      BY <2>2 DEF OwnersInv
    <2>5. life'[cur.term] # life[cur.term] + 1
      BY <2>3, <2>4
    <2> QED BY <2>1, <2>2, <2>3, <2>5 DEF Follows
  <1>3. flush' = "writing" => Ready(cur)'
    BY <1>2, ReadyFollows DEF SnapInv
  <1>4. flush' = "written" => Begins(cur.pending, mem'[cur.term].pending)
    <2> SUFFICES ASSUME flush' = "written" PROVE Begins(cur.pending, mem'[cur.term].pending)
      OBVIOUS
    <2>1. cur \in ToWrite /\ cur.term \in Terms /\ cur.pending \in Recording
      BY <1>2 DEF ToWrite
    <2>2. mem[cur.term].pending \in Recording /\ mem'[cur.term].pending \in Recording
      BY <2>1 DEF OwnersInv, InMemory
    <2>3. Begins(cur.pending, mem[cur.term].pending)
      BY <1>2 DEF SnapInv
    <2> QED BY <1>2, <2>1, <2>2, <2>3, BeginsFurther
  <1>5. flush' \in InThread => \A s \in todo' : s.term # cur'.term
    BY DEF SnapInv
  <1> QED BY <1>1, <1>3, <1>4, <1>5 DEF SnapInv

(* The steps that touch neither sessions nor recordings nor snapshots. *)
LEMMA SnapSame ==
  ASSUME SnapInv, UNCHANGED <<up, open, mem, life, file, todo, cur, out>>,
         flush' = flush \/ (up /\ flush' \notin InThread)
  PROVE  SnapInv'
BY DEF SnapInv, Sized, Live, Ready, InThread

(* What a write, complete or torn, leaves of every recording. *)
LEMMA WritesAre ==
  ASSUME OwnersInv, SnapInv, flush = "writing",
         NEW f, f = WholeWrite(cur) \/ f \in TornWrites(cur) \/ f = file
  PROVE  \A j \in Terms : /\ j # cur.term => f[j] = file[j]
                          /\ f[j] \in Recording /\ Within(f[j], out[j]) /\ Len(f[j]) <= Limit
PROOF
  <1> DEFINE t == cur.term
  <1>1. cur \in ToWrite /\ Ready(cur)
    BY DEF OwnersInv, InThread, SnapInv
  <1>2. /\ t \in Terms /\ cur.payload \in Recording /\ cur.replace \in BOOLEAN
        /\ file[t] \in Recording /\ out[t] \in Nat /\ file \in [Terms -> Recording]
    BY <1>1 DEF ToWrite, OwnersInv
  <1>3. Within(file[t], out[t]) /\ Within(cur.payload, out[t])
    BY <1>1, <1>2 DEF SnapInv, Sized, Ready
  <1>4. \A j \in Terms : file[j] \in Recording /\ Within(file[j], out[j]) /\ Len(file[j]) <= Limit
    BY DEF SnapInv, Sized, OwnersInv
  <1>5. Limit \in Nat /\ Len(file[t]) \in Nat /\ Len(cur.payload) \in Nat
    BY <1>2, LengthOf, ReplayConstants
  <1>6. f = file \/ \E x \in Recording : /\ f = [file EXCEPT ![t] = x]
                                         /\ Within(x, out[t]) /\ Len(x) <= Limit
    <2>1. CASE f = WholeWrite(cur) /\ cur.replace
      <3>1. f = [file EXCEPT ![t] = cur.payload]
        BY <2>1 DEF WholeWrite
      <3> QED BY <1>1, <1>2, <1>3, <2>1, <3>1 DEF Ready
    <2>2. CASE f = WholeWrite(cur) /\ ~cur.replace
      <3> DEFINE x == file[t] \o cur.payload
      <3>1. f = [file EXCEPT ![t] = x]
        BY <1>2, <2>2 DEF WholeWrite
      <3>2. x \in Recording /\ Len(x) = Len(file[t]) + Len(cur.payload)
        BY <1>2, JoinIs
      <3>3. Within(x, out[t])
        BY <1>2, <1>3, JoinWithin
      <3>4. Len(file[t]) + Len(cur.payload) <= Limit
        BY <1>1, <2>2 DEF Ready
      <3> HIDE DEF x
      <3> QED BY <3>1, <3>2, <3>3, <3>4
    <2>3. CASE f \in TornWrites(cur) /\ cur.replace
      BY <2>3 DEF TornWrites
    <2>4. CASE f \in TornWrites(cur) /\ ~cur.replace
      <3>1. PICK n \in 0..Len(cur.payload) :
              f = [file EXCEPT ![t] = @ \o SubSeq(cur.payload, 1, n)]
        BY <2>4 DEF TornWrites
      <3> DEFINE p == SubSeq(cur.payload, 1, n)
                 x == file[t] \o p
      <3>2. f = [file EXCEPT ![t] = x]
        BY <1>2, <3>1
      <3>3. p \in Recording /\ Len(p) = n /\ \A k \in 1..n : p[k] = cur.payload[k]
        BY <1>2, FirstIs
      <3>4. Within(p, out[t])
        <4> HIDE DEF p
        <4>1. \A k \in 1..n : k \in 1..Len(cur.payload)
          BY <1>5
        <4> QED BY <1>3, <3>3, <4>1 DEF Within
      <3> HIDE DEF p
      <3>5. x \in Recording /\ Len(x) = Len(file[t]) + n
        BY <1>2, <3>3, JoinIs
      <3>6. Within(x, out[t])
        BY <1>2, <1>3, <3>3, <3>4, JoinWithin
      <3>7. Len(file[t]) + Len(cur.payload) <= Limit
        BY <1>1, <2>4 DEF Ready
      <3> HIDE DEF x
      <3>8. Len(x) <= Limit
        <4> DEFINE a == Len(file[t])
                   b == Len(cur.payload)
        <4>1. a \in Nat /\ b \in Nat /\ Limit \in Nat
          BY <1>5
        <4>2. n \in 0..b
          OBVIOUS
        <4>3. Len(x) = a + n
          BY <3>5
        <4>4. a + b <= Limit
          BY <3>7
        <4> HIDE DEF a, b
        <4> QED BY <4>1, <4>2, <4>3, <4>4
      <3> QED BY <3>2, <3>5, <3>6, <3>8
    <2> QED BY <1>2, <2>1, <2>2, <2>3, <2>4
  <1> HIDE DEF t
  <1> SUFFICES ASSUME NEW j \in Terms
               PROVE  /\ j # t => f[j] = file[j]
                      /\ f[j] \in Recording /\ Within(f[j], out[j]) /\ Len(f[j]) <= Limit
    BY DEF t
  <1>7. CASE f = file
    BY <1>4, <1>7
  <1>8. CASE \E x \in Recording : /\ f = [file EXCEPT ![t] = x]
                                  /\ Within(x, out[t]) /\ Len(x) <= Limit
    <2>1. PICK x \in Recording : f = [file EXCEPT ![t] = x] /\ Within(x, out[t]) /\ Len(x) <= Limit
      BY <1>8
    <2>2. j # t => f[j] = file[j]
      BY <1>2, <2>1
    <2>3. f[t] = x
      BY <1>2, <2>1
    <2> QED BY <1>4, <2>1, <2>2, <2>3
  <1> QED BY <1>6, <1>7, <1>8

(* One more chunk of terminal i. *)
LEMMA RecordGood ==
  ASSUME OwnersInv, OwnersInv', SnapInv, NEW i \in Terms, Record(i), UNCHANGED file
  PROVE  /\ \A j \in Terms : Sized(j)'
         /\ \A j \in Terms : j # i => mem'[j] = mem[j]
         /\ \A j \in Terms : /\ Begins(mem[j].pending, mem'[j].pending)
                             /\ out'[j] >= out[j]
PROOF
  <1>1. /\ Recorded(mem'[i], mem[i].buf, out[i] + 1, mem[i].gen)
        /\ mem'[i].pending = Append(mem[i].pending, out[i] + 1)
        /\ mem'[i].saved = mem[i].saved /\ out'[i] = out[i] + 1
        /\ \A j \in Terms : j # i => mem'[j] = mem[j] /\ out'[j] = out[j]
    BY RecordIs
  <1>2. /\ mem[i].buf \in Recording /\ mem[i].pending \in Recording /\ mem[i].gen \in Nat
        /\ mem[i].saved \in Nat /\ out[i] \in Nat /\ file[i] \in Recording
        /\ mem'[i].buf \in Recording
    BY DEF OwnersInv, InMemory
  <1>3. Sized(i)
    BY DEF SnapInv
  <1>4. PICK d \in Nat : /\ Grown(mem'[i].buf, mem[i].buf, out[i] + 1, d)
                         /\ mem'[i].gen = mem[i].gen + (IF d > 0 THEN 1 ELSE 0)
    BY <1>1 DEF Recorded
  <1>5. Within(mem'[i].buf, out[i] + 1) /\ Len(mem'[i].buf) <= Limit
    <2>1. Within(mem[i].buf, out[i])
      BY <1>3 DEF Sized
    <2> QED BY <1>2, <1>4, <2>1, GrownWithin
  <1>6. /\ Run(mem'[i].pending, out[i] + 1)
        /\ Begins(mem[i].pending, mem'[i].pending)
    BY <1>1, <1>2, <1>3, RunGrows DEF Sized
  <1>7. Within(file[i], out[i] + 1)
    BY <1>2, <1>3, LengthOf DEF Sized, Within
  <1>8. mem'[i].saved <= mem'[i].gen
    BY <1>1, <1>2, <1>3, <1>4 DEF Sized
  <1>9. Sized(i)'
    BY <1>1, <1>3, <1>5, <1>6, <1>7, <1>8 DEF Sized
  <1>10. ASSUME NEW j \in Terms, j # i
         PROVE  Sized(j)' /\ Begins(mem[j].pending, mem'[j].pending) /\ out'[j] >= out[j]
    <2>1. mem'[j] = mem[j] /\ out'[j] = out[j] /\ out[j] \in Nat /\ mem[j].pending \in Recording
      BY <1>1, <1>10 DEF OwnersInv, InMemory
    <2>2. Sized(j)
      BY DEF SnapInv
    <2> QED BY <2>1, <2>2, BeginsSelf DEF Sized
  <1>11. out'[i] >= out[i]
    BY <1>1, <1>2
  <1> QED BY <1>1, <1>6, <1>9, <1>10, <1>11

LEMMA NewMemSized ==
  ASSUME OwnersInv, SnapInv, NEW i \in Terms, file'[i] = file[i] \/ file'[i] = NoFile,
         out'[i] = out[i], mem'[i] = NewMem
  PROVE  Sized(i)'
PROOF
  <1>1. Sized(i) /\ out[i] \in Nat /\ Limit \in Nat
    BY ReplayConstants DEF SnapInv, OwnersInv
  <1>2. Run(<<>>, out[i]) /\ Within(<<>>, out[i]) /\ Len(<<>>) = 0
    BY <1>1, RunOfNone
  <1> DEFINE none == <<>>
  <1>3. mem'[i].buf = none /\ mem'[i].pending = none /\ mem'[i].saved = 0 /\ mem'[i].gen = 0
    BY DEF NewMem
  <1>4. Run(none, out[i]) /\ Within(none, out[i]) /\ Len(none) = 0 /\ NoFile = none
    BY <1>2 DEF NoFile
  <1> HIDE DEF none
  <1> QED BY <1>1, <1>3, <1>4 DEF Sized

LEMMA RestoredSized ==
  ASSUME OwnersInv, SnapInv, NEW i \in Terms, UNCHANGED <<file, out>>, mem'[i] = Restored(i)
  PROVE  Sized(i)'
PROOF
  <1>1. Sized(i) /\ out[i] \in Nat /\ file[i] \in Recording
    BY DEF SnapInv, OwnersInv
  <1>2. Run(<<>>, out[i])
    BY <1>1, RunOfNone
  <1> DEFINE none == <<>>
  <1>3. mem'[i].buf = file[i] /\ mem'[i].pending = none /\ mem'[i].saved = 0 /\ mem'[i].gen = 0
    BY DEF NewMem, Restored
  <1>4. Run(none, out[i])
    BY <1>2
  <1> HIDE DEF none
  <1> QED BY <1>1, <1>3, <1>4 DEF Sized

(* A snapshot just taken is fit to be written. *)
LEMMA SnapshotReady ==
  ASSUME OwnersInv, SnapInv, NEW i \in Terms, Due(i)
  PROVE  /\ Snapshot(i).term = i /\ Snapshot(i).life = life[i]
         /\ Ready(Snapshot(i))
PROOF
  <1> DEFINE s == Snapshot(i)
             r == Replaces(i)
  <1>1. /\ s.term = i /\ s.life = life[i] /\ s.pending = mem[i].pending /\ s.replace = r
        /\ (r => s.payload = mem[i].buf) /\ (~r => s.payload = mem[i].pending)
    BY DEF Snapshot
  <1>2. /\ mem[i].buf \in Recording /\ mem[i].pending \in Recording /\ file[i] \in Recording
        /\ out[i] \in Nat /\ r \in BOOLEAN /\ Limit \in Nat
    BY ReplayConstants DEF OwnersInv, InMemory, Replaces
  <1>3. Sized(i)
    BY DEF SnapInv
  <1>4. Within(mem[i].pending, out[i])
    BY <1>2, <1>3, RunWithin DEF Sized
  <1>5. ASSUME ~r PROVE Len(file[i]) + Len(mem[i].pending) <= Limit
    <2>1. ~(Len(file[i]) + Len(mem[i].pending) > Limit)
      BY <1>5 DEF Replaces
    <2>2. Len(file[i]) \in Nat /\ Len(mem[i].pending) \in Nat
      BY <1>2, LengthOf
    <2> DEFINE a == Len(file[i])
               b == Len(mem[i].pending)
    <2>3. a \in Nat /\ b \in Nat /\ Limit \in Nat /\ ~(a + b > Limit)
      BY <1>2, <2>1, <2>2
    <2> HIDE DEF a, b
    <2>4. a + b <= Limit
      BY <2>3
    <2> QED BY <2>4 DEF a, b
  <1> HIDE DEF s, r
  <1>6. Begins(s.pending, mem[i].pending)
    BY <1>1, <1>2, BeginsSelf
  <1>7. Within(s.payload, out[i])
    BY <1>1, <1>2, <1>3, <1>4 DEF Sized
  <1>8. s.replace => Len(s.payload) <= Limit
    BY <1>1, <1>3 DEF Sized
  <1>9. ~s.replace => s.payload = s.pending /\ Len(file[i]) + Len(s.payload) <= Limit
    BY <1>1, <1>5
  <1>10. Ready(s)
    BY <1>1, <1>6, <1>7, <1>8, <1>9 DEF Ready
  <1> QED BY <1>1, <1>10 DEF s

(* What is acknowledged is no longer waited for. *)
LEMMA SavedIs ==
  ASSUME OwnersInv, SnapInv, flush = "written"
  PROVE  LET m == Saved(mem[cur.term], cur)
             p == mem[cur.term].pending
         IN  /\ m.buf = mem[cur.term].buf /\ m.gen = mem[cur.term].gen
             /\ m.pending = SubSeq(p, Len(cur.pending) + 1, Len(p))
             /\ m.pending \in Recording
             /\ Len(m.pending) = Len(p) - Len(cur.pending)
             /\ \A k \in 1..(Len(p) - Len(cur.pending)) : m.pending[k] = p[Len(cur.pending) + k]
             /\ Run(m.pending, out[cur.term])
             /\ m.saved = IF cur.replace /\ m.gen = cur.gen THEN cur.gen ELSE mem[cur.term].saved
             /\ m.saved <= m.gen
             /\ Len(cur.pending) <= Len(p)
PROOF
  <1> DEFINE t == cur.term
             p == mem[t].pending
             l == Len(cur.pending)
             m == Saved(mem[t], cur)
  <1>1. cur \in ToWrite
    BY DEF OwnersInv, InThread
  <1>2. /\ t \in Terms /\ cur.pending \in Recording /\ cur.gen \in Nat /\ p \in Recording
        /\ mem[t].gen \in Nat /\ mem[t].saved \in Nat /\ out[t] \in Nat
    BY <1>1 DEF ToWrite, OwnersInv, InMemory
  <1>3. Begins(cur.pending, p) /\ Sized(t)
    BY <1>2 DEF SnapInv
  <1>4. IsPrefix(cur.pending, p)
    BY <1>2, <1>3, PrefixIs
  <1>5. l \in 0..Len(p)
    BY <1>2, <1>3, LengthOf DEF Begins
  <1>6. /\ m.buf = mem[t].buf /\ m.gen = mem[t].gen /\ m.pending = SubSeq(p, l + 1, Len(p))
        /\ m.saved = IF cur.replace /\ m.gen = cur.gen THEN cur.gen ELSE mem[t].saved
    BY <1>4 DEF Saved
  <1>7. /\ m.pending \in Recording /\ Len(m.pending) = Len(p) - l
        /\ \A k \in 1..(Len(p) - l) : m.pending[k] = p[l + k]
    BY <1>2, <1>5, <1>6, CutIs
  <1>8. Run(p, out[t]) /\ mem[t].saved <= mem[t].gen
    BY <1>3 DEF Sized
  <1>9. Run(m.pending, out[t])
    BY <1>2, <1>5, <1>6, <1>8, RunCut
  <1>10. m.saved <= m.gen
    BY <1>2, <1>6, <1>8
  <1>11. l <= Len(p)
    BY <1>2, <1>5, LengthOf
  <1> QED BY <1>6, <1>7, <1>9, <1>10, <1>11

(* The flush passes on the lock and has nothing in the thread. *)
LEMMA SnapLetsGo ==
  ASSUME OwnersInv, SnapInv, up, NEW rest, rest \subseteq todo, NEW n, Continue(rest, n),
         UNCHANGED <<up, open, life, file, out>>,
         \A i \in Terms : Sized(i)',
         \A i \in Terms : i \notin open => mem'[i] = NewMem,
         \A s \in rest : mem'[s.term] = mem[s.term]
  PROVE  SnapInv'
PROOF
  <1>1. todo' \subseteq todo /\ flush' \notin InThread
    BY DEF Continue, InThread
  <1>2. \A s \in todo' : s.life <= life'[s.term] /\ (Live(s)' => Ready(s)')
    BY <1>1 DEF SnapInv, Live, Ready, Continue
  <1> QED BY <1>1, <1>2 DEF SnapInv, InThread

LEMMA SnapStep ==
  ASSUME FlushInv, FlushInv', OwnersInv, OwnersInv', SnapInv, [Next]_vars
  PROVE  SnapInv'
PROOF
  <1>0. /\ \A i \in Terms : Sized(i) /\ mem[i].pending \in Recording /\ out[i] \in Nat /\ life[i] \in Nat
        /\ \A i \in Terms : Begins(mem[i].pending, mem[i].pending) /\ out[i] >= out[i] /\ life[i] >= life[i]
        /\ \A i \in Terms : i \notin open => mem[i] = NewMem
    <2>1. \A i \in Terms : Sized(i) /\ mem[i].pending \in Recording /\ out[i] \in Nat /\ life[i] \in Nat
      BY DEF SnapInv, OwnersInv, InMemory
    <2>2. \A i \in Terms : i \notin open => mem[i] = NewMem
      BY DEF SnapInv
    <2> QED BY <2>1, <2>2, BeginsSelf
  <1>1. ASSUME NEW i \in Terms, Record(i), up, UNCHANGED <<up, open, life, todo, cur, file>>,
               i \in open, flush' = flush \/ flush' \notin InThread
        PROVE  SnapInv'
    <2>1. /\ \A j \in Terms : Sized(j)'
          /\ \A j \in Terms : j # i => mem'[j] = mem[j]
          /\ \A j \in Terms : /\ Begins(mem[j].pending, mem'[j].pending)
                              /\ out'[j] >= out[j]
      BY <1>1, RecordGood
    <2>2. \A j \in Terms : j \notin open' => mem'[j] = NewMem
      BY <1>0, <1>1, <2>1
    <2>3. \A j \in Terms : Follows(j)
      BY <1>0, <1>1, <2>1 DEF Follows
    <2> QED BY <1>1, <2>1, <2>2, <2>3, SnapKept
  <1>2. ASSUME NEW i \in Terms, Output(i) \/ Start(i) PROVE SnapInv'
    <2>1. /\ Record(i) /\ up /\ i \in open /\ UNCHANGED <<up, open, life, todo, cur, file>>
          /\ flush' = flush \/ flush' \notin InThread
      BY <1>2 DEF Output, Start, Arm, InThread
    <2> QED BY <1>1, <2>1
  <1>3. ASSUME NEW i \in Terms, Input(i) \/ Exits(i) PROVE SnapInv'
    <2>1. /\ UNCHANGED <<up, open, mem, life, file, todo, cur, out>>
          /\ flush' = flush \/ (up /\ flush' \notin InThread)
      BY <1>3 DEF Input, Exits, Arm, InThread
    <2> QED BY <2>1, SnapSame
  <1>4. ASSUME NEW i \in Terms, Reattach(i) PROVE SnapInv'
    <2>1. CASE Record(i)
      <3>1. /\ up /\ i \in open /\ UNCHANGED <<up, open, life, todo, cur, file>>
            /\ flush' = flush \/ flush' \notin InThread
        BY <1>4 DEF Reattach, Arm, InThread
      <3> QED BY <1>1, <2>1, <3>1
    <2>2. CASE UNCHANGED <<mem, out, flush>>
      <3>1. UNCHANGED <<up, open, mem, life, file, todo, cur, out>> /\ flush' = flush
        BY <1>4, <2>2 DEF Reattach
      <3> QED BY <3>1, SnapSame
    <2> QED BY <1>4, <2>1, <2>2 DEF Reattach
  <1>5. ASSUME NEW i \in Terms, CloseBegins(i) PROVE SnapInv'
    <2>1. UNCHANGED <<up, open, mem, life, file, todo, cur, out, flush>>
      BY <1>5 DEF CloseBegins
    <2> QED BY <2>1, SnapSame
  <1>6. ASSUME NEW i \in Terms, NEW kept \in BOOLEAN, CloseEnds(i, kept) PROVE SnapInv'
    <2>1. /\ up /\ open' = open \ {i} /\ mem' = [mem EXCEPT ![i] = NewMem]
          /\ UNCHANGED <<up, todo, cur, file, out, life, flush>>
      BY <1>6 DEF CloseEnds
    <2>2. mem'[i] = NewMem /\ \A j \in Terms : j # i => mem'[j] = mem[j]
      BY <2>1 DEF OwnersInv
    <2>3. \A j \in Terms : Sized(j)'
      <3>1. Sized(i)'
        BY <2>1, <2>2, NewMemSized
      <3>2. \A j \in Terms : j # i => Sized(j)'
        BY <1>0, <2>1, <2>2 DEF Sized
      <3> QED BY <3>1, <3>2
    <2>4. \A j \in Terms : j \notin open' => mem'[j] = NewMem
      BY <1>0, <2>1, <2>2
    <2>5. \A j \in Terms : Follows(j)
      <3>1. ASSUME NEW j \in Terms, j \in open' PROVE Follows(j)
        <4>1. j # i /\ j \in open /\ mem'[j] = mem[j]
          BY <2>1, <2>2, <3>1
        <4> QED BY <1>0, <2>1, <3>1, <4>1 DEF Follows
      <3> QED BY <1>0, <2>1, <3>1 DEF Follows
    <2> QED BY <2>1, <2>3, <2>4, <2>5, SnapKept
  <1>7. ASSUME NEW i \in Terms, Reopen(i) PROVE SnapInv'
    <2>1. /\ up /\ i \in closed /\ open' = open \cup {i} /\ life' = [life EXCEPT ![i] = @ + 1]
          /\ UNCHANGED <<up, todo, cur, file, flush>>
      BY <1>7 DEF Reopen
    <2>2. /\ Recorded(mem'[i], file[i], out[i] + 1, 0)
          /\ mem'[i].pending = <<out[i] + 1>> /\ mem'[i].saved = 0 /\ out'[i] = out[i] + 1
          /\ \A j \in Terms : j # i => mem'[j] = mem[j] /\ out'[j] = out[j]
      BY <1>7, ReopenIs
    <2>3. /\ \A j \in Terms : j # i => life'[j] = life[j]
          /\ life'[i] = life[i] + 1 /\ life[i] \in Nat
      BY <2>1 DEF OwnersInv
    <2>4. Sized(i)'
      <3>1. /\ file[i] \in Recording /\ mem'[i].buf \in Recording /\ out[i] \in Nat
            /\ mem'[i].gen \in Nat
        BY DEF OwnersInv, InMemory
      <3>2. Sized(i)
        BY <1>0
      <3>3. PICK d \in Nat : Grown(mem'[i].buf, file[i], out[i] + 1, d)
        BY <2>2 DEF Recorded
      <3>4. Within(mem'[i].buf, out[i] + 1) /\ Len(mem'[i].buf) <= Limit
        <4>1. Within(file[i], out[i])
          BY <3>2 DEF Sized
        <4> QED BY <3>1, <3>3, <4>1, GrownWithin
      <3>5. Within(file[i], out[i] + 1)
        BY <3>1, <3>2, LengthOf DEF Sized, Within
      <3>6. Run(mem'[i].pending, out[i] + 1)
        BY <2>2, <3>1, RunOfOne
      <3>7. mem'[i].saved <= mem'[i].gen
        BY <2>2, <3>1
      <3> QED BY <2>1, <2>2, <3>2, <3>4, <3>5, <3>6, <3>7 DEF Sized
    <2>5. \A j \in Terms : Sized(j)'
      <3>1. ASSUME NEW j \in Terms, j # i PROVE Sized(j)'
        BY <1>0, <2>1, <2>2, <3>1 DEF Sized
      <3> QED BY <2>4, <3>1
    <2>6. \A j \in Terms : j \notin open' => mem'[j] = NewMem
      BY <1>0, <2>1, <2>2
    <2>7. ASSUME NEW j \in Terms PROVE Follows(j)
      <3>1. CASE j = i
        BY <2>3, <3>1 DEF Follows
      <3>2. CASE j # i
        <4>1. mem'[j] = mem[j] /\ out'[j] = out[j] /\ life'[j] = life[j] /\ (j \in open' <=> j \in open)
          BY <2>1, <2>2, <2>3, <3>2
        <4> QED BY <1>0, <4>1 DEF Follows
      <3> QED BY <3>1, <3>2
    <2> QED BY <2>1, <2>5, <2>6, <2>7, SnapKept
  <1>8. ASSUME NEW i \in Terms, Purge(i) PROVE SnapInv'
    <2>1. UNCHANGED <<up, open, mem, life, file, todo, cur, out, flush>>
      BY <1>8 DEF Purge
    <2> QED BY <2>1, SnapSame
  <1>9. CASE FlushBegins
    <2>1. /\ todo' = Snapshots /\ flush' \notin InThread /\ flush = "armed"
          /\ UNCHANGED <<up, open, mem, life, file, out, cur>>
      BY <1>9 DEF FlushBegins, InThread
    <2>2. up
      BY <2>1 DEF SnapInv
    <2>3. \A s \in todo' : \E i \in Terms : Due(i) /\ s = Snapshot(i)
      BY <2>1 DEF Snapshots
    <2>4. \A s \in todo' : s.term \in Terms /\ s = Snapshot(s.term) /\ s.life = life[s.term] /\ Ready(s)
      BY <2>3, SnapshotReady
    <2>5. \A s \in todo' : s.life <= life'[s.term] /\ Ready(s)'
      BY <1>0, <2>1, <2>4 DEF Ready
    <2>6. \A s, t \in todo' : s.term = t.term => s = t
      BY <2>4
    <2>7. \A i \in Terms : Sized(i)'
      BY <1>0, <2>1 DEF Sized
    <2> QED BY <1>0, <2>1, <2>2, <2>5, <2>6, <2>7 DEF SnapInv, InThread
  <1>10. ASSUME NEW s \in todo, FlushSkips(s) PROVE SnapInv'
    <2>1. /\ flush = "locking" /\ UNCHANGED <<up, open, mem, life, file, out>>
          /\ Continue(todo \ {s}, written)
      BY <1>10 DEF FlushSkips
    <2>2. up
      BY <2>1 DEF SnapInv
    <2>3. \A i \in Terms : Sized(i)'
      BY <1>0, <2>1 DEF Sized
    <2> QED BY <1>0, <2>1, <2>2, <2>3, SnapLetsGo
  <1>11. ASSUME NEW s \in todo, FlushWrites(s) PROVE SnapInv'
    <2>1. /\ flush = "locking" /\ flush' = "writing" /\ cur' = s /\ todo' = todo \ {s}
          /\ UNCHANGED <<up, open, mem, life, file, out>> /\ StillThere(s)
      BY <1>11 DEF FlushWrites
    <2>2. up
      BY <2>1 DEF SnapInv
    <2>3. Ready(s)
      BY <2>1 DEF SnapInv, Live, StillThere
    <2>4. \A t \in todo' : t.term # cur'.term
      BY <2>1 DEF SnapInv
    <2>5. Ready(cur)'
      BY <2>1, <2>3 DEF Ready
    <2>6. \A t \in todo' : t.life <= life'[t.term] /\ (Live(t)' => Ready(t)')
      BY <2>1 DEF SnapInv, Live, Ready
    <2>7. \A i \in Terms : Sized(i)'
      BY <1>0, <2>1 DEF Sized
    <2>8. \A t, u \in todo' : t.term = u.term => t = u
      BY <2>1 DEF SnapInv
    <2> QED BY <1>0, <2>1, <2>2, <2>4, <2>5, <2>6, <2>7, <2>8 DEF SnapInv
  <1>12. CASE ThreadWrites
    <2>1. /\ flush = "writing" /\ flush' \in {"written", "failed"}
          /\ UNCHANGED <<up, open, mem, life, todo, cur, out>>
          /\ file' = WholeWrite(cur) \/ file' \in TornWrites(cur) \/ file' = file
      BY <1>12 DEF ThreadWrites
    <2>2. up
      BY <2>1 DEF SnapInv
    <2>3. \A j \in Terms : /\ j # cur.term => file'[j] = file[j]
                           /\ Within(file'[j], out[j]) /\ Len(file'[j]) <= Limit
      BY <2>1, WritesAre
    <2>4. \A i \in Terms : Sized(i)'
      BY <1>0, <2>1, <2>3 DEF Sized
    <2>5. ASSUME NEW s \in todo PROVE s.life <= life'[s.term] /\ (Live(s)' => Ready(s)')
      <3>1. s.term \in Terms /\ s.term # cur.term
        BY <2>1 DEF SnapInv, InThread, OwnersInv, ToWrite
      <3>2. file'[s.term] = file[s.term]
        BY <2>3, <3>1
      <3> QED BY <2>1, <3>2 DEF SnapInv, Live, Ready
    <2>6. Begins(cur.pending, mem[cur.term].pending)
      BY <2>1 DEF SnapInv, Ready
    <2>7. \A s \in todo : s.term # cur.term
      BY <2>1 DEF SnapInv, InThread
    <2>8. \A s, t \in todo : s.term = t.term => s = t
      BY DEF SnapInv
    <2> QED BY <1>0, <2>1, <2>2, <2>4, <2>5, <2>6, <2>7, <2>8 DEF SnapInv
  <1>13. CASE FlushRecords
    <2>1. /\ flush \in {"written", "failed"} /\ UNCHANGED <<up, open, life, file, out>>
          /\ mem' = IF flush = "written" THEN [mem EXCEPT ![cur.term] = Saved(@, cur)] ELSE mem
          /\ Continue(todo, IF flush = "written" THEN written + 1 ELSE written)
      BY <1>13 DEF FlushRecords
    <2>2. up
      BY <2>1 DEF SnapInv
    <2>3. PICK t \in Terms : t = cur.term /\ t \in open
      BY <2>1 DEF OwnersInv, InThread, ToWrite, FlushInv, WriterOwns
    <2>4. \A j \in Terms : j # t => mem'[j] = mem[j]
      BY <2>1, <2>3 DEF OwnersInv
    <2>5. Sized(t)'
      <3>1. CASE flush = "written"
        <4> DEFINE m == Saved(mem[t], cur)
        <4>1. m.buf = mem[t].buf /\ m.gen = mem[t].gen
              /\ Run(m.pending, out[t]) /\ m.saved <= m.gen
          BY <2>3, <3>1, SavedIs
        <4>2. mem'[t] = m
          BY <2>1, <2>3, <3>1 DEF OwnersInv
        <4>3. Sized(t)
          BY <1>0
        <4> HIDE DEF m
        <4> QED BY <2>1, <4>1, <4>2, <4>3 DEF Sized
      <3>2. CASE flush # "written"
        BY <1>0, <2>1, <3>2 DEF Sized
      <3> QED BY <3>1, <3>2
    <2>6. \A j \in Terms : Sized(j)'
      BY <1>0, <2>1, <2>4, <2>5 DEF Sized
    <2>7. \A s \in todo : mem'[s.term] = mem[s.term]
      BY <2>1, <2>3, <2>4 DEF SnapInv, InThread, OwnersInv, ToWrite
    <2>8. \A i \in Terms : i \notin open => mem'[i] = NewMem
      BY <1>0, <2>3, <2>4
    <2> QED BY <2>1, <2>2, <2>6, <2>7, <2>8, SnapLetsGo
  <1>14. CASE SweepBegins \/ SweepReadsOpen \/ SweepReadsClosed
    <2>1. UNCHANGED <<up, open, mem, life, file, todo, cur, out, flush>>
      BY <1>14 DEF SweepBegins, SweepReadsOpen, SweepReadsClosed
    <2> QED BY <2>1, SnapSame
  <1>15. CASE SweepEnds
    <2>1. UNCHANGED <<up, open, mem, life, todo, cur, out, flush>>
      BY <1>15 DEF SweepEnds
    <2>2. \A i \in Terms : file'[i] = file[i] \/ file'[i] = NoFile
      BY <1>15 DEF SweepEnds
    <2>3. ASSUME NEW i \in Terms
          PROVE  Within(file'[i], out[i]) /\ Len(file'[i]) <= Len(file[i]) /\ Len(file[i]) <= Limit
                 /\ Len(file[i]) \in Nat /\ Len(file'[i]) \in Nat
      <3>1. file[i] \in Recording /\ file'[i] \in Recording
        BY DEF OwnersInv
      <3>2. Within(file[i], out[i]) /\ Len(file[i]) <= Limit
        BY <1>0 DEF Sized
      <3>3. Within(NoFile, out[i]) /\ Len(NoFile) = 0
        BY <1>0, RunOfNone DEF NoFile
      <3> QED BY <2>2, <3>1, <3>2, <3>3, LengthOf
    <2>4. \A i \in Terms : Sized(i)'
      <3> SUFFICES ASSUME NEW i \in Terms PROVE Sized(i)'
        OBVIOUS
      <3>1. Sized(i) /\ Limit \in Nat
        BY <1>0, ReplayConstants
      <3>2. Len(file'[i]) <= Limit
        BY <2>3, <3>1
      <3> QED BY <2>1, <2>3, <3>1, <3>2 DEF Sized
    <2>5. ASSUME NEW s \in ToWrite, Ready(s) PROVE Ready(s)'
      <3> DEFINE a == Len(file[s.term])
                 b == Len(s.payload)
                 a2 == Len(file'[s.term])
      <3>1. s.term \in Terms /\ s.payload \in Recording
        BY DEF ToWrite
      <3>2. a \in Nat /\ a2 \in Nat /\ a2 <= a /\ b \in Nat /\ Limit \in Nat
        BY <2>3, <3>1, LengthOf, ReplayConstants
      <3>3. ~s.replace => a + b <= Limit
        BY <2>5 DEF Ready
      <3> HIDE DEF a, b, a2
      <3>4. ~s.replace => a2 + b <= Limit
        BY <3>2, <3>3
      <3> QED BY <2>1, <2>5, <3>4 DEF Ready, a2, b
    <2>6. \A s \in todo : s \in ToWrite /\ s.life <= life'[s.term] /\ (Live(s)' => Ready(s)')
      BY <2>1, <2>5 DEF SnapInv, OwnersInv, Live
    <2>7. flush \notin InThread
      BY <1>15, WaitersDiffer DEF SweepEnds, FlushInv, WriterOwns, InThread, Holds
    <2> QED BY <2>1, <2>4, <2>6, <2>7 DEF SnapInv, InThread
  <1>16. CASE ServerDies
    <2>1. /\ up' = FALSE /\ flush' = "none" /\ todo' = {} /\ mem' = [i \in Terms |-> NewMem]
          /\ UNCHANGED <<open, life, out>>
          /\ file' = file \/ (flush = "writing" /\ (file' = WholeWrite(cur) \/ file' \in TornWrites(cur)))
      BY <1>16 DEF ServerDies
    <2>2. \A i \in Terms : Within(file'[i], out[i]) /\ Len(file'[i]) <= Limit
      <3>1. CASE file' = file
        BY <1>0, <3>1 DEF Sized
      <3>2. CASE file' # file
        BY <2>1, <3>2, WritesAre
      <3> QED BY <3>1, <3>2
    <2>3. ASSUME NEW i \in Terms PROVE Sized(i)'
      <3> DEFINE none == <<>>
      <3>1. Run(none, out[i]) /\ Within(none, out[i]) /\ Len(none) = 0 /\ Limit \in Nat
        BY <1>0, RunOfNone, ReplayConstants
      <3>2. mem'[i].buf = none /\ mem'[i].pending = none /\ mem'[i].saved = 0 /\ mem'[i].gen = 0
        BY <2>1 DEF NewMem
      <3> HIDE DEF none
      <3> QED BY <2>1, <2>2, <3>1, <3>2 DEF Sized
    <2> QED BY <2>1, <2>3 DEF SnapInv, InThread
  <1>17. CASE ServerStarts
    <2>1. /\ up' = TRUE /\ ~up /\ UNCHANGED <<open, life, file, flush, todo, cur, out>>
          /\ mem' = [i \in Terms |-> IF i \in open THEN Restored(i) ELSE NewMem]
      BY <1>17 DEF ServerStarts
    <2>2. flush = "none" /\ todo = {}
      BY <2>1 DEF SnapInv
    <2>3. ASSUME NEW i \in Terms PROVE Sized(i)'
      BY <2>1, RestoredSized, NewMemSized
    <2> QED BY <2>1, <2>2, <2>3 DEF SnapInv, InThread
  <1>18. CASE UNCHANGED vars
    BY <1>18, SnapSame DEF vars
  <1> QED
    BY <1>2, <1>3, <1>4, <1>5, <1>6, <1>7, <1>8, <1>9, <1>10, <1>11, <1>12, <1>13, <1>14,
       <1>15, <1>16, <1>17, <1>18 DEF Next, Flush, Sweep, Close

(* The rest of the types. *)
KindsInv ==
  /\ up \in BOOLEAN /\ state \in [Terms -> States]
  /\ IsFiniteSet(closed) /\ Cardinality(closed) <= HistoryMax
  /\ flush \in {"none", "armed", "locking", "writing", "written", "failed"}
  /\ sweep \in {"none", "waiting", "half", "read"} /\ keep \subseteq Terms
  /\ written \in Nat /\ fails \in Nat /\ deaths \in Nat /\ fails + deaths <= MaxTroubles
  /\ \A i \in Terms : lost[i] \subseteq 1..out[i]
  /\ lost \in [Terms -> SUBSET Nat]

(* The history never holds more than its limit. *)
LEMMA PushedFits ==
  ASSUME NEW i, IsFiniteSet(closed), Cardinality(closed) <= HistoryMax, NEW S \in Pushed(i)
  PROVE  IsFiniteSet(S) /\ Cardinality(S) <= HistoryMax
PROOF
  <1>1. HistoryMax \in Nat /\ Cardinality(closed) \in Nat
    BY ReplayConstants, FS_CardinalityType
  <1>2. \A T, x : IsFiniteSet(T) => IsFiniteSet(T \cup {x}) /\ Cardinality(T \cup {x}) \in Nat
                                    /\ Cardinality(T \cup {x}) <= Cardinality(T) + 1
    <2> SUFFICES ASSUME NEW T, NEW x, IsFiniteSet(T)
                 PROVE  IsFiniteSet(T \cup {x}) /\ Cardinality(T \cup {x}) \in Nat
                        /\ Cardinality(T \cup {x}) <= Cardinality(T) + 1
      OBVIOUS
    <2>1. /\ IsFiniteSet(T \cup {x})
          /\ Cardinality(T \cup {x}) = IF x \in T THEN Cardinality(T) ELSE Cardinality(T) + 1
      BY FS_AddElement
    <2>2. Cardinality(T) \in Nat
      BY FS_CardinalityType
    <2> QED BY <2>1, <2>2
  <1>3. CASE Cardinality(closed) < HistoryMax
    <2>1. S = closed \cup {i}
      BY <1>3 DEF Pushed
    <2>2. IsFiniteSet(S) /\ Cardinality(S) \in Nat /\ Cardinality(S) <= Cardinality(closed) + 1
      BY <1>2, <2>1
    <2>3. Cardinality(S) <= HistoryMax
      BY <1>1, <1>3, <2>2
    <2> QED BY <2>2, <2>3
  <1>4. CASE ~(Cardinality(closed) < HistoryMax)
    <2>1. PICK j \in closed : S = (closed \ {j}) \cup {i}
      BY <1>4 DEF Pushed
    <2>2. IsFiniteSet(closed \ {j}) /\ Cardinality(closed \ {j}) = Cardinality(closed) - 1
      BY FS_RemoveElement
    <2>3. IsFiniteSet(S) /\ Cardinality(S) \in Nat /\ Cardinality(S) <= Cardinality(closed \ {j}) + 1
      BY <1>2, <2>1, <2>2
    <2>4. Cardinality(S) <= Cardinality(closed)
      BY <1>1, <2>2, <2>3
    <2> QED BY <1>1, <2>3, <2>4
  <1> QED BY <1>3, <1>4

(* What dies in memory was printed. *)
LEMMA PendingPrinted ==
  ASSUME OwnersInv, SnapInv, NEW i \in Terms
  PROVE  ToSet(mem[i].pending) \subseteq 1..out[i] /\ ToSet(mem[i].pending) \subseteq Nat
PROOF
  <1>1. mem[i].pending \in Recording /\ out[i] \in Nat /\ Run(mem[i].pending, out[i])
    BY DEF OwnersInv, InMemory, SnapInv, Sized
  <1>2. Within(mem[i].pending, out[i])
    BY <1>1, RunWithin
  <1>3. ToSet(mem[i].pending) = {mem[i].pending[k] : k \in 1..Len(mem[i].pending)}
    BY <1>1, LengthOf DEF ToSet
  <1>4. ToSet(mem[i].pending) \subseteq 1..out[i]
    BY <1>2, <1>3 DEF Within
  <1> QED BY <1>1, <1>4

(* The steps that leave the history and what was lost alone. *)
LEMMA KindsKept ==
  ASSUME OwnersInv, OwnersInv', KindsInv, UNCHANGED <<closed, lost>>,
         up' \in BOOLEAN, state' \in [Terms -> States],
         flush' \in {"none", "armed", "locking", "writing", "written", "failed"},
         sweep' \in {"none", "waiting", "half", "read"}, keep' \subseteq Terms, written' \in Nat,
         fails' \in Nat, deaths' \in Nat, fails' + deaths' <= MaxTroubles,
         \A i \in Terms : out'[i] >= out[i]
  PROVE  KindsInv'
PROOF
  <1>1. \A i \in Terms : out[i] \in Nat /\ out'[i] \in Nat
    BY DEF OwnersInv
  <1>2. \A i \in Terms : lost'[i] \subseteq 1..out'[i]
    BY <1>1 DEF KindsInv
  <1> QED BY <1>2 DEF KindsInv

LEMMA KindsStep ==
  ASSUME OwnersInv, OwnersInv', FlushInv, SnapInv, KindsInv, [Next]_vars
  PROVE  KindsInv'
PROOF
  <1>0. /\ \A i \in Terms : out[i] \in Nat /\ out'[i] \in Nat /\ out[i] >= out[i]
        /\ up \in BOOLEAN /\ state \in [Terms -> States]
        /\ flush \in {"none", "armed", "locking", "writing", "written", "failed"}
        /\ sweep \in {"none", "waiting", "half", "read"} /\ keep \subseteq Terms
        /\ written \in Nat /\ fails \in Nat /\ deaths \in Nat /\ fails + deaths <= MaxTroubles
        /\ MaxTroubles \in Nat /\ open \subseteq Terms /\ closed \subseteq Terms
    BY ReplayConstants DEF OwnersInv, KindsInv
  <1>1. \A i \in Terms : Record(i) => \A j \in Terms : out'[j] >= out[j]
    <2> SUFFICES ASSUME NEW i \in Terms, Record(i), NEW j \in Terms PROVE out'[j] >= out[j]
      OBVIOUS
    <2>1. out'[i] = out[i] + 1 /\ (j # i => out'[j] = out[j])
      BY RecordIs
    <2> QED BY <1>0, <2>1
  <1>2. ASSUME NEW i \in Terms, Output(i) \/ Start(i) \/ Reattach(i) \/ Input(i) \/ Exits(i)
        PROVE  KindsInv'
    <2>1. UNCHANGED <<closed, lost, up, sweep, keep, written, fails, deaths>>
      BY <1>2 DEF Output, Start, Reattach, Input, Exits
    <2>2. flush' = flush \/ flush' = "armed"
      BY <1>2 DEF Output, Start, Reattach, Input, Exits, Arm
    <2>3. state' \in [Terms -> States]
      BY <1>0, <1>2 DEF Output, Start, Reattach, Input, Exits, States
    <2>4. Record(i) \/ UNCHANGED out
      BY <1>2 DEF Output, Start, Reattach, Input, Exits
    <2>5. \A j \in Terms : out'[j] >= out[j]
      BY <1>0, <1>1, <2>4
    <2> QED BY <1>0, <2>1, <2>2, <2>3, <2>5, KindsKept
  <1>3. ASSUME NEW i \in Terms, CloseBegins(i) PROVE KindsInv'
    <2>1. /\ UNCHANGED <<closed, lost, up, sweep, keep, written, fails, deaths, flush, out>>
          /\ state' = [state EXCEPT ![i] = "off"]
      BY <1>3 DEF CloseBegins
    <2>2. state' \in [Terms -> States]
      BY <1>0, <2>1 DEF States
    <2> QED BY <1>0, <2>1, <2>2, KindsKept
  <1>4. ASSUME NEW i \in Terms, NEW kept \in BOOLEAN, CloseEnds(i, kept) PROVE KindsInv'
    <2>1. /\ UNCHANGED <<up, state, flush, written, sweep, keep, out, fails, deaths>>
          /\ closed' \in (IF kept THEN Pushed(i) ELSE {closed})
          /\ lost' = [lost EXCEPT ![i] = @ \cup ToSet(mem[i].pending)]
      BY <1>4 DEF CloseEnds
    <2>2. IsFiniteSet(closed') /\ Cardinality(closed') <= HistoryMax
      <3>1. CASE closed' \in Pushed(i)
        BY <3>1, PushedFits DEF KindsInv
      <3>2. CASE closed' = closed
        BY <3>2 DEF KindsInv
      <3> QED BY <2>1, <3>1, <3>2
    <2>3. lost' \in [Terms -> SUBSET Nat] /\ \A j \in Terms : lost'[j] \subseteq 1..out[j]
      BY <2>1, PendingPrinted DEF KindsInv
    <2> QED BY <2>1, <2>2, <2>3 DEF KindsInv
  <1>5. ASSUME NEW i \in Terms, Reopen(i) PROVE KindsInv'
    <2>1. /\ closed' = closed \ {i} /\ UNCHANGED <<up, flush, written, sweep, keep, lost, fails, deaths>>
          /\ state' = [state EXCEPT ![i] = "started"] /\ i \in closed
      BY <1>5 DEF Reopen
    <2>2. IsFiniteSet(closed') /\ Cardinality(closed') <= HistoryMax
      <3>1. IsFiniteSet(closed) /\ Cardinality(closed) <= HistoryMax /\ HistoryMax \in Nat
        BY ReplayConstants DEF KindsInv
      <3>2. IsFiniteSet(closed') /\ Cardinality(closed') = Cardinality(closed) - 1
        BY <2>1, <3>1, FS_RemoveElement
      <3>3. Cardinality(closed) \in Nat
        BY <3>1, FS_CardinalityType
      <3> QED BY <3>1, <3>2, <3>3
    <2>3. state' \in [Terms -> States]
      BY <1>0, <2>1 DEF States
    <2>4. out'[i] = out[i] + 1 /\ \A j \in Terms : j # i => out'[j] = out[j]
      BY <1>5, ReopenIs
    <2>5. ASSUME NEW j \in Terms PROVE lost'[j] \subseteq 1..out'[j]
      <3>1. lost[j] \subseteq 1..out[j]
        BY DEF KindsInv
      <3>2. out'[j] = out[j] \/ out'[j] = out[j] + 1
        BY <2>4
      <3> QED BY <1>0, <2>1, <3>1, <3>2
    <2> QED BY <2>1, <2>2, <2>3, <2>5 DEF KindsInv
  <1>6. ASSUME NEW i \in Terms, Purge(i) PROVE KindsInv'
    <2>1. /\ closed' = closed \ {i} /\ i \in closed
          /\ UNCHANGED <<up, state, flush, written, sweep, keep, lost, out, fails, deaths>>
      BY <1>6 DEF Purge
    <2>2. IsFiniteSet(closed') /\ Cardinality(closed') <= HistoryMax
      <3>1. IsFiniteSet(closed) /\ Cardinality(closed) <= HistoryMax /\ HistoryMax \in Nat
        BY ReplayConstants DEF KindsInv
      <3>2. IsFiniteSet(closed') /\ Cardinality(closed') = Cardinality(closed) - 1
        BY <2>1, <3>1, FS_RemoveElement
      <3>3. Cardinality(closed) \in Nat
        BY <3>1, FS_CardinalityType
      <3> QED BY <3>1, <3>2, <3>3
    <2> QED BY <2>1, <2>2 DEF KindsInv
  <1>7. CASE FlushBegins
    <2>1. /\ UNCHANGED <<closed, lost, up, state, sweep, keep, written, fails, deaths, out>>
          /\ flush' \in {"none", "locking"}
      BY <1>7 DEF FlushBegins
    <2> QED BY <1>0, <2>1, KindsKept
  <1>8. ASSUME NEW rest, NEW n \in Nat, Continue(rest, n),
               UNCHANGED <<up, state, closed, sweep, keep, lost, out, fails, deaths>>
        PROVE  KindsInv'
    <2>1. flush' \in {"none", "armed", "locking"} /\ written' \in Nat
      BY <1>8 DEF Continue
    <2> QED BY <1>0, <1>8, <2>1, KindsKept
  <1>9. ASSUME NEW s \in todo, FlushSkips(s) PROVE KindsInv'
    BY <1>0, <1>8, <1>9 DEF FlushSkips
  <1>10. ASSUME NEW s \in todo, FlushWrites(s) PROVE KindsInv'
    <2>1. /\ UNCHANGED <<closed, lost, up, state, sweep, keep, written, fails, deaths, out>>
          /\ flush' = "writing"
      BY <1>10 DEF FlushWrites
    <2> QED BY <1>0, <2>1, KindsKept
  <1>11. CASE ThreadWrites
    <2>1. /\ UNCHANGED <<closed, lost, up, state, sweep, keep, written, deaths, out>>
          /\ flush' \in {"written", "failed"}
          /\ fails' = fails \/ (fails + deaths < MaxTroubles /\ fails' = fails + 1)
      BY <1>11 DEF ThreadWrites
    <2>2. fails' \in Nat /\ fails' + deaths' <= MaxTroubles
      BY <1>0, <2>1
    <2> QED BY <1>0, <2>1, <2>2, KindsKept
  <1>12. CASE FlushRecords
    <2>1. /\ UNCHANGED <<closed, lost, up, state, sweep, keep, fails, deaths, out>>
          /\ Continue(todo, IF flush = "written" THEN written + 1 ELSE written)
      BY <1>12 DEF FlushRecords
    <2>2. (IF flush = "written" THEN written + 1 ELSE written) \in Nat
      BY <1>0
    <2> QED BY <1>8, <2>1, <2>2
  <1>13. CASE SweepBegins \/ Sweep
    <2>1. /\ UNCHANGED <<closed, lost, up, state, written, fails, deaths, out, flush>>
          /\ sweep' \in {"none", "waiting", "half", "read"}
      BY <1>13 DEF SweepBegins, Sweep, SweepReadsOpen, SweepReadsClosed, SweepEnds
    <2>2. keep' \subseteq Terms
      BY <1>0, <1>13 DEF SweepBegins, Sweep, SweepReadsOpen, SweepReadsClosed, SweepEnds, Owners
    <2> QED BY <1>0, <2>1, <2>2, KindsKept
  <1>14. CASE ServerDies
    <2>1. /\ up' = FALSE /\ flush' = "none" /\ written' = 0 /\ sweep' = "none" /\ keep' = {}
          /\ state' = [i \in Terms |-> IF Running(i) THEN "detached" ELSE "off"]
          /\ lost' = [i \in Terms |-> lost[i] \cup ToSet(mem[i].pending)]
          /\ fails + deaths < MaxTroubles /\ deaths' = deaths + 1
          /\ UNCHANGED <<closed, out, fails>>
      BY <1>14 DEF ServerDies
    <2>2. lost' \in [Terms -> SUBSET Nat] /\ \A j \in Terms : lost'[j] \subseteq 1..out[j]
      BY <2>1, PendingPrinted DEF KindsInv
    <2>3. deaths' \in Nat /\ fails' + deaths' <= MaxTroubles
      BY <1>0, <2>1
    <2>4. state' \in [Terms -> States]
      BY <2>1 DEF States
    <2> QED BY <1>0, <2>1, <2>2, <2>3, <2>4 DEF KindsInv
  <1>15. CASE ServerStarts
    <2>1. UNCHANGED <<closed, lost, state, sweep, keep, written, fails, deaths, out, flush>>
          /\ up' = TRUE
      BY <1>15 DEF ServerStarts
    <2> QED BY <1>0, <2>1, KindsKept
  <1>16. CASE UNCHANGED vars
    BY <1>16 DEF vars, KindsInv
  <1> QED
    BY <1>2, <1>3, <1>4, <1>5, <1>6, <1>7, <1>9, <1>10, <1>11, <1>12, <1>13, <1>14,
       <1>15, <1>16 DEF Next, Flush, Close

LEMMA WithinIsSeq ==
  ASSUME NEW s \in Recording, NEW o \in Nat, Within(s, o)
  PROVE  s \in Seq(1..o)
PROOF
  <1>1. Len(s) \in Nat /\ s \in [1..Len(s) -> Nat]
    BY DEF Recording
  <1>2. s \in [1..Len(s) -> 1..o]
    BY <1>1 DEF Within
  <1> QED BY <1>1, <1>2

LEMMA InitSized ==
  Init => FlushInv /\ OwnersInv /\ SnapInv /\ KindsInv
PROOF
  <1> SUFFICES ASSUME Init PROVE FlushInv /\ OwnersInv /\ SnapInv /\ KindsInv
    OBVIOUS
  <1> DEFINE none == <<>>
             one == <<1>>
  <1>1. /\ none \in Recording /\ one \in Recording /\ Len(none) = 0 /\ Len(one) = 1 /\ one[1] = 1
        /\ Limit \in Nat /\ Limit >= 1 /\ HistoryMax \in Nat /\ MaxTroubles \in Nat
    BY ReplayConstants DEF Recording
  <1>2. /\ up = TRUE /\ open = Terms /\ closed = {} /\ state = [i \in Terms |-> "started"]
        /\ mem = [i \in Terms |-> [buf |-> one, pending |-> one, gen |-> 0, saved |-> 0]]
        /\ life = [i \in Terms |-> 0] /\ file = [i \in Terms |-> none]
        /\ flush = "none" /\ todo = {} /\ written = 0 /\ line = none /\ sweep = "none" /\ keep = {}
        /\ out = [i \in Terms |-> 1] /\ lost = [i \in Terms |-> {}] /\ fails = 0 /\ deaths = 0
    BY DEF Init, NoFile
  <1>3. line \in Seq(Waiters)
    BY DEF Init
  <1> HIDE DEF none, one
  <1>4. FlushInv
    BY <1>2, <1>3 DEF FlushInv, WriterOwns
  <1>5. OwnersInv
    BY <1>1, <1>2 DEF OwnersInv, InMemory, InThread
  <1>6. ASSUME NEW i \in Terms PROVE Sized(i)
    <2>1. /\ mem[i].buf = one /\ mem[i].pending = one /\ mem[i].gen = 0 /\ mem[i].saved = 0
          /\ file[i] = none /\ out[i] = 1
      BY <1>2
    <2>2. Within(none, 1) /\ Within(one, 1) /\ Run(one, 1)
      BY <1>1 DEF Within, Run
    <2>3. Len(none) <= Limit /\ Len(one) <= Limit
      BY <1>1
    <2>4. mem[i].saved <= mem[i].gen
      BY <2>1
    <2> QED BY <2>1, <2>2, <2>3, <2>4 DEF Sized
  <1>7. SnapInv
    BY <1>2, <1>6 DEF SnapInv, InThread
  <1>8. IsFiniteSet(closed) /\ Cardinality(closed) = 0
    BY <1>2, FS_EmptySet
  <1>9. KindsInv
    BY <1>1, <1>2, <1>8 DEF KindsInv, States
  <1> QED BY <1>4, <1>5, <1>7, <1>9

SizedInv == FlushInv /\ OwnersInv /\ SnapInv /\ KindsInv

LEMMA SizedStep == SizedInv /\ [Next]_vars => SizedInv'
BY FlushStep, OwnersStep, SnapStep, KindsStep DEF SizedInv

(* scrollback limits, CLOSED_HISTORY_MAX and _record_checkpoint_success: every
   variable has its type, so no recording in memory or on disk is longer than
   the limit or holds what the terminal did not print, and the history never
   holds more than its own, whatever fails and whatever falls between the
   choice to append and the append. *)
THEOREM RecordingTypes == Spec => []TypeOK
PROOF
  <1>1. Init => SizedInv
    BY InitSized DEF SizedInv
  <1>2. SizedInv => TypeOK
    <2> SUFFICES ASSUME SizedInv PROVE TypeOK
      OBVIOUS
    <2>1. /\ closed \subseteq Terms \ open /\ open \subseteq Terms /\ Cardinality(closed) <= HistoryMax
      BY DEF SizedInv, FlushInv, OwnersInv, KindsInv
    <2>2. ASSUME NEW i \in Terms
          PROVE  /\ mem[i].buf \in Seq(1..out[i]) /\ Len(mem[i].buf) <= Limit
                 /\ mem[i].pending \in Seq(1..out[i])
                 /\ mem[i].saved \in 0..mem[i].gen
                 /\ file[i] \in Seq(1..out[i])
                 /\ lost[i] \subseteq 1..out[i]
      <3>1. /\ mem[i].buf \in Recording /\ mem[i].pending \in Recording /\ file[i] \in Recording
            /\ mem[i].gen \in Nat /\ mem[i].saved \in Nat /\ out[i] \in Nat
        BY DEF SizedInv, OwnersInv, InMemory
      <3>2. Sized(i) /\ lost[i] \subseteq 1..out[i]
        BY DEF SizedInv, SnapInv, KindsInv
      <3>3. Within(mem[i].pending, out[i])
        BY <3>1, <3>2, RunWithin DEF Sized
      <3> QED BY <3>1, <3>2, <3>3, WithinIsSeq DEF Sized
    <2>3. fails \in 0..MaxTroubles /\ deaths \in 0..MaxTroubles
      BY ReplayConstants DEF SizedInv, KindsInv
    <2> QED BY <2>1, <2>2, <2>3 DEF TypeOK, SizedInv, KindsInv
  <1> QED BY <1>1, <1>2, SizedStep, PTL DEF Spec

-----------------------------------------------------------------------------
(* What the files hold *)

LEMMA ToldMore ==
  ASSUME NEW s \in Recording, NEW n \in Nat, NEW m \in Nat, NEW L, NEW M,
         Told(L, s, n), L \subseteq M, n <= m, (n + 1)..m \subseteq M
  PROVE  Told(M, s, m)
PROOF
  <1>1. Len(s) \in Nat /\ \A k \in 1..Len(s) : s[k] \in Nat
    BY LengthOf
  <1>2. \A k \in 1..(Len(s) - 1) : s[k] < s[k + 1] /\ (s[k] + 1)..(s[k + 1] - 1) \subseteq M
    BY DEF Told
  <1>3. ASSUME s # <<>> PROVE s[Len(s)] <= m /\ (s[Len(s)] + 1)..m \subseteq M
    <2> DEFINE x == s[Len(s)]
    <2>1. x \in Nat
      <3>1. Len(s) \in 1..Len(s)
        BY <1>1, <1>3, LengthOf
      <3> QED BY <1>1, <3>1
    <2>2. x <= n /\ (x + 1)..n \subseteq L
      BY <1>3 DEF Told
    <2> HIDE DEF x
    <2>3. x <= m /\ \A y \in (x + 1)..m : y \in (x + 1)..n \/ y \in (n + 1)..m
      BY <2>1, <2>2
    <2>4. (x + 1)..m \subseteq M
      BY <2>2, <2>3
    <2> QED BY <2>3, <2>4 DEF x
  <1> QED BY <1>2, <1>3 DEF Told

LEMMA ToldNone ==
  ASSUME NEW L, NEW n
  PROVE  Told(L, <<>>, n)
BY DEF Told

LEMMA ToldGrown ==
  ASSUME NEW b \in Recording, NEW old \in Recording, NEW o \in Nat, NEW d \in Nat, NEW L,
         Grown(b, old, o + 1, d), Told(L, old, o)
  PROVE  Told(L, b, o + 1)
PROOF
  <1> DEFINE n == Len(old)
             l == Len(b)
  <1>1. /\ n \in Nat /\ l \in Nat /\ d \in 0..n /\ l = (n - d) + 1
        /\ \A k \in 1..n : old[k] \in Nat
    BY LengthOf DEF Grown
  <1>2. \A k \in 1..(n - d) : b[k] = old[d + k]
    BY DEF Grown
  <1>3. b[l] = o + 1
    BY DEF Grown
  <1>4. \A k \in 1..(n - 1) : old[k] < old[k + 1] /\ (old[k] + 1)..(old[k + 1] - 1) \subseteq L
    BY DEF Told
  <1>5. n # 0 => old[n] <= o /\ (old[n] + 1)..o \subseteq L
    BY LengthOf DEF Told
  <1> HIDE DEF n, l
  <1>6. ASSUME NEW k \in 1..(l - 1) PROVE b[k] < b[k + 1] /\ (b[k] + 1)..(b[k + 1] - 1) \subseteq L
    <2>1. k \in 1..(n - d) /\ d + k \in 1..n
      BY <1>1
    <2>2. b[k] = old[d + k]
      BY <1>2, <2>1
    <2>3. CASE k + 1 = l
      <3>1. d + k = n /\ n # 0
        BY <1>1, <2>3
      <3>2. b[k] = old[n] /\ b[k + 1] = o + 1
        BY <1>3, <2>2, <2>3, <3>1
      <3>3. old[n] \in Nat /\ old[n] <= o /\ (old[n] + 1)..o \subseteq L
        BY <1>1, <1>5, <2>1, <3>1
      <3>4. old[n] < o + 1 /\ (o + 1) - 1 = o
        BY <3>3
      <3> QED BY <3>2, <3>3, <3>4
    <2>4. CASE k + 1 # l
      <3>1. k + 1 \in 1..(n - d) /\ d + k \in 1..(n - 1) /\ d + (k + 1) = (d + k) + 1
        BY <1>1, <2>4
      <3>2. b[k + 1] = old[(d + k) + 1]
        BY <1>2, <3>1
      <3> QED BY <1>4, <2>2, <3>1, <3>2
    <2> QED BY <2>3, <2>4
  <1>7. b[l] <= o + 1 /\ (b[l] + 1)..(o + 1) \subseteq L
    BY <1>3
  <1> QED BY <1>6, <1>7 DEF Told, l

LEMMA ToldJoined ==
  ASSUME NEW s \in Recording, NEW p \in Recording, NEW n \in Nat, NEW L,
         Told(L, s, n), \A k \in 1..Len(p) : p[k] = n + k
  PROVE  Told(L, s \o p, n + Len(p))
PROOF
  <1> DEFINE a == s \o p
             l == Len(s)
             q == Len(p)
             t == Len(a)
  <1>1. /\ t = l + q /\ (\A k \in 1..l : a[k] = s[k]) /\ (\A k \in 1..q : a[l + k] = p[k])
    BY JoinIs
  <1>2. l \in Nat /\ q \in Nat /\ \A k \in 1..l : s[k] \in Nat
    BY LengthOf
  <1>3. \A k \in 1..(l - 1) : s[k] < s[k + 1] /\ (s[k] + 1)..(s[k + 1] - 1) \subseteq L
    BY DEF Told
  <1>4. l # 0 => s[l] <= n /\ (s[l] + 1)..n \subseteq L
    BY LengthOf DEF Told
  <1>5. \A k \in 1..q : p[k] = n + k
    OBVIOUS
  <1>6. a = <<>> <=> t = 0
    BY JoinIs, LengthOf
  <1> HIDE DEF a, l, q, t
  <1>7. ASSUME NEW k \in 1..(t - 1) PROVE a[k] < a[k + 1] /\ (a[k] + 1)..(a[k + 1] - 1) \subseteq L
    <2>1. CASE k < l
      <3>1. k \in 1..(l - 1) /\ k \in 1..l /\ k + 1 \in 1..l
        BY <1>2, <2>1
      <3> QED BY <1>1, <1>3, <3>1
    <2>2. CASE k = l
      <3>1. k \in 1..l /\ 1 \in 1..q /\ k + 1 = l + 1 /\ l # 0
        BY <1>1, <1>2, <2>2
      <3>2. a[k] = s[l] /\ a[k + 1] = n + 1
        BY <1>1, <1>5, <2>2, <3>1
      <3>3. s[l] \in Nat /\ s[l] <= n /\ (s[l] + 1)..n \subseteq L
        BY <1>2, <1>4, <2>2, <3>1
      <3>4. s[l] < n + 1 /\ (n + 1) - 1 = n
        BY <3>3
      <3> QED BY <3>2, <3>3, <3>4
    <2>3. CASE k > l
      <3> DEFINE j == k - l
      <3>1. j \in 1..q /\ j + 1 \in 1..q /\ k = l + j /\ k + 1 = l + (j + 1)
        BY <1>1, <1>2, <2>3
      <3>2. a[k] = n + j /\ a[k + 1] = n + (j + 1)
        <4> HIDE DEF j
        <4> QED BY <1>1, <1>5, <3>1
      <3>3. n + j < n + (j + 1) /\ \A y \in ((n + j) + 1)..((n + (j + 1)) - 1) : FALSE
        BY <3>1
      <3> QED BY <3>2, <3>3
    <2> QED BY <1>2, <2>1, <2>2, <2>3
  <1>8. ASSUME t # 0 PROVE a[t] <= n + q /\ (a[t] + 1)..(n + q) \subseteq L
    <2>1. CASE q = 0
      <3>1. t = l /\ l # 0 /\ t \in 1..l /\ n + q = n
        BY <1>1, <1>2, <1>8, <2>1
      <3> QED BY <1>1, <1>4, <3>1
    <2>2. CASE q # 0
      <3>1. q \in 1..q /\ t = l + q
        BY <1>1, <1>2, <2>2
      <3>2. a[t] = n + q
        BY <1>1, <1>5, <3>1
      <3>3. \A y \in ((n + q) + 1)..(n + q) : FALSE
        BY <1>2
      <3>4. n + q <= n + q
        BY <1>2
      <3> QED BY <3>2, <3>3, <3>4
    <2> QED BY <2>1, <2>2
  <1> QED BY <1>6, <1>7, <1>8 DEF Told, a, t, q

(* How much of the write in progress is on disk and not acknowledged yet. *)
Acked(i) == IF flush = "written" /\ cur.term = i THEN Len(cur.pending) ELSE 0

(* The last chunk the file of terminal i tells of. *)
Settled(i) == (out[i] - Len(mem[i].pending)) + Acked(i)

(* A replacement tells everything up to the last chunk it takes for new. *)
Carries(s) ==
  s.replace => Told(lost[s.term], s.payload,
                    (out[s.term] - Len(mem[s.term].pending)) + Len(s.pending))

(* The inductive invariant behind FileIsOutput: the file tells the output up to
   what is not on disk yet, the buffer all of it, and what is still to be
   written continues the file or replaces it by as much. *)
FileInv ==
  /\ \A i \in Terms : Told(lost[i], file[i], Settled(i)) /\ Told(lost[i], mem[i].buf, out[i])
  /\ \A s \in todo : Live(s) => Carries(s)
  /\ flush = "writing" => Carries(cur)

(* Numbers of a terminal. *)
LEMMA Counted ==
  ASSUME OwnersInv, SnapInv, NEW i \in Terms
  PROVE  /\ out[i] \in Nat /\ mem[i].pending \in Recording /\ mem[i].buf \in Recording
         /\ file[i] \in Recording
         /\ Len(mem[i].pending) \in Nat /\ out[i] - Len(mem[i].pending) \in Nat
         /\ Acked(i) \in 0..Len(mem[i].pending) /\ Acked(i) \in Nat /\ Settled(i) \in Nat
         /\ out[i] - Len(mem[i].pending) <= Settled(i) /\ Settled(i) <= out[i]
PROOF
  <1>1. /\ out[i] \in Nat /\ mem[i].pending \in Recording /\ mem[i].buf \in Recording
        /\ file[i] \in Recording
    BY DEF OwnersInv, InMemory
  <1>2. Len(mem[i].pending) \in Nat /\ Len(mem[i].pending) <= out[i]
    BY <1>1, LengthOf DEF SnapInv, Sized, Run
  <1>3. Acked(i) \in Nat /\ Acked(i) <= Len(mem[i].pending)
    <2>1. CASE flush = "written" /\ cur.term = i
      <3>1. cur \in ToWrite /\ Begins(cur.pending, mem[i].pending)
        BY <2>1 DEF OwnersInv, InThread, SnapInv
      <3>2. cur.pending \in Recording
        BY <3>1 DEF ToWrite
      <3> QED BY <2>1, <3>1, <3>2, LengthOf DEF Acked, Begins
    <2>2. CASE ~(flush = "written" /\ cur.term = i)
      <3>1. Acked(i) = 0
        BY <2>2 DEF Acked
      <3> QED BY <1>2, <3>1
    <2> QED BY <2>1, <2>2
  <1>4. out[i] - Len(mem[i].pending) \in Nat
    BY <1>1, <1>2
  <1>5. /\ Settled(i) \in Nat /\ out[i] - Len(mem[i].pending) <= Settled(i) /\ Settled(i) <= out[i]
    BY <1>1, <1>2, <1>3 DEF Settled
  <1> QED BY <1>1, <1>2, <1>3, <1>4, <1>5

(* The chunks that are in memory only are the last ones. *)
LEMMA PendingIsTail ==
  ASSUME OwnersInv, SnapInv, NEW i \in Terms
  PROVE  ((out[i] - Len(mem[i].pending)) + 1)..out[i] \subseteq ToSet(mem[i].pending)
PROOF
  <1> DEFINE p == mem[i].pending
             l == Len(p)
             n == out[i] - l
  <1>1. /\ p \in Recording /\ out[i] \in Nat /\ Run(p, out[i]) /\ l \in Nat /\ n \in Nat
        /\ n = out[i] - l /\ DOMAIN p = 1..l /\ \A k \in 1..l : p[k] = n + k
    BY Counted, LengthOf DEF SnapInv, Sized, Run
  <1> HIDE DEF p, l, n
  <1> SUFFICES ASSUME NEW x \in (n + 1)..out[i] PROVE x \in ToSet(p)
    BY DEF n, l, p
  <1>2. x - n \in 1..l /\ n + (x - n) = x
    BY <1>1, SMTT(20)
  <1>3. p[x - n] = x
    BY <1>1, <1>2
  <1> QED BY <1>1, <1>2, <1>3 DEF ToSet

(* As much of an append as is done continues the file. *)
LEMMA AppendTold ==
  ASSUME OwnersInv, SnapInv, FileInv, flush = "writing", ~cur.replace,
         NEW t \in Terms, t = cur.term, NEW n \in 0..Len(cur.payload)
  PROVE  /\ Len(cur.payload) \in Nat /\ Len(cur.payload) <= Len(mem[t].pending)
         /\ Told(lost[t], file[t] \o SubSeq(cur.payload, 1, n),
                 (out[t] - Len(mem[t].pending)) + n)
PROOF
  <1> DEFINE p == SubSeq(cur.payload, 1, n)
             o == out[t] - Len(mem[t].pending)
             w == cur.payload
             m == mem[t].pending
  <1>1. cur \in ToWrite /\ Ready(cur)
    BY DEF OwnersInv, InThread, SnapInv
  <1>2. w \in Recording /\ w = cur.pending /\ Begins(w, m) /\ Len(w) \in Nat
    BY <1>1, LengthOf DEF Ready, ToWrite
  <1>3. o \in Nat /\ file[t] \in Recording /\ m \in Recording /\ Settled(t) = o
    <2>1. Acked(t) = 0
      BY DEF Acked
    <2> QED BY <2>1, Counted DEF Settled
  <1>4. Told(lost[t], file[t], o)
    BY <1>3 DEF FileInv
  <1>5. p \in Recording /\ Len(p) = n /\ \A k \in 1..n : p[k] = w[k]
    BY <1>2, FirstIs
  <1>6. \A k \in 1..Len(m) : m[k] = o + k
    BY DEF SnapInv, Sized, Run
  <1> HIDE DEF p, o, w, m
  <1>7. Len(w) <= Len(m) /\ \A k \in 1..Len(w) : m[k] = w[k]
    BY <1>2 DEF Begins
  <1>8. Len(m) \in Nat /\ n \in 0..Len(w)
    BY <1>3, LengthOf DEF w
  <1>9. ASSUME NEW k \in 1..Len(p) PROVE p[k] = o + k
    <2>1. k \in 1..n /\ k \in 1..Len(w) /\ k \in 1..Len(m)
      BY <1>2, <1>5, <1>7, <1>8
    <2> QED BY <1>5, <1>6, <1>7, <2>1
  <1>10. Told(lost[t], file[t] \o p, o + n)
    BY <1>3, <1>4, <1>5, <1>9, ToldJoined
  <1> QED BY <1>2, <1>7, <1>10 DEF p, o, w, m

(* A whole recording cut to its length. *)
LEMMA CutWhole ==
  ASSUME NEW s \in Recording
  PROVE  SubSeq(s, 1, Len(s)) = s
PROOF
  <1>1. Len(s) \in 0..Len(s)
    BY LengthOf
  <1>2. /\ SubSeq(s, 1, Len(s)) \in Recording /\ Len(SubSeq(s, 1, Len(s))) = Len(s)
        /\ \A k \in 1..Len(s) : SubSeq(s, 1, Len(s))[k] = s[k]
    BY <1>1, FirstIs
  <1> QED BY <1>2, SameRecording

(* What a write leaves tells the output, up to what it was given if it is
   complete. *)
LEMMA WritesTold ==
  ASSUME OwnersInv, SnapInv, FileInv, flush = "writing", NEW t \in Terms, t = cur.term,
         NEW f, f = WholeWrite(cur) \/ f \in TornWrites(cur)
  PROVE  /\ \A j \in Terms : j # t => f[j] = file[j]
         /\ f = WholeWrite(cur) =>
              Told(lost[t], f[t], (out[t] - Len(mem[t].pending)) + Len(cur.pending))
         /\ \E m \in Nat : /\ out[t] - Len(mem[t].pending) <= m /\ m <= out[t]
                           /\ Told(lost[t], f[t], m)
PROOF
  <1> DEFINE o == out[t] - Len(mem[t].pending)
             l == Len(cur.pending)
  <1>1. cur \in ToWrite /\ Ready(cur) /\ Carries(cur)
    BY DEF OwnersInv, InThread, SnapInv, FileInv
  <1>2. /\ cur.payload \in Recording /\ cur.pending \in Recording /\ cur.replace \in BOOLEAN
        /\ file \in [Terms -> Recording]
    BY <1>1 DEF ToWrite, OwnersInv
  <1>3. /\ o \in Nat /\ Len(mem[t].pending) \in Nat /\ out[t] \in Nat /\ file[t] \in Recording
        /\ mem[t].pending \in Recording
    BY Counted
  <1>4. l \in Nat /\ o + l <= out[t] /\ o <= o + l /\ o <= out[t] /\ o + l \in Nat
    <2> DEFINE q == Len(mem[t].pending)
    <2>1. l \in Nat /\ l <= q
      BY <1>1, <1>2, LengthOf DEF Ready, Begins
    <2>2. o = out[t] - q /\ q \in Nat /\ o \in Nat /\ out[t] \in Nat
      BY <1>3
    <2> HIDE DEF l, o, q
    <2> QED BY <2>1, <2>2
  <1>5. CASE f = WholeWrite(cur) /\ cur.replace
    <2>1. f = [file EXCEPT ![t] = cur.payload]
      BY <1>5 DEF WholeWrite
    <2>2. f[t] = cur.payload /\ \A j \in Terms : j # t => f[j] = file[j]
      BY <1>2, <2>1
    <2>3. Told(lost[t], f[t], o + l)
      BY <1>1, <1>5, <2>2 DEF Carries
    <2> QED BY <1>4, <2>2, <2>3
  <1>6. CASE f = WholeWrite(cur) /\ ~cur.replace
    <2>1. f = [file EXCEPT ![t] = file[t] \o cur.payload]
      BY <1>2, <1>6 DEF WholeWrite
    <2>2. f[t] = file[t] \o cur.payload /\ \A j \in Terms : j # t => f[j] = file[j]
      BY <1>2, <2>1
    <2>3. cur.payload = cur.pending /\ Len(cur.payload) \in 0..Len(cur.payload)
      <3>1. cur.payload = cur.pending
        BY <1>1, <1>6 DEF Ready
      <3>2. Len(cur.payload) \in Nat
        BY <1>2, LengthOf
      <3> QED BY <3>1, <3>2
    <2>4. Told(lost[t], file[t] \o SubSeq(cur.payload, 1, Len(cur.payload)), o + l)
      BY <1>6, <2>3, AppendTold
    <2>5. Told(lost[t], f[t], o + l)
      BY <1>2, <2>2, <2>4, CutWhole
    <2> QED BY <1>4, <2>2, <2>5
  <1>7. CASE f \in TornWrites(cur) /\ cur.replace /\ f # WholeWrite(cur)
    <2>1. f = file
      BY <1>7 DEF TornWrites
    <2>2. Told(lost[t], file[t], o)
      <3>1. Acked(t) = 0
        BY DEF Acked
      <3>2. Settled(t) = o
        BY <1>3, <3>1 DEF Settled
      <3> QED BY <3>2 DEF FileInv
    <2>3. o <= o
      BY <1>3
    <2> QED BY <1>3, <1>4, <1>7, <2>1, <2>2, <2>3
  <1>8. CASE f \in TornWrites(cur) /\ ~cur.replace /\ f # WholeWrite(cur)
    <2>1. PICK n \in 0..Len(cur.payload) :
            f = [file EXCEPT ![t] = @ \o SubSeq(cur.payload, 1, n)]
      BY <1>8 DEF TornWrites
    <2> DEFINE x == file[t] \o SubSeq(cur.payload, 1, n)
    <2>2. f = [file EXCEPT ![t] = x]
      BY <1>2, <2>1
    <2>3. /\ Told(lost[t], x, o + n) /\ Len(cur.payload) \in Nat
          /\ Len(cur.payload) <= Len(mem[t].pending)
      BY <1>8, AppendTold
    <2> HIDE DEF x
    <2>4. f[t] = x /\ \A j \in Terms : j # t => f[j] = file[j]
      BY <1>2, <2>2
    <2>5. o + n \in Nat /\ o <= o + n /\ o + n <= out[t]
      <3>1. n \in 0..Len(cur.payload)
        OBVIOUS
      <3> QED BY <1>3, <2>3, <3>1, SMTT(20)
    <2> QED BY <1>8, <2>3, <2>4, <2>5
  <1> QED BY <1>2, <1>5, <1>6, <1>7, <1>8

(* Nothing is told of terminal i that was not, and no less. *)
LEMMA CarriesKept ==
  ASSUME NEW s, Carries(s),
         \/ UNCHANGED <<lost[s.term], out[s.term], mem[s.term].pending>>
         \/ /\ UNCHANGED lost[s.term]
            /\ out'[s.term] - Len(mem'[s.term].pending) = out[s.term] - Len(mem[s.term].pending)
  PROVE  Carries(s)'
BY DEF Carries

(* The steps that leave the disk and the snapshots alone, and the sessions that
   go on: what they print is not on disk. *)
LEMMA FileKept ==
  ASSUME OwnersInv, OwnersInv', FlushInv, SnapInv, SnapInv', FileInv,
         UNCHANGED <<todo, cur>>, flush' = flush \/ (flush' \notin InThread /\ flush \notin InThread),
         \A i \in Terms : /\ file'[i] = file[i] \/ file'[i] = NoFile
                          /\ Told(lost'[i], mem'[i].buf, out'[i])
                          /\ \/ /\ lost'[i] = lost[i]
                                /\ out'[i] - Len(mem'[i].pending) = out[i] - Len(mem[i].pending)
                                /\ (i \in open' <=> i \in open) /\ life'[i] = life[i]
                             \/ /\ i \notin open' \/ life'[i] = life[i] + 1
                                /\ flush = "writing" => cur.term # i
                                /\ Told(lost'[i], file'[i], Settled(i)')
  PROVE  FileInv'
PROOF
  <1>1. ASSUME NEW i \in Terms PROVE Told(lost'[i], file'[i], Settled(i)')
    <2>1. CASE Told(lost'[i], file'[i], Settled(i)')
      BY <2>1
    <2>2. CASE /\ lost'[i] = lost[i]
               /\ out'[i] - Len(mem'[i].pending) = out[i] - Len(mem[i].pending)
      <3>1. Acked(i)' = Acked(i)
        BY DEF Acked, InThread
      <3>2. Settled(i)' = Settled(i)
        BY <2>2, <3>1 DEF Settled
      <3>3. Told(lost[i], file[i], Settled(i))
        BY DEF FileInv
      <3> QED BY <2>2, <3>2, <3>3, ToldNone DEF NoFile
    <2> QED BY <2>1, <2>2
  <1>2. ASSUME NEW s \in todo, Live(s)' PROVE Carries(s)'
    <2>1. s.term \in Terms /\ s.life \in Nat /\ life[s.term] \in Nat
      BY DEF OwnersInv, ToWrite
    <2>2. s.term \in open' /\ s.life = life'[s.term] /\ s.life <= life[s.term]
      BY <1>2 DEF Live, SnapInv
    <2>3. life'[s.term] # life[s.term] + 1
      BY <2>1, <2>2
    <2>4. /\ lost'[s.term] = lost[s.term] /\ s.term \in open /\ life'[s.term] = life[s.term]
          /\ out'[s.term] - Len(mem'[s.term].pending) = out[s.term] - Len(mem[s.term].pending)
      BY <2>1, <2>2, <2>3
    <2>5. Carries(s)
      BY <2>2, <2>4 DEF FileInv, Live
    <2> QED BY <2>4, <2>5, CarriesKept
  <1>3. ASSUME flush' = "writing" PROVE Carries(cur)'
    <2>1. flush = "writing"
      BY <1>3 DEF InThread
    <2>2. PICK c \in ToWrite : c = cur
      BY <2>1 DEF OwnersInv, InThread
    <2>3. c.term \in Terms /\ c.term \in open /\ c.life = life[c.term] /\ life[c.term] \in Nat
      BY <2>1, <2>2 DEF FlushInv, WriterOwns, OwnersInv, ToWrite
    <2>4. /\ lost'[c.term] = lost[c.term]
          /\ out'[c.term] - Len(mem'[c.term].pending) = out[c.term] - Len(mem[c.term].pending)
      BY <2>1, <2>2, <2>3
    <2>5. Carries(cur)
      BY <2>1 DEF FileInv
    <2>6. Carries(c)'
      BY <2>2, <2>4, <2>5 DEF Carries
    <2> QED BY <2>2, <2>6 DEF Carries
  <1> QED BY <1>1, <1>2, <1>3 DEF FileInv

(* What the chunks in memory only are lost with is still told. *)
LEMMA LostTold ==
  ASSUME OwnersInv, SnapInv, NEW i \in Terms, NEW s \in Recording, NEW m \in Nat,
         out[i] - Len(mem[i].pending) <= m, m <= out[i], Told(lost[i], s, m)
  PROVE  Told(lost[i] \cup ToSet(mem[i].pending), s, out[i])
PROOF
  <1> DEFINE o == out[i] - Len(mem[i].pending)
             L == lost[i]
             M == lost[i] \cup ToSet(mem[i].pending)
  <1>1. (o + 1)..out[i] \subseteq M
    BY PendingIsTail
  <1>2. o \in Nat /\ out[i] \in Nat /\ o <= m
    BY Counted
  <1>3. L \subseteq M /\ Told(L, s, m)
    OBVIOUS
  <1> HIDE DEF o, L, M
  <1>4. (m + 1)..out[i] \subseteq M
    BY <1>1, <1>2
  <1>5. Told(M, s, out[i])
    BY <1>2, <1>3, <1>4, ToldMore
  <1> QED BY <1>5 DEF M

LEMMA FileStep ==
  ASSUME "torn" \notin Faults, FlushInv, FlushInv', OwnersInv, OwnersInv', SnapInv, SnapInv',
         KindsInv, FileInv, [Next]_vars
  PROVE  FileInv'
PROOF
  <1>0. \A i \in Terms : /\ Told(lost[i], mem[i].buf, out[i])
                         /\ Told(lost[i], file[i], Settled(i))
    BY DEF FileInv
  <1>1. ASSUME NEW i \in Terms, Record(i), UNCHANGED <<open, life, todo, cur, file, lost>>,
               flush' = flush \/ (flush' \notin InThread /\ flush \notin InThread)
        PROVE  FileInv'
    <2>1. /\ Recorded(mem'[i], mem[i].buf, out[i] + 1, mem[i].gen)
          /\ mem'[i].pending = Append(mem[i].pending, out[i] + 1)
          /\ out'[i] = out[i] + 1
          /\ \A j \in Terms : j # i => mem'[j] = mem[j] /\ out'[j] = out[j]
      BY <1>1, RecordIs
    <2>2. /\ mem[i].buf \in Recording /\ mem[i].pending \in Recording /\ mem'[i].buf \in Recording
          /\ out[i] \in Nat
      BY DEF OwnersInv, InMemory
    <2>3. Told(lost[i], mem'[i].buf, out[i] + 1)
      <3>1. PICK d \in Nat : Grown(mem'[i].buf, mem[i].buf, out[i] + 1, d)
        BY <2>1 DEF Recorded
      <3> QED BY <1>0, <2>2, <3>1, ToldGrown
    <2>4. out'[i] - Len(mem'[i].pending) = out[i] - Len(mem[i].pending)
      <3> DEFINE p == mem[i].pending
                 l == Len(p)
                 l2 == Len(mem'[i].pending)
                 c == out[i] + 1
      <3>1. p \in Recording /\ c \in Nat /\ mem'[i].pending = Append(p, c) /\ out'[i] = c
        BY <2>1, <2>2
      <3>2. l2 = l + 1 /\ l \in Nat
        <4> HIDE DEF p, c
        <4> QED BY <3>1, AddIs, LengthOf
      <3> HIDE DEF l, l2
      <3>3. out'[i] - l2 = out[i] - l
        BY <2>2, <3>1, <3>2
      <3> QED BY <3>3 DEF l, l2
    <2>5. ASSUME NEW j \in Terms
          PROVE  /\ Told(lost'[j], mem'[j].buf, out'[j])
                 /\ out'[j] - Len(mem'[j].pending) = out[j] - Len(mem[j].pending)
      BY <1>0, <1>1, <2>1, <2>3, <2>4
    <2> QED BY <1>1, <2>5, FileKept
  <1>2. ASSUME UNCHANGED <<open, life, mem, out, lost, todo, cur>>,
               \A i \in Terms : file'[i] = file[i] \/ file'[i] = NoFile,
               flush' = flush \/ (flush' \notin InThread /\ flush \notin InThread)
        PROVE  FileInv'
    BY <1>0, <1>2, FileKept
  <1>3. ASSUME NEW i \in Terms, Output(i) \/ Start(i) PROVE FileInv'
    <2>1. /\ Record(i) /\ UNCHANGED <<open, life, todo, cur, file, lost>>
          /\ flush' = flush \/ (flush' \notin InThread /\ flush \notin InThread)
      BY <1>3 DEF Output, Start, Arm, InThread
    <2> QED BY <1>1, <2>1
  <1>4. ASSUME NEW i \in Terms, Input(i) \/ Exits(i) \/ CloseBegins(i) \/ Purge(i) PROVE FileInv'
    <2>1. /\ UNCHANGED <<open, life, mem, out, lost, todo, cur, file>>
          /\ flush' = flush \/ (flush' \notin InThread /\ flush \notin InThread)
      BY <1>4 DEF Input, Exits, CloseBegins, Purge, Arm, InThread
    <2> QED BY <1>2, <2>1
  <1>5. ASSUME NEW i \in Terms, Reattach(i) PROVE FileInv'
    <2>1. CASE Record(i)
      <3>1. /\ UNCHANGED <<open, life, todo, cur, file, lost>>
            /\ flush' = flush \/ (flush' \notin InThread /\ flush \notin InThread)
        BY <1>5 DEF Reattach, Arm, InThread
      <3> QED BY <1>1, <2>1, <3>1
    <2>2. CASE UNCHANGED <<mem, out, flush>>
      <3>1. UNCHANGED <<open, life, mem, out, lost, todo, cur, file>> /\ flush' = flush
        BY <1>5, <2>2 DEF Reattach
      <3> QED BY <1>2, <3>1
    <2> QED BY <1>5, <2>1, <2>2 DEF Reattach
  <1>6. ASSUME NEW i \in Terms, NEW kept \in BOOLEAN, CloseEnds(i, kept) PROVE FileInv'
    <2>1. /\ open' = open \ {i} /\ mem' = [mem EXCEPT ![i] = NewMem]
          /\ lost' = [lost EXCEPT ![i] = @ \cup ToSet(mem[i].pending)]
          /\ UNCHANGED <<todo, cur, file, out, life, flush>>
      BY <1>6 DEF CloseEnds
    <2>2. flush \notin InThread
      BY <1>6, OneHolder DEF CloseEnds, MayDiscard, FlushInv, WriterOwns, InThread
    <2>3. mem'[i] = NewMem /\ \A j \in Terms : j # i => mem'[j] = mem[j]
      BY <2>1 DEF OwnersInv
    <2>4. \A j \in Terms : j # i => lost'[j] = lost[j]
      BY <2>1
    <2>5. lost'[i] = lost[i] \cup ToSet(mem[i].pending)
      BY <2>1 DEF KindsInv
    <2>6. Told(lost'[i], file'[i], Settled(i)') /\ Told(lost'[i], mem'[i].buf, out'[i])
      <3>1. Told(lost[i] \cup ToSet(mem[i].pending), file[i], out[i])
        BY <1>0, Counted, LostTold
      <3>2. Settled(i)' = out[i]
        <4> DEFINE none == <<>>
        <4>1. mem'[i].pending = none /\ Len(none) = 0
          BY <2>3 DEF NewMem
        <4>2. Acked(i)' = 0
          BY <2>1, <2>2 DEF Acked, InThread
        <4>3. out'[i] = out[i] /\ out[i] \in Nat
          BY <2>1 DEF OwnersInv
        <4> HIDE DEF none
        <4> QED BY <4>1, <4>2, <4>3 DEF Settled
      <3>3. mem'[i].buf = <<>>
        BY <2>3 DEF NewMem
      <3> QED BY <2>1, <2>5, <3>1, <3>2, <3>3, ToldNone
    <2>7. ASSUME NEW j \in Terms, j # i
          PROVE  /\ Told(lost'[j], mem'[j].buf, out'[j])
                 /\ lost'[j] = lost[j] /\ (j \in open' <=> j \in open) /\ life'[j] = life[j]
                 /\ out'[j] - Len(mem'[j].pending) = out[j] - Len(mem[j].pending)
      BY <1>0, <2>1, <2>3, <2>4, <2>7
    <2> QED BY <2>1, <2>2, <2>6, <2>7, FileKept DEF InThread
  <1>7. ASSUME NEW i \in Terms, Reopen(i) PROVE FileInv'
    <2>1. /\ i \in closed /\ open' = open \cup {i} /\ life' = [life EXCEPT ![i] = @ + 1]
          /\ UNCHANGED <<todo, cur, file, flush, lost>>
      BY <1>7 DEF Reopen
    <2>2. /\ Recorded(mem'[i], file[i], out[i] + 1, 0)
          /\ mem'[i].pending = <<out[i] + 1>> /\ out'[i] = out[i] + 1
          /\ \A j \in Terms : j # i => mem'[j] = mem[j] /\ out'[j] = out[j]
      BY <1>7, ReopenIs
    <2>3. i \notin open /\ mem[i] = NewMem
      BY <2>1 DEF FlushInv, SnapInv
    <2>4. flush \in InThread => cur.term # i
      BY <2>3 DEF FlushInv, WriterOwns, InThread
    <2>5. Settled(i) = out[i] /\ Settled(i)' = out[i] /\ out[i] \in Nat
      <3> DEFINE none == <<>>
                 one == <<out[i] + 1>>
      <3>1. mem[i].pending = none /\ Len(none) = 0 /\ mem'[i].pending = one /\ Len(one) = 1
        BY <2>2, <2>3 DEF NewMem
      <3>2. Acked(i) = 0 /\ Acked(i)' = 0
        BY <2>1, <2>4 DEF Acked, InThread
      <3>3. out[i] \in Nat
        BY DEF OwnersInv
      <3> HIDE DEF none, one
      <3>4. Settled(i) = out[i]
        BY <3>1, <3>2, <3>3 DEF Settled
      <3>5. Settled(i)' = out[i]
        BY <2>2, <3>1, <3>2, <3>3 DEF Settled
      <3> QED BY <3>3, <3>4, <3>5
    <2>6. Told(lost'[i], file'[i], Settled(i)')
      BY <1>0, <2>1, <2>5
    <2>7. Told(lost'[i], mem'[i].buf, out'[i])
      <3>1. file[i] \in Recording /\ mem'[i].buf \in Recording
        BY DEF OwnersInv, InMemory
      <3>2. PICK d \in Nat : Grown(mem'[i].buf, file[i], out[i] + 1, d)
        BY <2>2 DEF Recorded
      <3>3. Told(lost[i], file[i], out[i])
        BY <1>0, <2>5
      <3> QED BY <2>1, <2>2, <2>5, <3>1, <3>2, <3>3, ToldGrown
    <2>8. life'[i] = life[i] + 1 /\ \A j \in Terms : j # i => life'[j] = life[j]
      BY <2>1 DEF OwnersInv
    <2>9. ASSUME NEW j \in Terms, j # i
          PROVE  /\ Told(lost'[j], mem'[j].buf, out'[j])
                 /\ lost'[j] = lost[j] /\ (j \in open' <=> j \in open) /\ life'[j] = life[j]
                 /\ out'[j] - Len(mem'[j].pending) = out[j] - Len(mem[j].pending)
      BY <1>0, <2>1, <2>2, <2>8, <2>9
    <2> QED BY <2>1, <2>4, <2>6, <2>7, <2>8, <2>9, FileKept DEF InThread
  <1>8. CASE FlushBegins
    <2>1. /\ todo' = Snapshots /\ flush' \notin InThread /\ flush \notin InThread
          /\ UNCHANGED <<open, mem, life, file, out, cur, lost>>
      BY <1>8 DEF FlushBegins, InThread
    <2>2. \A i \in Terms : Told(lost'[i], file'[i], Settled(i)') /\ Told(lost'[i], mem'[i].buf, out'[i])
      BY <1>0, <2>1 DEF Settled, Acked, InThread
    <2>3. ASSUME NEW s \in todo' PROVE Carries(s)'
      <3>1. PICK i \in Terms : s = Snapshot(i)
        BY <2>1 DEF Snapshots
      <3> DEFINE l == Len(mem[i].pending)
      <3>2. out[i] \in Nat /\ l \in Nat
        BY Counted
      <3>3. (out[i] - l) + l = out[i]
        <4> HIDE DEF l
        <4> QED BY <3>2
      <3>4. /\ s.term = i /\ s.pending = mem[i].pending
            /\ s.replace => s.payload = mem[i].buf
        BY <3>1 DEF Snapshot
      <3> QED BY <1>0, <2>1, <3>3, <3>4 DEF Carries
    <2> QED BY <2>1, <2>2, <2>3 DEF FileInv, InThread
  <1>9. ASSUME NEW s \in todo, FlushSkips(s) PROVE FileInv'
    <2>1. /\ UNCHANGED <<open, mem, life, file, out, lost>> /\ todo' \subseteq todo
          /\ flush' \notin InThread /\ flush \notin InThread
      BY <1>9 DEF FlushSkips, Continue, InThread
    <2>2. \A i \in Terms : Told(lost'[i], file'[i], Settled(i)') /\ Told(lost'[i], mem'[i].buf, out'[i])
      BY <1>0, <2>1 DEF Settled, Acked, InThread
    <2> QED BY <2>1, <2>2 DEF FileInv, Live, Carries, InThread
  <1>10. ASSUME NEW s \in todo, FlushWrites(s) PROVE FileInv'
    <2>1. /\ UNCHANGED <<open, mem, life, file, out, lost>> /\ todo' = todo \ {s} /\ cur' = s
          /\ flush' = "writing" /\ flush \notin InThread /\ StillThere(s)
      BY <1>10 DEF FlushWrites, InThread
    <2>2. \A i \in Terms : Told(lost'[i], file'[i], Settled(i)') /\ Told(lost'[i], mem'[i].buf, out'[i])
      BY <1>0, <2>1 DEF Settled, Acked, InThread
    <2>3. Carries(s)
      BY <2>1 DEF FileInv, Live, StillThere
    <2>4. Carries(cur)'
      BY <2>1, <2>3 DEF Carries
    <2>5. \A t \in todo' : Live(t)' => Carries(t)'
      BY <2>1 DEF FileInv, Live, Carries
    <2> QED BY <2>2, <2>4, <2>5 DEF FileInv
  <1>11. CASE ThreadWrites
    <2>1. /\ flush = "writing" /\ flush' \in {"written", "failed"}
          /\ UNCHANGED <<open, mem, life, todo, cur, out, lost>>
          /\ \/ flush' = "written" /\ file' = WholeWrite(cur)
             \/ flush' = "failed" /\ file' = file
      BY <1>11 DEF ThreadWrites
    <2>2. PICK t \in Terms : t = cur.term
      BY <2>1 DEF OwnersInv, InThread, ToWrite
    <2>3. \A s \in todo' : Live(s)' => Carries(s)'
      BY <2>1 DEF FileInv, Live, Carries
    <2>4. flush' # "writing"
      BY <2>1
    <2>5. \A i \in Terms : Told(lost'[i], mem'[i].buf, out'[i])
      BY <1>0, <2>1
    <2>6. ASSUME NEW i \in Terms PROVE Told(lost'[i], file'[i], Settled(i)')
      <3>1. Acked(i) = 0
        BY <2>1 DEF Acked
      <3>2. CASE flush' = "written" /\ i = t
        <4>1. Told(lost[t], file'[t], (out[t] - Len(mem[t].pending)) + Len(cur.pending))
          BY <2>1, <2>2, <3>2, WritesTold
        <4>2. Acked(i)' = Len(cur.pending)
          BY <2>1, <2>2, <3>2 DEF Acked
        <4> QED BY <2>1, <3>2, <4>1, <4>2 DEF Settled
      <3>3. CASE ~(flush' = "written" /\ i = t)
        <4>1. Acked(i)' = 0
          BY <2>1, <2>2, <3>3 DEF Acked
        <4>2. file'[i] = file[i]
          BY <2>1, <2>2, <3>3, WritesTold
        <4>3. Settled(i)' = Settled(i)
          BY <2>1, <3>1, <4>1 DEF Settled
        <4> QED BY <1>0, <2>1, <4>2, <4>3
      <3> QED BY <3>2, <3>3
    <2> QED BY <2>3, <2>4, <2>5, <2>6 DEF FileInv
  <1>12. CASE FlushRecords
    <2>1. /\ flush \in {"written", "failed"} /\ UNCHANGED <<open, life, file, out, lost, todo>>
          /\ mem' = IF flush = "written" THEN [mem EXCEPT ![cur.term] = Saved(@, cur)] ELSE mem
          /\ flush' \notin InThread
      BY <1>12 DEF FlushRecords, Continue, InThread
    <2>2. PICK t \in Terms : t = cur.term
      BY <2>1 DEF OwnersInv, InThread, ToWrite
    <2>3. \A j \in Terms : j # t => mem'[j] = mem[j]
      BY <2>1, <2>2 DEF OwnersInv
    <2>4. \A j \in Terms : Acked(j)' = 0
      BY <2>1 DEF Acked, InThread
    <2>5. mem'[t].buf = mem[t].buf /\ Settled(t)' = Settled(t)
      <3>1. CASE flush = "written"
        <4> DEFINE m == Saved(mem[t], cur)
                   l == Len(mem[t].pending)
                   k == Len(cur.pending)
                   l2 == Len(m.pending)
        <4>1. m.buf = mem[t].buf /\ l2 = l - k /\ k <= l
          BY <2>2, <3>1, SavedIs
        <4>2. mem'[t] = m
          BY <2>1, <2>2, <3>1 DEF OwnersInv
        <4>3. l \in Nat /\ out[t] \in Nat
          BY Counted
        <4>4. k \in Nat
          <5>1. cur.pending \in Recording
            BY <3>1 DEF OwnersInv, InThread, ToWrite
          <5> QED BY <5>1, LengthOf
        <4>5. Acked(t) = k
          BY <2>2, <3>1 DEF Acked
        <4>6. Settled(t) = (out[t] - l) + k
          BY <4>5 DEF Settled
        <4>7. Settled(t)' = (out[t] - l2) + 0
          BY <2>1, <2>4, <4>2 DEF Settled
        <4> HIDE DEF m, l, k, l2
        <4> QED BY <4>1, <4>2, <4>3, <4>4, <4>6, <4>7
      <3>2. CASE flush # "written"
        <4>1. mem' = mem /\ Acked(t) = 0
          BY <2>1, <3>2 DEF Acked
        <4> QED BY <2>1, <2>4, <4>1 DEF Settled
      <3> QED BY <3>1, <3>2
    <2>6. \A j \in Terms : j # t => Settled(j)' = Settled(j)
      BY <2>1, <2>2, <2>3, <2>4 DEF Settled, Acked
    <2>7. \A i \in Terms : Told(lost'[i], file'[i], Settled(i)') /\ Told(lost'[i], mem'[i].buf, out'[i])
      <3> SUFFICES ASSUME NEW i \in Terms
                   PROVE  Told(lost'[i], file'[i], Settled(i)') /\ Told(lost'[i], mem'[i].buf, out'[i])
        OBVIOUS
      <3>1. Settled(i)' = Settled(i) /\ mem'[i].buf = mem[i].buf
        BY <2>3, <2>5, <2>6
      <3> QED BY <1>0, <2>1, <3>1
    <2>8. \A s \in todo' : Live(s)' => Carries(s)'
      <3> SUFFICES ASSUME NEW s \in todo, Live(s)' PROVE Carries(s)'
        BY <2>1
      <3>1. s.term \in Terms /\ s.term # t
        BY <2>1, <2>2 DEF OwnersInv, ToWrite, SnapInv, InThread
      <3>2. mem'[s.term] = mem[s.term] /\ Carries(s)
        BY <2>1, <2>3, <3>1 DEF FileInv, Live
      <3> QED BY <2>1, <3>2 DEF Carries
    <2> QED BY <2>1, <2>7, <2>8 DEF FileInv, InThread
  <1>13. CASE SweepBegins \/ Sweep
    <2>1. UNCHANGED <<open, life, mem, out, lost, todo, cur, flush>>
      BY <1>13 DEF SweepBegins, Sweep, SweepReadsOpen, SweepReadsClosed, SweepEnds
    <2>2. \A i \in Terms : file'[i] = file[i] \/ file'[i] = NoFile
      BY <1>13 DEF SweepBegins, Sweep, SweepReadsOpen, SweepReadsClosed, SweepEnds
    <2> QED BY <1>2, <2>1, <2>2
  <1>14. CASE ServerDies
    <2>1. /\ flush' = "none" /\ todo' = {} /\ mem' = [i \in Terms |-> NewMem]
          /\ lost' = [i \in Terms |-> lost[i] \cup ToSet(mem[i].pending)]
          /\ UNCHANGED <<open, life, out>>
          /\ file' = file \/ (flush = "writing" /\ (file' = WholeWrite(cur) \/ file' \in TornWrites(cur)))
      BY <1>14 DEF ServerDies
    <2>2. ASSUME NEW i \in Terms
          PROVE  \E m \in Nat : /\ out[i] - Len(mem[i].pending) <= m /\ m <= out[i]
                                /\ Told(lost[i], file'[i], m)
      <3>1. CASE file'[i] = file[i]
        BY <1>0, <3>1, Counted
      <3>2. CASE file'[i] # file[i]
        <4>1. flush = "writing" /\ (file' = WholeWrite(cur) \/ file' \in TornWrites(cur))
          BY <2>1, <3>2
        <4>2. PICK t \in Terms : t = cur.term
          BY <4>1 DEF OwnersInv, InThread, ToWrite
        <4>3. i = t
          BY <3>2, <4>1, <4>2, WritesTold
        <4> QED BY <4>1, <4>2, <4>3, WritesTold
      <3> QED BY <3>1, <3>2
    <2>3. ASSUME NEW i \in Terms
          PROVE  Told(lost'[i], file'[i], Settled(i)') /\ Told(lost'[i], mem'[i].buf, out'[i])
      <3>1. PICK m \in Nat : /\ out[i] - Len(mem[i].pending) <= m /\ m <= out[i]
                             /\ Told(lost[i], file'[i], m)
        BY <2>2
      <3>2. file'[i] \in Recording /\ out[i] \in Nat
        BY DEF OwnersInv
      <3>3. Told(lost'[i], file'[i], out[i])
        BY <2>1, <3>1, <3>2, LostTold
      <3> DEFINE none == <<>>
      <3>4. mem'[i].pending = none /\ Len(none) = 0 /\ mem'[i].buf = none
        BY <2>1 DEF NewMem
      <3>5. Told(lost'[i], none, out'[i])
        BY ToldNone
      <3> HIDE DEF none
      <3>6. Acked(i)' = 0
        BY <2>1 DEF Acked
      <3>7. Settled(i)' = out[i]
        BY <2>1, <3>2, <3>4, <3>6 DEF Settled
      <3> QED BY <3>3, <3>4, <3>5, <3>7
    <2> QED BY <2>1, <2>3 DEF FileInv
  <1>15. CASE ServerStarts
    <2>1. /\ ~up /\ UNCHANGED <<open, life, file, flush, todo, cur, out, lost>>
          /\ mem' = [i \in Terms |-> IF i \in open THEN Restored(i) ELSE NewMem]
      BY <1>15 DEF ServerStarts
    <2>2. flush = "none" /\ todo = {} /\ \A i \in Terms : mem[i] = NewMem
      BY <2>1 DEF SnapInv
    <2>3. ASSUME NEW i \in Terms
          PROVE  Told(lost'[i], file'[i], Settled(i)') /\ Told(lost'[i], mem'[i].buf, out'[i])
      <3> DEFINE none == <<>>
      <3>1. /\ mem[i].pending = none /\ mem'[i].pending = none /\ Len(none) = 0
            /\ mem'[i].buf = none \/ mem'[i].buf = file[i]
        BY <2>1, <2>2 DEF NewMem, Restored
      <3>2. Told(lost'[i], none, out'[i])
        BY ToldNone
      <3> HIDE DEF none
      <3>3. Acked(i) = 0 /\ Acked(i)' = 0 /\ out[i] \in Nat
        BY <2>1, <2>2 DEF Acked, OwnersInv
      <3>4. Settled(i) = out[i] /\ Settled(i)' = out[i]
        BY <2>1, <3>1, <3>3 DEF Settled
      <3> QED BY <1>0, <2>1, <3>1, <3>2, <3>4
    <2> QED BY <2>1, <2>2, <2>3 DEF FileInv
  <1>16. CASE UNCHANGED vars
    <2>1. UNCHANGED <<open, life, mem, out, lost, todo, cur, flush, file>>
      BY <1>16 DEF vars
    <2> QED BY <1>2, <2>1
  <1> QED
    BY <1>3, <1>4, <1>5, <1>6, <1>7, <1>8, <1>9, <1>10, <1>11, <1>12, <1>13, <1>14, <1>15,
       <1>16 DEF Next, Flush, Close

(* The checkpoints (_snapshot, _record_checkpoint_success, discard): whatever
   is printed, compacted, written, failed, closed, reopened, swept or killed in
   whatever order, a recording on disk replays the output in order, nothing twice and
   nothing left out but what a death or a close found in memory only, as long as
   an append that fails leaves the file as it was. *)
THEOREM FilesAreOutput ==
  ASSUME "torn" \notin Faults
  PROVE  Spec => []FileIsOutput
PROOF
  <1> DEFINE Inv == SizedInv /\ FileInv
  <1>1. Init => Inv
    <2> SUFFICES ASSUME Init PROVE Inv
      OBVIOUS
    <2>1. FlushInv /\ OwnersInv /\ SnapInv /\ KindsInv
      BY InitSized
    <2>2. /\ out = [i \in Terms |-> 1] /\ file = [i \in Terms |-> <<>>] /\ todo = {} /\ flush = "none"
          /\ mem = [i \in Terms |-> [buf |-> <<1>>, pending |-> <<1>>, gen |-> 0, saved |-> 0]]
      BY DEF Init, NoFile
    <2>3. ASSUME NEW i \in Terms PROVE Told(lost[i], file[i], Settled(i)) /\ Told(lost[i], mem[i].buf, out[i])
      <3> DEFINE one == <<1>>
      <3>1. one # <<>> /\ Len(one) = 1 /\ one[1] = 1
        OBVIOUS
      <3>2. mem[i].buf = one /\ out[i] = 1
        BY <2>2
      <3> HIDE DEF one
      <3>3. Told(lost[i], mem[i].buf, out[i])
        <4>1. \A k \in 1..(Len(one) - 1) : FALSE
          BY <3>1
        <4>2. one[Len(one)] <= 1 /\ \A y \in (one[Len(one)] + 1)..1 : FALSE
          BY <3>1
        <4>3. Told(lost[i], one, 1)
          BY <4>1, <4>2 DEF Told
        <4> QED BY <3>2, <4>3
      <3>4. Told(lost[i], file[i], Settled(i))
        BY <2>2, ToldNone
      <3> QED BY <3>3, <3>4
    <2> QED BY <2>1, <2>2, <2>3 DEF FileInv, SizedInv
  <1>2. Inv => FileIsOutput
    <2> SUFFICES ASSUME Inv, NEW i \in Terms PROVE Stretch(i, file[i]) /\ Len(file[i]) <= Limit
      BY DEF FileIsOutput
    <2>1. Told(lost[i], file[i], Settled(i)) /\ Sized(i)
      BY DEF FileInv, SizedInv, SnapInv
    <2> QED BY <2>1 DEF Told, Stretch, Sized
  <1>3. Inv /\ [Next]_vars => Inv'
    BY SizedStep, FileStep DEF SizedInv
  <1> QED BY <1>1, <1>2, <1>3, PTL DEF Spec

-----------------------------------------------------------------------------
(* What a restore would show *)

(* The k-th chunk of f followed by p without its n first. *)
Chunk(f, p, n, k) == IF k <= Len(f) THEN f[k] ELSE p[n + (k - Len(f))]

(* f followed by p without its n first ends as b, or is b. *)
Ends(b, f, p, n) ==
  /\ Len(b) <= Len(f) + (Len(p) - n)
  /\ \A k \in 1..Len(b) : b[k] = Chunk(f, p, n, ((Len(f) + (Len(p) - n)) - Len(b)) + k)

Exactly(b, f, p, n) == Ends(b, f, p, n) /\ Len(b) = Len(f) + (Len(p) - n)

LEMMA EndsGrown ==
  ASSUME NEW b \in Recording, NEW f \in Recording, NEW p \in Recording, NEW n \in 0..Len(p),
         NEW c \in Nat, NEW a \in Recording, Grown(a, b, c, 0), Ends(b, f, p, n)
  PROVE  /\ Ends(a, f, Append(p, c), n)
         /\ Exactly(b, f, p, n) => Exactly(a, f, Append(p, c), n)
PROOF
  <1> DEFINE q == Append(p, c)
             lb == Len(b)
             lf == Len(f)
             lp == Len(p)
             la == Len(a)
             lq == Len(q)
  <1>1. lb \in Nat /\ lf \in Nat /\ lp \in Nat /\ n \in 0..lp
    BY LengthOf
  <1>2. la = lb + 1 /\ (\A k \in 1..lb : a[k] = b[k]) /\ a[lb + 1] = c
    <2>1. la = (lb - 0) + 1 /\ (\A k \in 1..(lb - 0) : a[k] = b[0 + k]) /\ a[la] = c
      BY DEF Grown
    <2> HIDE DEF la, lb
    <2>2. \A k \in 1..lb : 0 + k = k
      BY <1>1
    <2> QED BY <1>1, <2>1, <2>2
  <1>3. lq = lp + 1 /\ (\A k \in 1..lp : q[k] = p[k]) /\ q[lp + 1] = c
    BY AddIs
  <1>4. lb <= lf + (lp - n) /\ \A k \in 1..lb : b[k] = Chunk(f, p, n, ((lf + (lp - n)) - lb) + k)
    BY DEF Ends
  <1> HIDE DEF q, lb, lf, lp, la, lq
  <1> DEFINE x == (lf + (lp - n)) - lb
  <1>5. x \in Nat /\ (lf + (lq - n)) - la = x /\ x + la = lf + ((lp - n) + 1)
    BY <1>1, <1>2, <1>3, <1>4
  <1>6. \A k \in 1..lb : b[k] = Chunk(f, p, n, x + k)
    BY <1>4
  <1> HIDE DEF x
  <1>7. ASSUME NEW k \in 1..la PROVE a[k] = Chunk(f, q, n, x + k)
    <2>1. CASE k = lb + 1
      <3>1. ~(x + k <= lf) /\ n + ((x + k) - lf) = lp + 1
        BY <1>1, <1>2, <1>5, <2>1
      <3>2. Chunk(f, q, n, x + k) = q[lp + 1]
        BY <3>1 DEF Chunk, lf
      <3> QED BY <1>2, <1>3, <2>1, <3>2
    <2>2. CASE k # lb + 1
      <3>1. k \in 1..lb
        BY <1>1, <1>2, <2>2
      <3>2. a[k] = Chunk(f, p, n, x + k)
        BY <1>2, <1>6, <3>1
      <3>3. CASE x + k <= lf
        BY <3>2, <3>3 DEF Chunk, lf
      <3>4. CASE ~(x + k <= lf)
        <4>1. n + ((x + k) - lf) \in 1..lp
          BY <1>1, <1>2, <1>5, <3>1, <3>4
        <4>2. q[n + ((x + k) - lf)] = p[n + ((x + k) - lf)]
          BY <1>3, <4>1
        <4> QED BY <3>2, <3>4, <4>2 DEF Chunk, lf
      <3> QED BY <3>3, <3>4
    <2> QED BY <2>1, <2>2
  <1>8. la <= lf + (lq - n) /\ (lb = lf + (lp - n) => la = lf + (lq - n))
    BY <1>1, <1>2, <1>3, <1>4
  <1>9. Ends(a, f, q, n)
    BY <1>5, <1>7, <1>8 DEF Ends, la, lf, lq
  <1> QED BY <1>8, <1>9 DEF Exactly, la, lb, lf, lp, lq, q

(* What is behind the file, taken for itself. *)
LEMMA EndsAlone ==
  ASSUME NEW b, NEW f \in Recording, NEW p \in Recording, NEW n \in 0..Len(p), NEW q \in Recording,
         Len(q) = Len(p) - n, \A k \in 1..(Len(p) - n) : q[k] = p[n + k],
         Ends(b, f, p, n), Len(b) \in Nat
  PROVE  Ends(b, f, q, 0)
PROOF
  <1> DEFINE lb == Len(b)
             lf == Len(f)
             lp == Len(p)
             lq == Len(q)
  <1>1. lb \in Nat /\ lf \in Nat /\ lp \in Nat /\ n \in 0..lp /\ lq = lp - n
        /\ \A k \in 1..(lp - n) : q[k] = p[n + k]
    BY LengthOf
  <1>2. lb <= lf + (lp - n) /\ \A k \in 1..lb : b[k] = Chunk(f, p, n, ((lf + (lp - n)) - lb) + k)
    BY DEF Ends
  <1> HIDE DEF lb, lf, lp, lq
  <1> DEFINE x == (lf + (lp - n)) - lb
  <1>3. x \in Nat /\ (lf + (lq - 0)) - lb = x /\ lb <= lf + (lq - 0) /\ x + lb = lf + (lp - n)
    BY <1>1, <1>2
  <1>4. \A k \in 1..lb : b[k] = Chunk(f, p, n, x + k)
    BY <1>2
  <1> HIDE DEF x
  <1>5. ASSUME NEW k \in 1..lb PROVE b[k] = Chunk(f, q, 0, x + k)
    <2>1. CASE x + k <= lf
      BY <1>4, <2>1 DEF Chunk, lf
    <2>2. CASE ~(x + k <= lf)
      <3> DEFINE j == (x + k) - lf
      <3>1. j \in 1..(lp - n) /\ 0 + j = j
        BY <1>1, <1>3, <2>2
      <3>2. q[0 + j] = p[n + j]
        <4> HIDE DEF j
        <4> QED BY <1>1, <3>1
      <3> QED BY <1>4, <2>2, <3>2 DEF Chunk, lf
    <2> QED BY <2>1, <2>2
  <1> QED BY <1>3, <1>5 DEF Ends, lb, lf, lq

(* And with the file: b is a suffix of what the file and the rest come to. *)
LEMMA EndsIsSuffix ==
  ASSUME NEW b \in Recording, NEW f \in Recording, NEW q \in Recording, Ends(b, f, q, 0)
  PROVE  IsSuffix(b, f \o q)
PROOF
  <1> DEFINE t == f \o q
             lb == Len(b)
             lf == Len(f)
             lq == Len(q)
             lt == Len(t)
  <1>1. /\ t \in Recording /\ lt = lf + lq /\ (\A k \in 1..lf : t[k] = f[k])
        /\ (\A k \in 1..lq : t[lf + k] = q[k])
    BY JoinIs
  <1>2. lb \in Nat /\ lf \in Nat /\ lq \in Nat
    BY LengthOf
  <1>3. lb <= lf + (lq - 0) /\ \A k \in 1..lb : b[k] = Chunk(f, q, 0, ((lf + (lq - 0)) - lb) + k)
    BY DEF Ends
  <1> HIDE DEF t, lb, lf, lq, lt
  <1> DEFINE x == lt - lb
  <1>4. x \in Nat /\ (lf + (lq - 0)) - lb = x /\ lb <= lt /\ x + lb = lf + lq
    BY <1>1, <1>2, <1>3
  <1>5. \A k \in 1..lb : b[k] = Chunk(f, q, 0, x + k)
    BY <1>3, <1>4
  <1> HIDE DEF x
  <1>6. ASSUME NEW k \in 1..lb PROVE t[x + k] = b[k]
    <2>1. CASE x + k <= lf
      <3>1. x + k \in 1..lf
        BY <1>2, <1>4, <2>1
      <3> QED BY <1>1, <1>5, <2>1, <3>1 DEF Chunk, lf
    <2>2. CASE ~(x + k <= lf)
      <3> DEFINE j == (x + k) - lf
      <3>1. j \in 1..lq /\ 0 + j = j /\ lf + j = x + k
        BY <1>2, <1>4, <2>2
      <3>2. b[k] = q[0 + j]
        BY <1>5, <2>2 DEF Chunk, lf
      <3> HIDE DEF j
      <3> QED BY <1>1, <3>1, <3>2
    <2> QED BY <2>1, <2>2
  <1>7. EndsWith(t, b)
    BY <1>4, <1>6 DEF EndsWith, lt, lb, x
  <1>8. IsSuffix(b, t)
    BY <1>1, <1>7, SuffixIs
  <1> QED BY <1>8 DEF t

(* What is appended to the file is no longer behind it. *)
LEMMA EndsMoved ==
  ASSUME NEW b \in Recording, NEW f \in Recording, NEW p \in Recording, NEW w \in Recording,
         Begins(w, p), Ends(b, f, p, 0)
  PROVE  Ends(b, f \o w, p, Len(w))
PROOF
  <1> DEFINE g == f \o w
             lb == Len(b)
             lf == Len(f)
             lp == Len(p)
             lw == Len(w)
             lg == Len(g)
  <1>1. /\ lg = lf + lw /\ (\A k \in 1..lf : g[k] = f[k]) /\ (\A k \in 1..lw : g[lf + k] = w[k])
    BY JoinIs
  <1>2. lb \in Nat /\ lf \in Nat /\ lp \in Nat /\ lw \in Nat /\ lw <= lp
        /\ \A k \in 1..lw : p[k] = w[k]
    BY LengthOf DEF Begins
  <1>3. lb <= lf + (lp - 0) /\ \A k \in 1..lb : b[k] = Chunk(f, p, 0, ((lf + (lp - 0)) - lb) + k)
    BY DEF Ends
  <1> HIDE DEF g, lb, lf, lp, lw, lg
  <1> DEFINE x == (lf + lp) - lb
  <1>4. x \in Nat /\ (lf + (lp - 0)) - lb = x /\ (lg + (lp - lw)) - lb = x /\ lb <= lg + (lp - lw)
        /\ x + lb = lf + lp
    BY <1>1, <1>2, <1>3
  <1>5. \A k \in 1..lb : b[k] = Chunk(f, p, 0, x + k)
    BY <1>3, <1>4
  <1> HIDE DEF x
  <1>6. ASSUME NEW k \in 1..lb PROVE b[k] = Chunk(g, p, lw, x + k)
    <2>1. CASE x + k <= lf
      <3>1. x + k \in 1..lf /\ x + k <= lg
        BY <1>1, <1>2, <1>4, <2>1
      <3> QED BY <1>1, <1>5, <2>1, <3>1 DEF Chunk, lf, lg
    <2>2. CASE ~(x + k <= lf)
      <3> DEFINE j == (x + k) - lf
      <3>1. j \in 1..lp /\ 0 + j = j /\ lf + j = x + k
        BY <1>2, <1>4, <2>2
      <3>2. b[k] = p[0 + j]
        BY <1>5, <2>2 DEF Chunk, lf
      <3>3. CASE j <= lw
        <4>1. j \in 1..lw /\ x + k <= lg
          <5>1. j = (x + k) - lf
            OBVIOUS
          <5> HIDE DEF j
          <5> QED BY <1>1, <1>2, <1>4, <3>1, <3>3, <5>1
        <4>2. Chunk(g, p, lw, x + k) = g[x + k]
          BY <4>1 DEF Chunk, lg
        <4> HIDE DEF j
        <4>3. g[x + k] = w[j] /\ p[j] = w[j]
          BY <1>1, <1>2, <3>1, <4>1
        <4> QED BY <3>1, <3>2, <4>2, <4>3
      <3>4. CASE ~(j <= lw)
        <4>1. ~(x + k <= lg) /\ lw + ((x + k) - lg) = j
          <5>1. j = (x + k) - lf
            OBVIOUS
          <5> HIDE DEF j
          <5> QED BY <1>1, <1>2, <1>4, <3>1, <3>4, <5>1
        <4>2. Chunk(g, p, lw, x + k) = p[lw + ((x + k) - lg)]
          BY <4>1 DEF Chunk, lg
        <4> HIDE DEF j
        <4> QED BY <3>1, <3>2, <4>1, <4>2
      <3> QED BY <3>3, <3>4
    <2> QED BY <2>1, <2>2
  <1> QED BY <1>4, <1>6 DEF Ends, lb, lf, lp, lw, lg, g

(* The recording itself, with nothing new behind it. *)
LEMMA ExactlyItself ==
  ASSUME NEW b \in Recording, NEW p \in Recording
  PROVE  Exactly(b, b, p, Len(p))
PROOF
  <1> DEFINE l == Len(b)
             n == Len(p)
  <1>1. l \in Nat /\ n \in Nat
    BY LengthOf
  <1> HIDE DEF l, n
  <1>2. l + (n - n) = l /\ \A k \in 1..l : ((l + (n - n)) - l) + k = k /\ k <= l
    BY <1>1
  <1>3. l <= l + (n - n)
    BY <1>1
  <1>4. \A k \in 1..l : Chunk(b, p, n, ((l + (n - n)) - l) + k) = b[k]
    BY <1>2 DEF Chunk, l
  <1> QED BY <1>2, <1>3, <1>4 DEF Exactly, Ends, l, n

(* The snapshot s is of what terminal s.term has in memory, or of an earlier
   generation of it; as a replacement it would leave a file, or has left the
   file `old`, that is the buffer but for what was printed since. *)
Whole(s, old) ==
  /\ s.gen <= mem[s.term].gen /\ mem[s.term].saved <= s.gen
  /\ s.replace /\ s.gen = mem[s.term].gen
       => Exactly(mem[s.term].buf, old, mem[s.term].pending, Len(s.pending))

(* An append is written behind what it was to follow. *)
Placed(s) == ~s.replace => file[s.term] # NoFile

(* The inductive invariant behind RestoreShowsBuffer: what is not on disk yet
   ends the file as the buffer ends, and what is still to be written keeps it so. *)
ShowsInv ==
  /\ \A i \in open : up /\ file[i] # NoFile /\ mem[i].gen = mem[i].saved
                       => Ends(mem[i].buf, file[i], mem[i].pending, Acked(i))
  /\ \A s \in todo : Live(s) => Whole(s, s.payload) /\ Placed(s)
  /\ flush = "writing" => Whole(cur, cur.payload) /\ Placed(cur)
  /\ flush = "written" => Whole(cur, file[cur.term])

(* What a step of the terminals does to terminal i while something is to be
   written of it: it goes on as it is, records a chunk, leaves the deck, or is
   another session from then on. *)
Goes(i) ==
  \/ mem'[i] = mem[i] /\ life'[i] = life[i] /\ (i \in open' <=> i \in open)
  \/ /\ i \in open /\ i \in open' /\ life'[i] = life[i]
     /\ \E c \in Nat, d \in Nat : /\ Grown(mem'[i].buf, mem[i].buf, c, d)
                                  /\ mem'[i].gen = mem[i].gen + (IF d > 0 THEN 1 ELSE 0)
                                  /\ mem'[i].pending = Append(mem[i].pending, c)
                                  /\ mem'[i].saved = mem[i].saved
  \/ i \notin open'
  \/ /\ i \notin open /\ life'[i] = life[i] + 1
     /\ mem'[i].gen = mem'[i].saved /\ file[i] # NoFile
          => Ends(mem'[i].buf, file[i], mem'[i].pending, 0)

LEMMA WholeGoes ==
  ASSUME OwnersInv, OwnersInv', SnapInv, NEW s \in ToWrite, NEW old \in Recording, Whole(s, old),
         Begins(s.pending, mem[s.term].pending), Goes(s.term), s.term \in open, s.term \in open',
         life'[s.term] = life[s.term]
  PROVE  Whole(s, old)'
PROOF
  <1> DEFINE i == s.term
             n == Len(s.pending)
             p == mem[s.term].pending
  <1>1. /\ s.term \in Terms /\ s.gen \in Nat /\ s.pending \in Recording
        /\ mem[i].gen \in Nat /\ mem[i].saved \in Nat /\ p \in Recording
        /\ mem[i].buf \in Recording /\ mem'[i].buf \in Recording /\ mem'[i].gen \in Nat
        /\ life[i] \in Nat
    BY DEF ToWrite, OwnersInv, InMemory
  <1>2. n \in 0..Len(p)
    BY <1>1, LengthOf DEF Begins
  <1>3. /\ s.gen <= mem[i].gen /\ mem[i].saved <= s.gen
        /\ s.replace /\ s.gen = mem[i].gen => Exactly(mem[i].buf, old, p, n)
    BY DEF Whole
  <1>4. CASE mem'[i] = mem[i]
    BY <1>4 DEF Whole
  <1>5. CASE \E c \in Nat, d \in Nat : /\ Grown(mem'[i].buf, mem[i].buf, c, d)
                                      /\ mem'[i].gen = mem[i].gen + (IF d > 0 THEN 1 ELSE 0)
                                      /\ mem'[i].pending = Append(p, c)
                                      /\ mem'[i].saved = mem[i].saved
    <2>1. PICK c \in Nat, d \in Nat : /\ Grown(mem'[i].buf, mem[i].buf, c, d)
                                      /\ mem'[i].gen = mem[i].gen + (IF d > 0 THEN 1 ELSE 0)
                                      /\ mem'[i].pending = Append(p, c)
                                      /\ mem'[i].saved = mem[i].saved
      BY <1>5
    <2>2. s.gen <= mem'[i].gen /\ mem'[i].saved <= s.gen
      BY <1>1, <1>3, <2>1
    <2>3. ASSUME s.replace, s.gen = mem'[i].gen PROVE Exactly(mem'[i].buf, old, mem'[i].pending, n)
      <3>1. d = 0 /\ s.gen = mem[i].gen
        BY <1>1, <1>3, <2>1, <2>3
      <3>2. Exactly(mem[i].buf, old, p, n) /\ Ends(mem[i].buf, old, p, n)
        BY <1>3, <2>3, <3>1 DEF Exactly
      <3>3. Grown(mem'[i].buf, mem[i].buf, c, 0)
        BY <2>1, <3>1
      <3> HIDE DEF i, n, p
      <3>4. Exactly(mem'[i].buf, old, Append(p, c), n)
        BY <1>1, <1>2, <3>2, <3>3, EndsGrown
      <3> QED BY <2>1, <3>4
    <2> QED BY <2>2, <2>3 DEF Whole
  <1> QED BY <1>1, <1>4, <1>5 DEF Goes

(* What a step leaves of a snapshot that is live after it. *)
LEMMA StillLive ==
  ASSUME OwnersInv, OwnersInv', SnapInv, NEW s \in todo, Live(s)', Goes(s.term)
  PROVE  /\ Live(s) /\ s \in ToWrite /\ s.term \in Terms /\ s.term \in open /\ s.term \in open'
         /\ life'[s.term] = life[s.term]
PROOF
  <1>1. s \in ToWrite /\ s.term \in Terms /\ s.life \in Nat /\ life[s.term] \in Nat
    BY DEF OwnersInv, ToWrite
  <1>2. s.term \in open' /\ s.life = life'[s.term] /\ s.life <= life[s.term]
    BY DEF Live, SnapInv
  <1>3. life'[s.term] # life[s.term] + 1
    BY <1>1, <1>2
  <1> QED BY <1>1, <1>2, <1>3 DEF Live, Goes

LEMMA ShowsKept ==
  ASSUME OwnersInv, OwnersInv', FlushInv, FlushInv', SnapInv, SnapInv', ShowsInv,
         UNCHANGED <<up, todo, cur, file>>,
         flush' = flush \/ (flush' \notin InThread /\ flush \notin InThread),
         \A i \in Terms : Goes(i)
  PROVE  ShowsInv'
PROOF
  <1>1. ASSUME NEW i \in open', up', file'[i] # NoFile, mem'[i].gen = mem'[i].saved
        PROVE  Ends(mem'[i].buf, file'[i], mem'[i].pending, Acked(i)')
    <2>1. i \in Terms
      BY DEF OwnersInv
    <2>2. /\ mem[i].gen \in Nat /\ mem[i].saved \in Nat /\ mem[i].pending \in Recording
          /\ mem[i].buf \in Recording /\ mem'[i].buf \in Recording /\ file[i] \in Recording
          /\ mem[i].saved <= mem[i].gen
      BY <2>1 DEF OwnersInv, InMemory, SnapInv, Sized
    <2>3. Acked(i)' = Acked(i)
      BY DEF Acked, InThread
    <2>4. i \in open /\ mem[i].gen = mem[i].saved
            => Ends(mem[i].buf, file[i], mem[i].pending, Acked(i))
      BY <1>1 DEF ShowsInv
    <2>5. CASE mem'[i] = mem[i] /\ i \in open
      BY <1>1, <2>3, <2>4, <2>5
    <2>6. CASE /\ i \in open
               /\ \E c \in Nat, d \in Nat : /\ Grown(mem'[i].buf, mem[i].buf, c, d)
                                            /\ mem'[i].gen = mem[i].gen + (IF d > 0 THEN 1 ELSE 0)
                                            /\ mem'[i].pending = Append(mem[i].pending, c)
                                            /\ mem'[i].saved = mem[i].saved
      <3>1. PICK c \in Nat, d \in Nat : /\ Grown(mem'[i].buf, mem[i].buf, c, d)
                                        /\ mem'[i].gen = mem[i].gen + (IF d > 0 THEN 1 ELSE 0)
                                        /\ mem'[i].pending = Append(mem[i].pending, c)
                                        /\ mem'[i].saved = mem[i].saved
        BY <2>6
      <3>2. d = 0 /\ mem[i].gen = mem[i].saved
        <4> DEFINE g == mem[i].gen
                   v == mem[i].saved
        <4>1. g + (IF d > 0 THEN 1 ELSE 0) = v /\ g \in Nat /\ v \in Nat /\ v <= g /\ d \in Nat
          BY <1>1, <2>2, <3>1
        <4> HIDE DEF g, v
        <4>2. d = 0 /\ g = v
          BY <4>1
        <4> QED BY <4>2 DEF g, v
      <3>3. Grown(mem'[i].buf, mem[i].buf, c, 0)
        BY <3>1, <3>2
      <3>4. Ends(mem[i].buf, file[i], mem[i].pending, Acked(i))
        BY <2>4, <2>6, <3>2
      <3>5. Acked(i) \in 0..Len(mem[i].pending)
        BY <2>1, Counted
      <3>6. Ends(mem'[i].buf, file[i], Append(mem[i].pending, c), Acked(i))
        BY <2>2, <3>3, <3>4, <3>5, EndsGrown
      <3> QED BY <2>3, <3>1, <3>6
    <2>7. CASE /\ i \notin open
               /\ mem'[i].gen = mem'[i].saved /\ file[i] # NoFile
                    => Ends(mem'[i].buf, file[i], mem'[i].pending, 0)
      <3>1. Acked(i) = 0
        BY <2>7 DEF Acked, FlushInv, WriterOwns
      <3> QED BY <1>1, <2>3, <2>7, <3>1
    <2> QED BY <1>1, <2>1, <2>5, <2>6, <2>7 DEF Goes
  <1>2. ASSUME NEW s \in todo, Live(s)' PROVE Whole(s, s.payload)' /\ Placed(s)'
    <2>1. s \in ToWrite /\ s.term \in Terms /\ s.payload \in Recording
      BY DEF OwnersInv, ToWrite
    <2>2. /\ Live(s) /\ s.term \in open /\ s.term \in open' /\ life'[s.term] = life[s.term]
      BY <1>2, <2>1, StillLive
    <2>3. Whole(s, s.payload) /\ Placed(s) /\ Begins(s.pending, mem[s.term].pending)
      BY <2>2 DEF ShowsInv, SnapInv, Ready
    <2>4. Whole(s, s.payload)'
      BY <2>1, <2>2, <2>3, WholeGoes DEF Whole
    <2> QED BY <2>3, <2>4 DEF Placed
  <1>3. ASSUME flush' \in {"writing", "written"}
        PROVE  /\ flush' = "writing" => Whole(cur, cur.payload)' /\ Placed(cur)'
               /\ flush' = "written" => Whole(cur, file[cur.term])'
    <2>1. flush' = flush
      BY <1>3 DEF InThread
    <2>2. PICK c \in ToWrite : c = cur
      BY <1>3, <2>1 DEF OwnersInv, InThread
    <2>3. PICK f \in Recording : f = file[c.term]
      BY DEF OwnersInv, ToWrite
    <2>4. c.term \in Terms /\ c.payload \in Recording
      BY DEF ToWrite
    <2>5. /\ c.term \in open /\ c.life = life[c.term]
          /\ c.term \in open' /\ c.life = life'[c.term]
      BY <1>3, <2>1, <2>2 DEF FlushInv, WriterOwns
    <2>6. Begins(c.pending, mem[c.term].pending)
      BY <1>3, <2>1, <2>2 DEF SnapInv, Ready
    <2>7. CASE flush = "writing"
      <3>1. Whole(c, c.payload) /\ Placed(c)
        BY <2>2, <2>7 DEF ShowsInv
      <3>2. Whole(c, c.payload)'
        BY <2>4, <2>5, <2>6, <3>1, WholeGoes
      <3>3. Placed(c)'
        BY <3>1 DEF Placed
      <3> QED BY <2>1, <2>2, <2>7, <3>2, <3>3 DEF Whole, Placed
    <2>8. CASE flush = "written"
      <3>1. Whole(c, f)
        BY <2>2, <2>3, <2>8 DEF ShowsInv
      <3>2. Whole(c, f)'
        BY <2>4, <2>5, <2>6, <3>1, WholeGoes
      <3> QED BY <2>1, <2>2, <2>3, <2>8, <3>2 DEF Whole
    <2> QED BY <1>3, <2>1, <2>7, <2>8
  <1> QED BY <1>1, <1>2, <1>3 DEF ShowsInv

(* One more chunk of terminal i, and nothing else. *)
LEMMA RecordGoes ==
  ASSUME OwnersInv, NEW i \in Terms, Record(i), i \in open, UNCHANGED <<open, life>>
  PROVE  \A j \in Terms : Goes(j)
PROOF
  <1>1. /\ Recorded(mem'[i], mem[i].buf, out[i] + 1, mem[i].gen)
        /\ mem'[i].pending = Append(mem[i].pending, out[i] + 1)
        /\ mem'[i].saved = mem[i].saved
        /\ \A j \in Terms : j # i => mem'[j] = mem[j]
    BY RecordIs
  <1>2. out[i] + 1 \in Nat
    BY DEF OwnersInv
  <1>3. PICK c \in Nat : c = out[i] + 1
    BY <1>2
  <1>4. PICK d \in Nat : /\ Grown(mem'[i].buf, mem[i].buf, c, d)
                         /\ mem'[i].gen = mem[i].gen + (IF d > 0 THEN 1 ELSE 0)
    BY <1>1, <1>3 DEF Recorded
  <1>5. Goes(i)
    BY <1>1, <1>3, <1>4 DEF Goes
  <1>6. \A j \in Terms : j # i => Goes(j)
    BY <1>1 DEF Goes
  <1> QED BY <1>5, <1>6

(* Reopened, a terminal shows its file and its first line. *)
LEMMA ReopenGoes ==
  ASSUME OwnersInv, OwnersInv', FlushInv, NEW i \in Terms, Reopen(i)
  PROVE  \A j \in Terms : Goes(j)
PROOF
  <1>1. /\ i \in closed /\ open' = open \cup {i} /\ life' = [life EXCEPT ![i] = @ + 1]
    BY DEF Reopen
  <1>2. /\ Recorded(mem'[i], file[i], out[i] + 1, 0)
        /\ mem'[i].pending = <<out[i] + 1>> /\ mem'[i].saved = 0
        /\ \A j \in Terms : j # i => mem'[j] = mem[j]
    BY ReopenIs
  <1>3. i \notin open /\ life'[i] = life[i] + 1 /\ \A j \in Terms : j # i => life'[j] = life[j]
    BY <1>1 DEF FlushInv
  <1>4. ASSUME mem'[i].gen = mem'[i].saved PROVE Ends(mem'[i].buf, file[i], mem'[i].pending, 0)
    <2>1. PICK d \in Nat : /\ Grown(mem'[i].buf, file[i], out[i] + 1, d)
                           /\ mem'[i].gen = 0 + (IF d > 0 THEN 1 ELSE 0)
      BY <1>2 DEF Recorded
    <2>2. d = 0
      BY <1>2, <1>4, <2>1
    <2> DEFINE none == <<>>
               c == out[i] + 1
               f == file[i]
               b == mem'[i].buf
    <2>3. none \in Recording /\ c \in Nat /\ f \in Recording /\ b \in Recording
          /\ Len(none) = 0 /\ Append(none, c) = <<c>> /\ Grown(b, f, c, 0)
      BY <2>1, <2>2, SMTT(20) DEF Recording, OwnersInv, InMemory
    <2>4. mem'[i].pending = <<c>>
      BY <1>2
    <2> HIDE DEF none, c, f, b
    <2>5. Exactly(f, f, none, 0)
      BY <2>3, ExactlyItself
    <2>6. 0 \in 0..Len(none)
      BY <2>3
    <2>7. Ends(b, f, Append(none, c), 0)
      BY <2>3, <2>5, <2>6, EndsGrown DEF Exactly
    <2> QED BY <2>3, <2>4, <2>7 DEF b, f
  <1>5. Goes(i)
    BY <1>3, <1>4 DEF Goes
  <1>6. \A j \in Terms : j # i => Goes(j)
    BY <1>1, <1>2, <1>3 DEF Goes
  <1> QED BY <1>5, <1>6

(* A snapshot just taken is of what is in memory. *)
LEMMA SnapshotWhole ==
  ASSUME OwnersInv, SnapInv, NEW i \in Terms, Due(i), NEW s, s = Snapshot(i)
  PROVE  Whole(s, s.payload) /\ Placed(s)
PROOF
  <1>1. /\ s.term = i /\ s.gen = mem[i].gen /\ s.pending = mem[i].pending
        /\ s.replace = Replaces(i) /\ (Replaces(i) => s.payload = mem[i].buf)
    BY DEF Snapshot
  <1>2. /\ mem[i].buf \in Recording /\ mem[i].pending \in Recording /\ mem[i].gen \in Nat
        /\ mem[i].saved \in Nat /\ mem[i].saved <= mem[i].gen
    BY DEF OwnersInv, InMemory, SnapInv, Sized
  <1>3. s.gen <= mem[i].gen /\ mem[i].saved <= s.gen
    BY <1>1, <1>2
  <1>4. Exactly(mem[i].buf, mem[i].buf, mem[i].pending, Len(mem[i].pending))
    BY <1>2, ExactlyItself
  <1>5. Whole(s, s.payload)
    BY <1>1, <1>3, <1>4 DEF Whole
  <1>6. ~Replaces(i) => file[i] # NoFile
    BY DEF Replaces
  <1> QED BY <1>1, <1>5, <1>6 DEF Placed

LEMMA ShowsStep ==
  ASSUME "torn" \notin Faults, "overlap" \notin Faults,
         FlushInv, FlushInv', OwnersInv, OwnersInv', SnapInv, SnapInv', ShowsInv, [Next]_vars
  PROVE  ShowsInv'
PROOF
  <1>0. \A i \in open : up /\ file[i] # NoFile /\ mem[i].gen = mem[i].saved
                          => Ends(mem[i].buf, file[i], mem[i].pending, Acked(i))
    BY DEF ShowsInv
  <1>1. ASSUME NEW i \in Terms, Record(i), i \in open, UNCHANGED <<up, open, life, todo, cur, file>>,
               flush' = flush \/ (flush' \notin InThread /\ flush \notin InThread)
        PROVE  ShowsInv'
    <2>1. \A j \in Terms : Goes(j)
      BY <1>1, RecordGoes
    <2> QED BY <1>1, <2>1, ShowsKept
  <1>2. ASSUME UNCHANGED <<up, open, life, mem, todo, cur, file>>,
               flush' = flush \/ (flush' \notin InThread /\ flush \notin InThread)
        PROVE  ShowsInv'
    <2>1. \A j \in Terms : Goes(j)
      BY <1>2 DEF Goes
    <2> QED BY <1>2, <2>1, ShowsKept
  <1>3. ASSUME NEW i \in Terms, Output(i) \/ Start(i) PROVE ShowsInv'
    <2>1. /\ Record(i) /\ i \in open /\ UNCHANGED <<up, open, life, todo, cur, file>>
          /\ flush' = flush \/ (flush' \notin InThread /\ flush \notin InThread)
      BY <1>3 DEF Output, Start, Arm, InThread
    <2> QED BY <1>1, <2>1
  <1>4. ASSUME NEW i \in Terms, Input(i) \/ Exits(i) \/ CloseBegins(i) \/ Purge(i) PROVE ShowsInv'
    <2>1. /\ UNCHANGED <<up, open, life, mem, todo, cur, file>>
          /\ flush' = flush \/ (flush' \notin InThread /\ flush \notin InThread)
      BY <1>4 DEF Input, Exits, CloseBegins, Purge, Arm, InThread
    <2> QED BY <1>2, <2>1
  <1>5. ASSUME NEW i \in Terms, Reattach(i) PROVE ShowsInv'
    <2>1. CASE Record(i)
      <3>1. /\ i \in open /\ UNCHANGED <<up, open, life, todo, cur, file>>
            /\ flush' = flush \/ (flush' \notin InThread /\ flush \notin InThread)
        BY <1>5 DEF Reattach, Arm, InThread
      <3> QED BY <1>1, <2>1, <3>1
    <2>2. CASE UNCHANGED <<mem, out, flush>>
      <3>1. UNCHANGED <<up, open, life, mem, todo, cur, file>> /\ flush' = flush
        BY <1>5, <2>2 DEF Reattach
      <3> QED BY <1>2, <3>1
    <2> QED BY <1>5, <2>1, <2>2 DEF Reattach
  <1>6. ASSUME NEW i \in Terms, NEW kept \in BOOLEAN, CloseEnds(i, kept) PROVE ShowsInv'
    <2>1. /\ open' = open \ {i} /\ mem' = [mem EXCEPT ![i] = NewMem]
          /\ UNCHANGED <<up, todo, cur, file, life, flush>>
      BY <1>6 DEF CloseEnds
    <2>2. \A j \in Terms : j # i => mem'[j] = mem[j]
      BY <2>1 DEF OwnersInv
    <2>3. \A j \in Terms : Goes(j)
      BY <2>1, <2>2 DEF Goes
    <2> QED BY <2>1, <2>3, ShowsKept
  <1>7. ASSUME NEW i \in Terms, Reopen(i) PROVE ShowsInv'
    <2>1. UNCHANGED <<up, todo, cur, file, flush>>
      BY <1>7 DEF Reopen
    <2> QED BY <1>7, <2>1, ReopenGoes, ShowsKept
  <1>8. CASE FlushBegins
    <2>1. /\ todo' = Snapshots /\ flush' \notin InThread /\ flush \notin InThread
          /\ UNCHANGED <<up, open, mem, life, file>>
      BY <1>8 DEF FlushBegins, InThread
    <2>2. \A i \in Terms : Acked(i)' = Acked(i)
      BY <2>1 DEF Acked, InThread
    <2>3. ASSUME NEW s \in todo' PROVE Whole(s, s.payload)' /\ Placed(s)'
      <3>1. PICK i \in Terms : Due(i) /\ s = Snapshot(i)
        BY <2>1 DEF Snapshots
      <3>2. Whole(s, s.payload) /\ Placed(s)
        BY <3>1, SnapshotWhole
      <3> QED BY <2>1, <3>2 DEF Whole, Placed
    <2>4. \A i \in open' : i \in Terms
      BY DEF OwnersInv
    <2> QED BY <1>0, <2>1, <2>2, <2>3, <2>4 DEF ShowsInv, InThread
  <1>9. ASSUME NEW s \in todo, FlushSkips(s) PROVE ShowsInv'
    <2>1. /\ UNCHANGED <<up, open, mem, life, file>> /\ todo' \subseteq todo
          /\ flush' \notin InThread /\ flush \notin InThread
      BY <1>9 DEF FlushSkips, Continue, InThread
    <2>2. \A i \in open' : Acked(i)' = Acked(i)
      BY <2>1 DEF Acked, InThread
    <2>3. \A t \in todo' : Live(t)' => Whole(t, t.payload)' /\ Placed(t)'
      BY <2>1 DEF ShowsInv, Live, Whole, Placed
    <2> QED BY <1>0, <2>1, <2>2, <2>3 DEF ShowsInv, InThread
  <1>10. ASSUME NEW s \in todo, FlushWrites(s) PROVE ShowsInv'
    <2>1. /\ UNCHANGED <<up, open, mem, life, file>> /\ todo' = todo \ {s} /\ cur' = s
          /\ flush' = "writing" /\ flush \notin InThread /\ StillThere(s)
      BY <1>10 DEF FlushWrites, InThread
    <2>2. \A i \in open' : Acked(i)' = Acked(i)
      BY <2>1 DEF Acked, InThread
    <2>3. Whole(s, s.payload) /\ Placed(s)
      BY <2>1 DEF ShowsInv, Live, StillThere
    <2>4. Whole(cur, cur.payload)' /\ Placed(cur)'
      BY <2>1, <2>3 DEF Whole, Placed
    <2>5. \A t \in todo' : Live(t)' => Whole(t, t.payload)' /\ Placed(t)'
      BY <2>1 DEF ShowsInv, Live, Whole, Placed
    <2> QED BY <1>0, <2>1, <2>2, <2>4, <2>5 DEF ShowsInv
  <1>11. CASE ThreadWrites
    <2>1. /\ flush = "writing" /\ UNCHANGED <<up, open, mem, life, todo, cur>>
          /\ \/ flush' = "written" /\ file' = WholeWrite(cur)
             \/ flush' = "failed" /\ file' = file
      BY <1>11 DEF ThreadWrites
    <2>2. PICK c \in ToWrite : c = cur
      BY <2>1 DEF OwnersInv, InThread
    <2> DEFINE t == c.term
    <2>3. /\ t \in Terms /\ c.payload \in Recording /\ c.pending \in Recording /\ c.gen \in Nat
          /\ c.replace \in BOOLEAN /\ file \in [Terms -> Recording] /\ file[t] \in Recording
          /\ mem[t].buf \in Recording /\ mem[t].pending \in Recording
          /\ mem[t].gen \in Nat /\ mem[t].saved \in Nat /\ t \in open
      BY <2>1, <2>2 DEF ToWrite, OwnersInv, InMemory, FlushInv, WriterOwns
    <2>4. Whole(c, c.payload) /\ Placed(c) /\ Ready(c)
      BY <2>1, <2>2 DEF ShowsInv, SnapInv
    <2>5. CASE flush' = "failed" /\ file' = file
      <3>1. \A i \in open' : Acked(i)' = Acked(i)
        BY <2>1, <2>5 DEF Acked
      <3>2. \A s \in todo' : Live(s)' => Whole(s, s.payload)' /\ Placed(s)'
        BY <2>1, <2>5 DEF ShowsInv, Live, Whole, Placed
      <3> QED BY <1>0, <2>1, <2>5, <3>1, <3>2 DEF ShowsInv
    <2>6. CASE flush' = "written" /\ file' = WholeWrite(cur)
      <3>1. /\ \A j \in Terms : j # t => file'[j] = file[j]
            /\ c.replace => file'[t] = c.payload
            /\ ~c.replace => file'[t] = file[t] \o c.pending
        BY <2>2, <2>3, <2>4, <2>6 DEF WholeWrite, Ready
      <3>2. \A s \in todo' : Live(s)' => Whole(s, s.payload)' /\ Placed(s)'
        <4> SUFFICES ASSUME NEW s \in todo, Live(s)' PROVE Whole(s, s.payload)' /\ Placed(s)'
          BY <2>1
        <4>1. s.term \in Terms /\ s.term # t
          BY <2>1, <2>2 DEF OwnersInv, ToWrite, SnapInv, InThread
        <4>2. file'[s.term] = file[s.term] /\ Whole(s, s.payload) /\ Placed(s)
          BY <2>1, <3>1, <4>1 DEF ShowsInv, Live
        <4> QED BY <2>1, <4>2 DEF Whole, Placed
      <3>3. PICK f \in Recording : f = file'[t]
        BY <2>3 DEF OwnersInv
      <3>4. Whole(cur, file[cur.term])'
        <4>1. Whole(c, f)
          BY <2>4, <3>1, <3>3 DEF Whole
        <4>2. Whole(c, f)'
          BY <2>1, <4>1 DEF Whole
        <4>3. c = cur' /\ f = file'[cur'.term]
          BY <2>1, <2>2, <3>3
        <4> QED BY <4>2, <4>3 DEF Whole
      <3>5. ASSUME NEW i \in open', up', file'[i] # NoFile, mem'[i].gen = mem'[i].saved
            PROVE  Ends(mem'[i].buf, file'[i], mem'[i].pending, Acked(i)')
        <4>1. i \in Terms /\ i \in open /\ Acked(i) = 0
          BY <2>1 DEF OwnersInv, Acked
        <4>2. CASE i # t
          <5>1. file'[i] = file[i] /\ Acked(i)' = 0
            BY <2>1, <2>2, <3>1, <4>1, <4>2 DEF Acked
          <5> QED BY <1>0, <2>1, <3>5, <4>1, <5>1
        <4>3. CASE i = t
          <5>1. Acked(i)' = Len(c.pending)
            BY <2>1, <2>2, <2>6, <4>3 DEF Acked
          <5>2. mem[t].gen = mem[t].saved
            BY <2>1, <3>5, <4>3
          <5>3. CASE c.replace
            <6>1. c.gen = mem[t].gen
              BY <2>3, <2>4, <5>2 DEF Whole
            <6>2. Exactly(mem[t].buf, c.payload, mem[t].pending, Len(c.pending))
              BY <2>4, <5>3, <6>1 DEF Whole
            <6> QED BY <2>1, <3>1, <4>3, <5>1, <5>3, <6>2 DEF Exactly
          <5>4. CASE ~c.replace
            <6>1. file[t] # NoFile
              BY <2>4, <5>4 DEF Placed
            <6>2. Ends(mem[t].buf, file[t], mem[t].pending, 0)
              BY <1>0, <2>1, <3>5, <4>1, <4>3, <5>2, <6>1
            <6>3. Begins(c.pending, mem[t].pending)
              BY <2>4 DEF Ready
            <6>4. Ends(mem[t].buf, file[t] \o c.pending, mem[t].pending, Len(c.pending))
              BY <2>3, <6>2, <6>3, EndsMoved
            <6> QED BY <2>1, <3>1, <4>3, <5>1, <5>4, <6>4
          <5> QED BY <2>3, <5>3, <5>4
        <4> QED BY <4>2, <4>3
      <3> QED BY <2>6, <3>2, <3>4, <3>5 DEF ShowsInv
    <2> QED BY <2>1, <2>5, <2>6
  <1>12. CASE FlushRecords
    <2>1. /\ flush \in {"written", "failed"} /\ UNCHANGED <<up, open, life, file, todo>>
          /\ mem' = IF flush = "written" THEN [mem EXCEPT ![cur.term] = Saved(@, cur)] ELSE mem
          /\ flush' \notin InThread
      BY <1>12 DEF FlushRecords, Continue, InThread
    <2>2. PICK t \in Terms : t = cur.term /\ t \in open
      BY <2>1 DEF OwnersInv, InThread, ToWrite, FlushInv, WriterOwns
    <2>3. \A j \in Terms : j # t => mem'[j] = mem[j]
      BY <2>1, <2>2 DEF OwnersInv
    <2>4. \A j \in Terms : Acked(j)' = 0
      BY <2>1 DEF Acked, InThread
    <2>5. \A s \in todo' : Live(s)' => Whole(s, s.payload)' /\ Placed(s)'
      <3> SUFFICES ASSUME NEW s \in todo, Live(s)' PROVE Whole(s, s.payload)' /\ Placed(s)'
        BY <2>1
      <3>1. s.term \in Terms /\ s.term # t
        BY <2>1, <2>2 DEF OwnersInv, ToWrite, SnapInv, InThread
      <3>2. mem'[s.term] = mem[s.term] /\ Whole(s, s.payload) /\ Placed(s)
        BY <2>1, <2>3, <3>1 DEF ShowsInv, Live
      <3> QED BY <2>1, <3>2 DEF Whole, Placed
    <2>6. ASSUME NEW i \in open', up', file'[i] # NoFile, mem'[i].gen = mem'[i].saved
          PROVE  Ends(mem'[i].buf, file'[i], mem'[i].pending, Acked(i)')
      <3>1. i \in Terms /\ i \in open /\ Acked(i)' = 0
        BY <2>1, <2>4 DEF OwnersInv
      <3>2. CASE mem'[i] = mem[i] /\ Acked(i) = 0
        BY <1>0, <2>1, <2>6, <3>1, <3>2
      <3>3. CASE flush = "written" /\ i = t
        <4> DEFINE m == Saved(mem[t], cur)
                   p == mem[t].pending
                   n == Len(cur.pending)
                   f == file[t]
                   b == mem[t].buf
        <4>1. /\ m.buf = b /\ m.gen = mem[t].gen /\ m.pending \in Recording
              /\ Len(m.pending) = Len(p) - n
              /\ \A k \in 1..(Len(p) - n) : m.pending[k] = p[n + k]
              /\ m.saved = IF cur.replace /\ m.gen = cur.gen THEN cur.gen ELSE mem[t].saved
          BY <2>2, <3>3, SavedIs
        <4>2. mem'[t] = m
          BY <2>1, <2>2, <3>3 DEF OwnersInv
        <4>3. Acked(t) = n
          BY <2>2, <3>3 DEF Acked
        <4>4. n \in 0..Len(p) /\ p \in Recording /\ f \in Recording /\ b \in Recording
          BY <4>3, Counted
        <4>5. m.gen = m.saved
          BY <2>6, <3>3, <4>2
        <4>6. Ends(b, f, p, n)
          <5>1. CASE cur.replace /\ m.gen = cur.gen
            <6>1. Whole(cur, file[cur.term]) /\ cur.gen = mem[cur.term].gen
              BY <2>2, <3>3, <4>1, <5>1 DEF ShowsInv
            <6> QED BY <2>2, <5>1, <6>1 DEF Whole, Exactly
          <5>2. CASE ~(cur.replace /\ m.gen = cur.gen)
            <6>1. mem[t].gen = mem[t].saved
              BY <4>1, <4>5, <5>2
            <6> QED BY <1>0, <2>1, <2>2, <2>6, <3>3, <4>3, <6>1
          <5> QED BY <5>1, <5>2
        <4>7. PICK q \in Recording : q = m.pending
          BY <4>1
        <4> HIDE DEF m, p, n, f, b
        <4>8. Len(b) \in Nat /\ Len(q) = Len(p) - n /\ \A k \in 1..(Len(p) - n) : q[k] = p[n + k]
          BY <4>1, <4>4, <4>7, LengthOf
        <4>9. Ends(b, f, q, 0)
          BY <4>4, <4>6, <4>8, EndsAlone
        <4> QED BY <2>1, <3>1, <3>3, <4>1, <4>2, <4>7, <4>9 DEF f
      <3>4. (flush = "written" /\ i = t) \/ (mem'[i] = mem[i] /\ Acked(i) = 0)
        BY <2>1, <2>2, <2>3, <3>1 DEF Acked
      <3> QED BY <3>2, <3>3, <3>4
    <2> QED BY <2>1, <2>5, <2>6 DEF ShowsInv, InThread
  <1>13. CASE SweepBegins \/ SweepReadsOpen \/ SweepReadsClosed
    <2>1. UNCHANGED <<up, open, life, mem, todo, cur, file, flush>>
      BY <1>13 DEF SweepBegins, SweepReadsOpen, SweepReadsClosed
    <2> QED BY <1>2, <2>1
  <1>14. CASE SweepEnds
    <2>1. /\ UNCHANGED <<up, open, life, mem, todo, cur, flush>> /\ sweep = "read"
          /\ file' = [i \in Terms |-> IF i \in keep THEN file[i] ELSE NoFile]
      BY <1>14 DEF SweepEnds
    <2>2. open \subseteq keep /\ open \subseteq Terms
      BY <2>1 DEF OwnersInv
    <2>3. \A i \in open : file'[i] = file[i]
      BY <2>1, <2>2
    <2>4. flush \notin InThread
      BY <2>1, WaitersDiffer DEF FlushInv, WriterOwns, InThread, Holds
    <2>5. \A i \in open' : Acked(i)' = Acked(i)
      BY <2>1 DEF Acked
    <2>6. \A s \in todo' : Live(s)' => Whole(s, s.payload)' /\ Placed(s)'
      BY <2>1, <2>3 DEF ShowsInv, Live, Whole, Placed
    <2> QED BY <1>0, <2>1, <2>3, <2>4, <2>5, <2>6 DEF ShowsInv, InThread
  <1>15. CASE ServerDies
    BY <1>15 DEF ServerDies, ShowsInv
  <1>16. CASE ServerStarts
    <2>1. /\ ~up /\ UNCHANGED <<open, life, file, flush, todo, cur>>
          /\ mem' = [i \in Terms |-> IF i \in open THEN Restored(i) ELSE NewMem]
      BY <1>16 DEF ServerStarts
    <2>2. flush = "none" /\ todo = {}
      BY <2>1 DEF SnapInv
    <2>3. ASSUME NEW i \in open' PROVE Ends(mem'[i].buf, file'[i], mem'[i].pending, Acked(i)')
      <3> DEFINE none == <<>>
      <3>1. /\ i \in Terms /\ mem'[i].buf = file[i] /\ mem'[i].pending = none
            /\ Len(none) = 0 /\ none \in Recording /\ file[i] \in Recording
        BY <2>1 DEF NewMem, Restored, OwnersInv, Recording
      <3>2. Acked(i)' = 0
        BY <2>1, <2>2 DEF Acked
      <3> HIDE DEF none
      <3>3. Exactly(file[i], file[i], none, Len(none))
        BY <3>1, ExactlyItself
      <3> QED BY <2>1, <3>1, <3>2, <3>3 DEF Exactly
    <2> QED BY <2>1, <2>2, <2>3 DEF ShowsInv
  <1>17. CASE UNCHANGED vars
    <2>1. UNCHANGED <<up, open, life, mem, todo, cur, file, flush>>
      BY <1>17 DEF vars
    <2> QED BY <1>2, <2>1
  <1> QED
    BY <1>3, <1>4, <1>5, <1>6, <1>7, <1>8, <1>9, <1>10, <1>11, <1>12, <1>13, <1>14, <1>15,
       <1>16, <1>17 DEF Next, Flush, Sweep, Close

(* restore_saved_buffers against the buffer a window is attached to: while
   appends are not torn and nothing is reopened under the sweep's thread, what the next
   server would restore, with what the next append adds, ends as the buffer in
   memory, however appends, replacements, compactions and deaths alternate.  A
   recording that was compacted in memory is exempt until it is replaced on disk. *)
THEOREM RestoresShowBuffers ==
  ASSUME "torn" \notin Faults, "overlap" \notin Faults
  PROVE  Spec => []RestoreShowsBuffer
PROOF
  <1> DEFINE Inv == SizedInv /\ ShowsInv
  <1>1. Init => Inv
    <2> SUFFICES ASSUME Init PROVE Inv
      OBVIOUS
    <2>1. FlushInv /\ OwnersInv /\ SnapInv /\ KindsInv
      BY InitSized
    <2>2. open = Terms /\ file = [i \in Terms |-> NoFile] /\ todo = {} /\ flush = "none"
      BY DEF Init
    <2> QED BY <2>1, <2>2 DEF ShowsInv, SizedInv
  <1>2. Inv => RestoreShowsBuffer
    <2> SUFFICES ASSUME Inv, NEW i \in open, up, file[i] # NoFile, mem[i].gen = mem[i].saved
                 PROVE  IsSuffix(mem[i].buf, file[i] \o Unsaved(i))
      BY DEF RestoreShowsBuffer
    <2>1. OwnersInv /\ SnapInv /\ i \in Terms
      BY DEF SizedInv, OwnersInv
    <2>2. Ends(mem[i].buf, file[i], mem[i].pending, Acked(i))
      BY DEF ShowsInv
    <2>3. /\ mem[i].buf \in Recording /\ mem[i].pending \in Recording /\ file[i] \in Recording
          /\ Acked(i) \in 0..Len(mem[i].pending)
      BY <2>1, Counted
    <2>4. CASE flush = "written" /\ cur.term = i
      <3> DEFINE m == Saved(mem[i], cur)
                 p == mem[i].pending
                 n == Len(cur.pending)
                 b == mem[i].buf
                 f == file[i]
      <3>1. /\ m.pending \in Recording /\ Len(m.pending) = Len(p) - n
            /\ \A k \in 1..(Len(p) - n) : m.pending[k] = p[n + k]
        BY <2>1, <2>4, SavedIs
      <3>2. Unsaved(i) = m.pending /\ Acked(i) = n
        BY <2>4 DEF Unsaved, Acked
      <3>3. PICK q \in Recording : q = m.pending
        BY <3>1
      <3>4. Ends(b, f, p, n) /\ p \in Recording /\ b \in Recording /\ f \in Recording /\ n \in 0..Len(p)
        BY <2>2, <2>3, <3>2
      <3> HIDE DEF m, p, n, b, f
      <3>5. Len(b) \in Nat /\ Len(q) = Len(p) - n /\ \A k \in 1..(Len(p) - n) : q[k] = p[n + k]
        BY <3>1, <3>3, <3>4, LengthOf
      <3>6. Ends(b, f, q, 0)
        BY <3>4, <3>5, EndsAlone
      <3>7. IsSuffix(b, f \o q)
        BY <3>4, <3>6, EndsIsSuffix
      <3> QED BY <3>2, <3>3, <3>7 DEF b, f
    <2>5. CASE ~(flush = "written" /\ cur.term = i)
      <3>1. Unsaved(i) = mem[i].pending /\ Acked(i) = 0
        BY <2>5 DEF Unsaved, Acked
      <3> QED BY <2>2, <2>3, <3>1, EndsIsSuffix
    <2> QED BY <2>4, <2>5
  <1>3. Inv /\ [Next]_vars => Inv'
    BY SizedStep, ShowsStep DEF SizedInv
  <1> QED BY <1>1, <1>2, <1>3, PTL DEF Spec

=============================================================================
