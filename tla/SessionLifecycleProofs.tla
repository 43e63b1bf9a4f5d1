----------------------- MODULE SessionLifecycleProofs -----------------------
(***************************************************************************)
(* What holds of the session lifecycle for any number of terminals, of     *)
(* requests in flight, of spawns and of server deaths.                     *)
(***************************************************************************)
EXTENDS SessionLifecycle, SequenceTheorems, FiniteSetTheorems, TLAPS

-----------------------------------------------------------------------------
(* The history of closed terminals *)

(* RemoveAt takes one entry out and keeps the order of the others. *)
LEMMA RemoveAtProperties ==
  ASSUME NEW S, NEW q \in Seq(S), NEW i \in 1..Len(q)
  PROVE  /\ RemoveAt(q, i) \in Seq(S)
         /\ Len(RemoveAt(q, i)) = Len(q) - 1
         /\ \A k \in 1..(Len(q) - 1) :
              RemoveAt(q, i)[k] = IF k < i THEN q[k] ELSE q[k + 1]
<1> DEFINE front == SubSeq(q, 1, i - 1)
           back == SubSeq(q, i + 1, Len(q))
<1>0. Len(q) \in Nat /\ i \in Nat /\ \A k \in 1..Len(q) : q[k] \in S
  BY LenProperties
<1>1. /\ front \in Seq(S)
      /\ Len(front) = i - 1
      /\ \A k \in 1..(i - 1) : front[k] = q[k]
  <2>1. \A k \in 1..(i - 1) : q[k] \in S
    BY <1>0
  <2> QED
    BY <1>0, <2>1, SubSeqProperties
<1>2. /\ back \in Seq(S)
      /\ Len(back) = Len(q) - i
      /\ \A k \in 1..(Len(q) - i) : back[k] = q[i + k]
  <2>1. \A k \in (i + 1)..Len(q) : q[k] \in S
    BY <1>0
  <2>2. /\ SubSeq(q, i + 1, Len(q)) \in Seq(S)
        /\ Len(SubSeq(q, i + 1, Len(q))) = IF i + 1 <= Len(q) THEN Len(q) - (i + 1) + 1 ELSE 0
        /\ \A k \in 1 .. Len(q) - (i + 1) + 1 : SubSeq(q, i + 1, Len(q))[k] = q[i + 1 + k - 1]
    BY <1>0, <2>1, SubSeqProperties
  <2> QED
    BY <1>0, <2>2
<1>3. RemoveAt(q, i) = front \o back
  BY DEF RemoveAt
<1> HIDE DEF front, back
<1>4. /\ front \o back \in Seq(S)
      /\ Len(front \o back) = Len(q) - 1
      /\ \A k \in 1..(Len(q) - 1) :
           (front \o back)[k] = IF k <= i - 1 THEN front[k] ELSE back[k - (i - 1)]
  <2>1. /\ front \o back \in Seq(S)
        /\ Len(front \o back) = Len(front) + Len(back)
        /\ \A k \in 1..(Len(front) + Len(back)) :
             (front \o back)[k] = IF k <= Len(front) THEN front[k] ELSE back[k - Len(front)]
    BY <1>1, <1>2, ConcatProperties
  <2>2. Len(front) + Len(back) = Len(q) - 1
    BY <1>0, <1>1, <1>2
  <2> QED
    BY <1>1, <2>1, <2>2
<1>5. ASSUME NEW k \in 1..(Len(q) - 1)
      PROVE  (front \o back)[k] = IF k < i THEN q[k] ELSE q[k + 1]
  <2>1. CASE k < i
    <3>1. k \in 1..(i - 1)
      BY <1>0, <2>1
    <3> QED
      BY <1>0, <1>1, <1>4, <2>1, <3>1
  <2>2. CASE ~(k < i)
    <3>1. k - (i - 1) \in 1..(Len(q) - i) /\ i + (k - (i - 1)) = k + 1
      BY <1>0, <2>2
    <3>2. (front \o back)[k] = back[k - (i - 1)]
      BY <1>0, <1>4, <2>2
    <3> QED
      BY <1>2, <2>2, <3>1, <3>2
  <2> QED
    BY <2>1, <2>2
<1> QED
  BY <1>3, <1>4, <1>5

(* Taking a record out of the history: it is gone, the others stay, none is
   twice there. *)
LEMMA WithoutProperties ==
  ASSUME NEW q \in Seq(Sessions), IsInjective(q), NEW s \in Sessions
  PROVE  /\ Without(q, s) \in Seq(Sessions)
         /\ IsInjective(Without(q, s))
         /\ Len(Without(q, s)) <= Len(q)
         /\ ToSet(Without(q, s)) = ToSet(q) \ {s}
<1>0. Len(q) \in Nat /\ DOMAIN q = 1..Len(q)
  BY LenProperties
<1>1. CASE s \notin ToSet(q)
  BY <1>0, <1>1 DEF Without
<1>2. CASE s \in ToSet(q)
  <2> DEFINE i == CHOOSE i \in DOMAIN q : q[i] = s
             r == RemoveAt(q, i)
  <2>1. i \in 1..Len(q) /\ q[i] = s
    BY <1>0, <1>2 DEF ToSet
  <2> HIDE DEF i
  <2>2. /\ r \in Seq(Sessions)
        /\ Len(r) = Len(q) - 1
        /\ \A k \in 1..(Len(q) - 1) : r[k] = IF k < i THEN q[k] ELSE q[k + 1]
    BY <2>1, RemoveAtProperties
  <2>3. Without(q, s) = r
    BY <1>2 DEF Without, i
  <2> HIDE DEF r
  <2>4. DOMAIN r = 1..(Len(q) - 1)
    BY <2>2, LenProperties
  <2>5. IsInjective(r)
    <3> SUFFICES ASSUME NEW j \in 1..(Len(q) - 1), NEW k \in 1..(Len(q) - 1), r[j] = r[k]
                 PROVE  j = k
      BY <2>4 DEF IsInjective
    <3> DEFINE at(n) == IF n < i THEN n ELSE n + 1
    <3>1. /\ at(j) \in 1..Len(q) /\ r[j] = q[at(j)]
          /\ at(k) \in 1..Len(q) /\ r[k] = q[at(k)]
      BY <1>0, <2>1, <2>2
    <3>2. at(j) = at(k)
      BY <1>0, <3>1 DEF IsInjective
    <3> QED
      BY <1>0, <2>1, <3>2
  <2>6. ToSet(r) \subseteq ToSet(q) \ {s}
    <3> SUFFICES ASSUME NEW k \in 1..(Len(q) - 1)
                 PROVE  r[k] \in ToSet(q) /\ r[k] # s
      BY <2>4 DEF ToSet
    <3> DEFINE at == IF k < i THEN k ELSE k + 1
    <3>1. at \in 1..Len(q) /\ at # i /\ r[k] = q[at]
      BY <1>0, <2>1, <2>2
    <3>2. q[at] \in ToSet(q)
      BY <1>0, <3>1 DEF ToSet
    <3>3. q[at] # s
      BY <1>0, <2>1, <3>1 DEF IsInjective
    <3> QED
      BY <3>1, <3>2, <3>3
  <2>7. ToSet(q) \ {s} \subseteq ToSet(r)
    <3> SUFFICES ASSUME NEW k \in 1..Len(q), q[k] # s
                 PROVE  \E n \in 1..(Len(q) - 1) : r[n] = q[k]
      BY <1>0, <2>4 DEF ToSet
    <3>1. CASE k < i
      BY <1>0, <2>1, <2>2, <3>1
    <3>2. CASE k > i
      <4>1. k - 1 \in 1..(Len(q) - 1) /\ ~(k - 1 < i) /\ (k - 1) + 1 = k
        BY <1>0, <2>1, <3>2
      <4> QED
        BY <2>2, <4>1
    <3> QED
      BY <1>0, <2>1, <3>1, <3>2
  <2> QED
    BY <1>0, <2>2, <2>3, <2>5, <2>6, <2>7
<1> QED
  BY <1>1, <1>2

(* A record that enters the history goes in front; at most the oldest goes. *)
LEMMA PushProperties ==
  ASSUME ConstantsOK, NEW q \in Histories, NEW s \in Sessions
  PROVE  /\ Push(q, s) \in Histories
         /\ ToSet(Push(q, s)) \subseteq ToSet(q) \cup {s}
<1> DEFINE w == Without(q, s)
           e == <<s>> \o w
           n == IF Len(e) < ClosedMax THEN Len(e) ELSE ClosedMax
<1>1. /\ w \in Seq(Sessions) /\ IsInjective(w)
      /\ Len(w) \in Nat /\ DOMAIN w = 1..Len(w)
      /\ ToSet(w) = ToSet(q) \ {s}
  BY WithoutProperties, LenProperties DEF Histories
<1>2. Push(q, s) = SubSeq(e, 1, n)
  BY DEF Push
<1> HIDE DEF w
<1>3. /\ e \in Seq(Sessions)
      /\ Len(e) = Len(w) + 1
      /\ e[1] = s
      /\ \A k \in 2..(Len(w) + 1) : e[k] = w[k - 1]
  <2>1. <<s>> \in Seq(Sessions) /\ Len(<<s>>) = 1 /\ <<s>>[1] = s
    OBVIOUS
  <2> QED
    BY <1>1, <2>1, ConcatProperties
<1> HIDE DEF e
<1>4. n \in Nat /\ n <= Len(e) /\ n <= ClosedMax
  BY <1>1, <1>3 DEF ConstantsOK
<1> HIDE DEF n
<1>5. \A k \in 1..n : e[k] \in Sessions
  BY <1>1, <1>3, <1>4, LenProperties
<1>6. /\ SubSeq(e, 1, n) \in Seq(Sessions)
      /\ Len(SubSeq(e, 1, n)) = n
      /\ \A k \in 1..n : SubSeq(e, 1, n)[k] = e[k]
  BY <1>4, <1>5, SubSeqProperties
<1>7. DOMAIN SubSeq(e, 1, n) = 1..n
  BY <1>6, LenProperties
<1>8. \A k \in 1..Len(w) : w[k] # s
  BY <1>1 DEF ToSet
<1>9. \A j, k \in 1..n : e[j] = e[k] => j = k
  <2> SUFFICES ASSUME NEW j \in 1..n, NEW k \in 1..n, e[j] = e[k], j < k
               PROVE  FALSE
    BY <1>4
  <2>1. k \in 2..(Len(w) + 1) /\ k - 1 \in 1..Len(w) /\ e[k] = w[k - 1]
    BY <1>1, <1>3, <1>4
  <2>2. CASE j = 1
    BY <1>3, <1>8, <2>1, <2>2
  <2>3. CASE j # 1
    <3>1. j \in 2..(Len(w) + 1) /\ j - 1 \in 1..Len(w) /\ e[j] = w[j - 1]
      BY <1>1, <1>3, <1>4, <2>3
    <3>2. j - 1 = k - 1
      BY <1>1, <2>1, <3>1 DEF IsInjective
    <3> QED
      BY <3>2, <1>4
  <2> QED
    BY <2>2, <2>3
<1>10. \A k \in 1..n : e[k] \in ToSet(q) \cup {s}
  <2> SUFFICES ASSUME NEW k \in 1..n, k # 1
               PROVE  e[k] \in ToSet(q)
    BY <1>3
  <2>1. k - 1 \in 1..Len(w) /\ e[k] = w[k - 1]
    BY <1>1, <1>3, <1>4
  <2> QED
    BY <1>1, <2>1 DEF ToSet
<1>11. IsInjective(SubSeq(e, 1, n))
  BY <1>6, <1>7, <1>9 DEF IsInjective
<1>12. ToSet(SubSeq(e, 1, n)) \subseteq ToSet(q) \cup {s}
  BY <1>6, <1>7, <1>10 DEF ToSet
<1> QED
  BY <1>2, <1>4, <1>6, <1>11, <1>12 DEF Histories
-----------------------------------------------------------------------------
(* Types *)

(* What a start, seen from the operating system, leaves in the world of processes. *)
LEMMA OpensTypes ==
  ASSUME ConstantsOK, TypeOK, NEW s \in Sessions, NEW bridges \in Bridges, Room(s), Opens(s, spawned[s] + 1, bridges)
  PROVE  /\ masters' \in [Sessions -> SUBSET Spawns]
         /\ linked' \in [Sessions -> 0..MaxSpawn]
         /\ spawned' \in [Sessions -> 0..MaxSpawn]
         /\ bridge' \in Bridges
         /\ on' \in [Sessions -> [Spawns -> 0..MaxSpawn]]
<1> DEFINE n == spawned[s] + 1
<1>1. Opens(s, n, bridges) /\ n \in Spawns /\ n \in 0..MaxSpawn
  BY DEF TypeOK, WorldTypes, DeckTypes, Room, Spawns, ConstantsOK
<1> HIDE DEF n
<1>2. spawned' \in [Sessions -> 0..MaxSpawn] /\ bridge' \in Bridges
  BY <1>1 DEF TypeOK, WorldTypes, DeckTypes, Opens, Bridges
<1>3. /\ masters' \in [Sessions -> SUBSET Spawns]
      /\ linked' \in [Sessions -> 0..MaxSpawn]
      /\ on' \in [Sessions -> [Spawns -> 0..MaxSpawn]]
  <2>0. /\ masters \in [Sessions -> SUBSET Spawns]
        /\ linked \in [Sessions -> 0..MaxSpawn]
        /\ on \in [Sessions -> [Spawns -> 0..MaxSpawn]]
    BY DEF TypeOK, WorldTypes, DeckTypes
  <2>1. CASE SocketLive(s)
    <3>1. on' = [on EXCEPT ![s][n] = linked[s]] /\ masters' = masters /\ linked' = linked
      BY <1>1, <2>1 DEF Opens
    <3> QED
      BY <1>1, <2>0, <3>1
  <2>2. CASE ~SocketLive(s)
    <3>1. /\ on' = [on EXCEPT ![s][n] = n]
          /\ masters' = [masters EXCEPT ![s] = @ \cup {n}]
          /\ linked' = [linked EXCEPT ![s] = n]
      BY <1>1, <2>2 DEF Opens
    <3>2. masters[s] \cup {n} \in SUBSET Spawns
      BY <1>1, <2>0
    <3>3. masters' \in [Sessions -> SUBSET Spawns]
      BY <2>0, <3>1, <3>2
    <3> QED
      BY <1>1, <2>0, <3>1, <3>3
  <2> QED
    BY <2>1, <2>2
<1> QED
  BY <1>2, <1>3

(* What _spawn leaves in the deck and in the world of processes. *)
LEMMA SpawnTypes ==
  ASSUME ConstantsOK, TypeOK,
         NEW s \in Sessions, NEW m \in Ms, NEW bridges \in Bridges,
         NEW resume \in BOOLEAN, NEW hasId \in BOOLEAN,
         Spawn(s, m, bridges, resume, hasId)
  PROVE  /\ ms' \in [Sessions -> Ms]
         /\ masters' \in [Sessions -> SUBSET Spawns]
         /\ linked' \in [Sessions -> 0..MaxSpawn]
         /\ doomed' \in [Sessions -> SUBSET Spawns]
         /\ spawned' \in [Sessions -> 0..MaxSpawn]
         /\ bridge' \in Bridges
         /\ on' \in [Sessions -> [Spawns -> 0..MaxSpawn]]
<1> DEFINE spawning(reattach) == [m EXCEPT !.lazy = FALSE, !.detached = reattach,
                                           !.resuming = ~reattach /\ hasId]
<1>1. \A reattach \in BOOLEAN : spawning(reattach) \in Ms
  BY DEF Ms
<1>2. PICK answers \in LsofAnswers :
        LET reattach == resume /\ answers /\ SocketLive(s)
        IN \/ /\ Room(s)
              /\ ms' = [ms EXCEPT ![s] = [spawning(reattach) EXCEPT !.proc = spawned[s] + 1]]
              /\ Opens(s, spawned[s] + 1, bridges)
           \/ /\ ms' = [ms EXCEPT ![s] = [spawning(reattach) EXCEPT !.detached = FALSE]]
              /\ bridge' = bridges
              /\ UNCHANGED <<masters, linked, spawned, on>>
  BY DEF Spawn
<1> DEFINE reattach == resume /\ answers /\ SocketLive(s)
<1>3. reattach \in BOOLEAN /\ spawning(reattach) \in Ms
  BY <1>1
<1>4. doomed' = doomed
  BY DEF Spawn
<1> HIDE DEF spawning, reattach
<1>5. CASE /\ Room(s)
           /\ ms' = [ms EXCEPT ![s] = [spawning(reattach) EXCEPT !.proc = spawned[s] + 1]]
           /\ Opens(s, spawned[s] + 1, bridges)
  <2>1. spawned[s] + 1 \in Spawns /\ spawned[s] + 1 \in 0..MaxSpawn
    BY <1>5 DEF TypeOK, WorldTypes, DeckTypes, Room, Spawns, ConstantsOK
  <2>2. [spawning(reattach) EXCEPT !.proc = spawned[s] + 1] \in Ms
    BY <1>3, <2>1 DEF Ms
  <2>3. ms' \in [Sessions -> Ms] /\ doomed' \in [Sessions -> SUBSET Spawns]
    BY <1>4, <1>5, <2>2 DEF TypeOK, WorldTypes, DeckTypes
  <2>4. /\ masters' \in [Sessions -> SUBSET Spawns] /\ linked' \in [Sessions -> 0..MaxSpawn]
        /\ spawned' \in [Sessions -> 0..MaxSpawn] /\ bridge' \in Bridges
        /\ on' \in [Sessions -> [Spawns -> 0..MaxSpawn]]
    BY <1>5, OpensTypes
  <2> QED
    BY <2>3, <2>4
<1>6. CASE /\ ms' = [ms EXCEPT ![s] = [spawning(reattach) EXCEPT !.detached = FALSE]]
           /\ bridge' = bridges
           /\ UNCHANGED <<masters, linked, spawned, on>>
  <2>1. [spawning(reattach) EXCEPT !.detached = FALSE] \in Ms
    BY <1>3 DEF Ms
  <2> QED
    BY <1>4, <1>6, <2>1 DEF TypeOK, WorldTypes, DeckTypes
<1> QED
  BY <1>2, <1>5, <1>6 DEF reattach, spawning

(* The record of a terminal, and that of a coroutine, with fields replaced. *)
LEMMA MsTypes ==
  ASSUME ConstantsOK, NEW m \in Ms
  PROVE  \A b \in BOOLEAN : /\ [m EXCEPT !.lazy = b] \in Ms
                            /\ [m EXCEPT !.detached = b] \in Ms
                            /\ [m EXCEPT !.proc = NoProc, !.detached = b] \in Ms
                            /\ [m EXCEPT !.proc = NoProc, !.fallback = b] \in Ms
                            /\ \A c \in BOOLEAN : [m EXCEPT !.lazy = b, !.detached = c] \in Ms
<1>1. NoProc \in 0..MaxSpawn
  BY DEF ConstantsOK, NoProc
<1> QED
  BY <1>1 DEF Ms

LEMMA NewMsType == ASSUME ConstantsOK PROVE NewMs \in Ms
BY DEF ConstantsOK, NewMs, Ms, NoProc

LEMMA JobTypes ==
  ASSUME ConstantsOK, NEW j \in Job
  PROVE  /\ \A pc \in JobPc : /\ [j EXCEPT !.pc = pc] \in Job
                              /\ \A b \in BOOLEAN : [j EXCEPT !.pc = pc, !.ok = b] \in Job
                              /\ \A b \in {"term", "kill"} : [j EXCEPT !.pc = pc, !.sig = b] \in Job
                              /\ \A n \in 0..MaxSpawn : [j EXCEPT !.pc = pc, !.proc = n] \in Job
         /\ \A b \in BOOLEAN : [j EXCEPT !.gone = b] \in Job
BY DEF Job

LEMMA NoJobType == ASSUME ConstantsOK PROVE NoJob \in Job
BY DEF ConstantsOK, NoJob, Job, JobPc, NoProc

LEMMA QueuedTypes ==
  ASSUME ConstantsOK
  PROVE  /\ NoJob \in Job /\ StartJob \in Job
         /\ [NoJob EXCEPT !.pc = "queued"] \in Job
         /\ \A b \in BOOLEAN : [StartJob EXCEPT !.gone = b] \in Job /\ [NoJob EXCEPT !.ok = b] \in Job
<1>1. NoJob \in Job
  BY NoJobType
<1>2. /\ StartJob \in Job
      /\ [NoJob EXCEPT !.pc = "queued"] \in Job
      /\ \A b \in BOOLEAN : [NoJob EXCEPT !.ok = b] \in Job
  BY <1>1 DEF StartJob, Job, JobPc
<1> QED
  BY <1>1, <1>2, JobTypes

LEMMA ClearedTypes ==
  ASSUME ConstantsOK, DeckTypes, NEW s \in Sessions
  PROVE  Cleared(s) \in Ms
BY MsTypes DEF DeckTypes, Cleared

LEMMA JobOf ==
  ASSUME TypeOK, NEW o \in Ops, NEW s \in Sessions
  PROVE  job[o] \in [Sessions -> Job] /\ job[o][s] \in Job
BY DEF TypeOK, RequestTypes

LEMMA SetJobTypes ==
  ASSUME RequestTypes, NEW o \in Ops, NEW s \in Sessions, NEW j \in Job, SetJob(o, s, j)
  PROVE  job' \in [Ops -> [Sessions -> Job]]
<1>1. job' = [job EXCEPT ![o] = [job[o] EXCEPT ![s] = j]]
  BY DEF SetJob
<1>2. job[o] \in [Sessions -> Job]
  BY DEF RequestTypes
<1>3. [job[o] EXCEPT ![s] = j] \in [Sessions -> Job]
  BY <1>2
<1> QED
  BY <1>1, <1>3 DEF RequestTypes

LEMMA NewJobsTypes ==
  ASSUME RequestTypes, NEW o \in Ops, NEW jobs \in [Sessions -> Job], NEW kind \in Reqs,
         job' = [job EXCEPT ![o] = jobs], req' = [req EXCEPT ![o] = kind]
  PROVE  RequestTypes'
BY DEF RequestTypes

LEMMA BeginTypes ==
  ASSUME ConstantsOK, TypeOK, NEW o \in Ops, NEW kind \in RequestKinds, NEW targets, Begin(o, kind, targets)
  PROVE  /\ ServerTypes' /\ WorldTypes' /\ RequestTypes' /\ closed' \in Histories
         /\ UNCHANGED <<up, loop, listed, bound, disk, closed, osvars, crashes>>
<1> DEFINE jobs == [s \in Sessions |-> IF s \in targets THEN StartJob ELSE NoJob]
<1>1. jobs \in [Sessions -> Job]
  <2>1. NoJob \in Job /\ StartJob \in Job
    BY QueuedTypes
  <2> QED
    BY <2>1
<1>2. RequestTypes'
  BY <1>1, NewJobsTypes DEF Begin, TypeOK, Reqs
<1> QED
  BY <1>2 DEF Begin, TypeOK, ServerTypes, WorldTypes, osvars

LEMMA FinishedTypes ==
  ASSUME ConstantsOK, RequestTypes, NEW o \in Ops, Finished(o)
  PROVE  RequestTypes'
<1>1. NoJobs \in [Sessions -> Job]
  <2>1. NoJob \in Job
    BY NoJobType
  <2> QED
    BY <2>1 DEF NoJobs
<1>2. "idle" \in Reqs
  BY DEF Reqs
<1> QED
  BY <1>1, <1>2, NewJobsTypes DEF Finished

LEMMA InitTypes == ConstantsOK /\ Init => TypeOK
<1> SUFFICES ASSUME ConstantsOK, Init PROVE TypeOK
  OBVIOUS
<1>1. NewMs \in Ms /\ NoJobs \in [Sessions -> Job]
  BY DEF ConstantsOK, NewMs, Ms, NoProc, NoJob, Job, JobPc, NoJobs
<1>2. <<>> \in Histories
  <2>1. <<>> \in Seq(Sessions) /\ Len(<<>>) = 0 /\ DOMAIN <<>> = {}
    OBVIOUS
  <2> QED
    BY <2>1 DEF Histories, ConstantsOK, IsInjective
<1>3. ServerTypes
  BY DEF Init, ServerTypes, Loops, ConstantsOK
<1>4. DeckTypes
  BY <1>1 DEF Init, DeckTypes
<1>5. WorldTypes
  BY DEF Init, WorldTypes, Bridges, ConstantsOK
<1>6. RequestTypes
  BY <1>1 DEF Init, RequestTypes, Reqs
<1> QED
  BY <1>2, <1>3, <1>4, <1>5, <1>6 DEF Init, TypeOK

LEMMA WithoutTypes ==
  ASSUME NEW s \in Sessions, NEW q \in Histories, ConstantsOK
  PROVE  Without(q, s) \in Histories
<1>1. Len(q) \in Nat /\ Len(Without(q, s)) \in Nat
  BY WithoutProperties, LenProperties DEF Histories
<1> QED
  BY <1>1, WithoutProperties DEF Histories, ConstantsOK

LEMMA UserTypes ==
  ASSUME ConstantsOK, TypeOK, NEW s \in Sessions
  PROVE  (Create(s) \/ Attach(s) \/ Reopen(s) \/ Purge(s) \/ Bind(s)) => TypeOK'
<1>1. ASSUME Create(s) PROVE TypeOK'
  <2>1. WorldTypes' /\ ms' \in [Sessions -> Ms]
    <3>1. NewMs \in Ms /\ bridge \in Bridges /\ (FALSE) \in BOOLEAN
      BY NewMsType DEF TypeOK, DeckTypes, WorldTypes
    <3> QED
      BY <1>1, <3>1, SpawnTypes DEF Create, WorldTypes
  <2>2. DeckTypes'
    BY <1>1, <2>1 DEF TypeOK, DeckTypes, Create
  <2>3. ServerTypes' /\ closed' \in Histories /\ RequestTypes'
    BY <1>1 DEF TypeOK, Create, ServerTypes, Loops, deckvars, RequestTypes, reqvars
  <2> QED
    BY <2>1, <2>2, <2>3 DEF TypeOK
<1>2. ASSUME Attach(s) PROVE TypeOK'
  <2>1. WorldTypes' /\ ms' \in [Sessions -> Ms]
    <3>1. ms[s] \in Ms /\ bridge \in Bridges /\ (s \in bound) \in BOOLEAN
      BY NewMsType DEF TypeOK, DeckTypes, WorldTypes
    <3> QED
      BY <1>2, <3>1, SpawnTypes DEF Attach, WorldTypes
  <2>2. DeckTypes'
    BY <1>2, <2>1 DEF TypeOK, DeckTypes, Attach
  <2>3. ServerTypes' /\ closed' \in Histories /\ RequestTypes'
    BY <1>2 DEF TypeOK, Attach, ServerTypes, Loops, deckvars, RequestTypes, reqvars
  <2> QED
    BY <2>1, <2>2, <2>3 DEF TypeOK
<1>3. ASSUME Reopen(s) PROVE TypeOK'
  <2>1. closed' \in Histories
    BY <1>3, WithoutTypes DEF TypeOK, Reopen
  <2>2. ServerTypes' /\ DeckTypes' /\ WorldTypes' /\ RequestTypes'
    BY <1>3 DEF TypeOK, Reopen, ServerTypes, Loops, DeckTypes, deckvars, WorldTypes, osvars, RequestTypes, reqvars
  <2> QED
    BY <2>1, <2>2 DEF TypeOK
<1>4. ASSUME Purge(s) PROVE TypeOK'
  <2>1. closed' \in Histories
    BY <1>4, WithoutTypes DEF TypeOK, Purge
  <2>2. ServerTypes' /\ DeckTypes' /\ WorldTypes' /\ RequestTypes'
    BY <1>4 DEF TypeOK, Purge, ServerTypes, Loops, DeckTypes, deckvars, WorldTypes, osvars, RequestTypes, reqvars
  <2> QED
    BY <2>1, <2>2 DEF TypeOK
<1>5. ASSUME Bind(s) PROVE TypeOK'
  <2>1. ServerTypes' /\ DeckTypes' /\ closed' \in Histories /\ WorldTypes' /\ RequestTypes'
    BY <1>5 DEF TypeOK, Bind, ServerTypes, Loops, DeckTypes, deckvars, WorldTypes, osvars, RequestTypes, reqvars
  <2> QED
    BY <2>1 DEF TypeOK
<1> QED
  BY <1>1, <1>2, <1>3, <1>4, <1>5

LEMMA SaveTypes ==
  ASSUME ConstantsOK, TypeOK, NEW s \in Sessions
  PROVE  (CreateSaved(s) \/ ReopenStarted(s) \/ DeleteSaved(s)) => TypeOK'
<1>1. ASSUME CreateSaved(s) PROVE TypeOK'
  <2>1. ServerTypes' /\ DeckTypes' /\ closed' \in Histories /\ WorldTypes' /\ RequestTypes'
    BY <1>1 DEF TypeOK, CreateSaved, ServerTypes, Loops, DeckTypes, deckvars, WorldTypes, osvars, RequestTypes, reqvars
  <2> QED
    BY <2>1 DEF TypeOK
<1>2. ASSUME ReopenStarted(s) PROVE TypeOK'
  <2>1. WorldTypes' /\ ms' \in [Sessions -> Ms]
    <3>1. NewMs \in Ms /\ bridge \in Bridges /\ (s \in bound) \in BOOLEAN
      BY NewMsType DEF TypeOK, DeckTypes, WorldTypes
    <3> QED
      BY <1>2, <3>1, SpawnTypes DEF ReopenStarted, WorldTypes
  <2>2. DeckTypes'
    BY <1>2, <2>1 DEF TypeOK, DeckTypes, ReopenStarted
  <2>3. RequestTypes'
    <3>1. \A o \in Ops : [job[o] EXCEPT ![s].gone = (job[o][s].pc # "none")] \in [Sessions -> Job]
      <4> TAKE o \in Ops
      <4>1. job[o] \in [Sessions -> Job] /\ [job[o][s] EXCEPT !.gone = (job[o][s].pc # "none")] \in Job
        BY JobOf, JobTypes
      <4> QED
        BY <4>1
    <3> QED
      BY <1>2, <3>1 DEF TypeOK, RequestTypes, ReopenStarted
  <2>4. ServerTypes' /\ closed' \in Histories
    BY <1>2 DEF TypeOK, ReopenStarted, ServerTypes, Loops, deckvars
  <2> QED
    BY <2>1, <2>2, <2>3, <2>4 DEF TypeOK
<1>3. ASSUME DeleteSaved(s) PROVE TypeOK'
  <2>1. ServerTypes' /\ DeckTypes' /\ closed' \in Histories /\ WorldTypes' /\ RequestTypes'
    BY <1>3 DEF TypeOK, DeleteSaved, ServerTypes, Loops, DeckTypes, deckvars, WorldTypes, osvars, RequestTypes, reqvars
  <2> QED
    BY <2>1 DEF TypeOK
<1> QED
  BY <1>1, <1>2, <1>3

LEMMA ProcessTypes ==
  ASSUME ConstantsOK, TypeOK, NEW s \in Sessions, NEW n \in Spawns
  PROVE  (MasterDies(s, n) \/ ClientExits(s, n) \/ BridgeExits(s, n)) => TypeOK'
<1>1. ASSUME MasterDies(s, n) PROVE TypeOK'
  <2>1. WorldTypes'
    <3>1. /\ masters \in [Sessions -> SUBSET Spawns] /\ doomed \in [Sessions -> SUBSET Spawns]
          /\ masters[s] \ {n} \in SUBSET Spawns /\ doomed[s] \ {n} \in SUBSET Spawns
      BY DEF TypeOK, WorldTypes
    <3>2. /\ masters' \in [Sessions -> SUBSET Spawns]
          /\ doomed' \in [Sessions -> SUBSET Spawns]
      <4>1. /\ masters' = [masters EXCEPT ![s] = masters[s] \ {n}]
            /\ doomed' = [doomed EXCEPT ![s] = doomed[s] \ {n}]
        BY <1>1, <3>1 DEF MasterDies
      <4> QED
        BY <3>1, <4>1
    <3>3. linked' \in [Sessions -> 0..MaxSpawn]
      BY <1>1 DEF TypeOK, WorldTypes, MasterDies, ConstantsOK
    <3> QED
      BY <1>1, <3>2, <3>3 DEF TypeOK, WorldTypes, MasterDies
  <2>2. ServerTypes' /\ DeckTypes' /\ closed' \in Histories /\ RequestTypes'
    BY <1>1 DEF TypeOK, MasterDies, ServerTypes, Loops, DeckTypes, deckvars, RequestTypes, reqvars
  <2> QED
    BY <2>1, <2>2 DEF TypeOK
<1>2. ASSUME ClientExits(s, n) PROVE TypeOK'
  <2>1. WorldTypes'
    BY <1>2 DEF TypeOK, WorldTypes, Bridges, ClientExits
  <2>2. ServerTypes' /\ DeckTypes' /\ closed' \in Histories /\ RequestTypes'
    BY <1>2 DEF TypeOK, ClientExits, ServerTypes, Loops, DeckTypes, deckvars, RequestTypes, reqvars
  <2> QED
    BY <2>1, <2>2 DEF TypeOK
<1>3. ASSUME BridgeExits(s, n) PROVE TypeOK'
  <2>1. WorldTypes' /\ ms' \in [Sessions -> Ms]
    <3> DEFINE closing == [bridge EXCEPT ![s][n] = "closed"]
    <3>1. closing \in Bridges
      BY DEF TypeOK, WorldTypes, Bridges
    <3>2. CASE ms[s].proc # n /\ bridge' = closing /\ UNCHANGED <<ms, bound, disk, masters, linked, doomed, spawned, on>>
      BY <3>1, <3>2 DEF TypeOK, WorldTypes, DeckTypes
    <3>3. CASE /\ \E answers \in LsofAnswers :
                    ms' = [ms EXCEPT ![s].proc = NoProc, ![s].detached = answers /\ SocketLive(s)]
               /\ bridge' = closing
               /\ UNCHANGED <<bound, disk, masters, linked, doomed, spawned, on>>
      <4>1. PICK b \in BOOLEAN : ms' = [ms EXCEPT ![s] = [ms[s] EXCEPT !.proc = NoProc, !.detached = b]]
        BY <3>3 DEF TypeOK, DeckTypes
      <4>2. [ms[s] EXCEPT !.proc = NoProc, !.detached = b] \in Ms
        BY MsTypes DEF TypeOK, DeckTypes
      <4>3. ms' \in [Sessions -> Ms]
        BY <4>1, <4>2 DEF TypeOK, DeckTypes
      <4> QED
        BY <3>1, <3>3, <4>3 DEF TypeOK, WorldTypes
    <3>4. CASE Spawn(s, [ms[s] EXCEPT !.proc = NoProc, !.fallback = TRUE], closing, TRUE, FALSE)
      <4>1. [ms[s] EXCEPT !.proc = NoProc, !.fallback = TRUE] \in Ms
        BY MsTypes DEF TypeOK, DeckTypes
      <4> HIDE DEF closing
      <4> QED
        BY <3>1, <3>4, <4>1, SpawnTypes DEF WorldTypes
    <3> QED
      BY <1>3, <3>2, <3>3, <3>4 DEF BridgeExits
  <2>2. DeckTypes'
    BY <1>3, <2>1 DEF TypeOK, DeckTypes, BridgeExits
  <2>3. ServerTypes' /\ closed' \in Histories /\ RequestTypes'
    BY <1>3 DEF TypeOK, BridgeExits, ServerTypes, Loops, deckvars, RequestTypes, reqvars
  <2> QED
    BY <2>1, <2>2, <2>3 DEF TypeOK
<1> QED
  BY <1>1, <1>2, <1>3

LEMMA TerminateTypes ==
  ASSUME ConstantsOK, TypeOK, NEW o \in Ops, NEW s \in Sessions
  PROVE  (Scan(o, s) \/ PollGone(o, s) \/ PollsExhausted(o, s) \/ SweepSampled(o, s)
          \/ Swept(o, s) \/ HangupSeen(o, s)) => TypeOK'
<1>1. ASSUME Scan(o, s) PROVE TypeOK'
  <2>1. RequestTypes' /\ WorldTypes'
    <3>1. PICK seen \in Holders(s) :
               /\ SetJob(o, s, [job[o][s] EXCEPT !.pc = IF seen = {} THEN "sweep" ELSE "poll"])
               /\ doomed' = [doomed EXCEPT ![s] = doomed[s] \cup seen]
      BY <1>1 DEF Scan, TypeOK, WorldTypes
    <3>2. seen \subseteq Spawns
      BY DEF Holders, TypeOK, WorldTypes
    <3>3. doomed[s] \cup seen \in SUBSET Spawns
      BY <3>2 DEF TypeOK, WorldTypes
    <3>4. [job[o][s] EXCEPT !.pc = IF seen = {} THEN "sweep" ELSE "poll"] \in Job
      BY JobOf, JobTypes DEF JobPc
    <3>5. RequestTypes'
      BY <1>1, <3>1, <3>4, SetJobTypes DEF TypeOK, RequestTypes, Scan
    <3>6. doomed' \in [Sessions -> SUBSET Spawns]
      BY <3>1, <3>3 DEF TypeOK, WorldTypes
    <3> QED
      BY <1>1, <3>5, <3>6 DEF TypeOK, WorldTypes, Scan
  <2>2. ServerTypes' /\ DeckTypes' /\ closed' \in Histories
    BY <1>1 DEF TypeOK, Scan, ServerTypes, Loops, DeckTypes, deckvars
  <2> QED
    BY <2>1, <2>2 DEF TypeOK
<1>2. ASSUME PollGone(o, s) PROVE TypeOK'
  <2>1. RequestTypes'
    <3>1. [job[o][s] EXCEPT !.pc = "sweep"] \in Job
      BY JobOf, JobTypes DEF JobPc
    <3> QED
      BY <1>2, <3>1, SetJobTypes DEF TypeOK, RequestTypes, PollGone
  <2>2. ServerTypes' /\ DeckTypes' /\ closed' \in Histories /\ WorldTypes'
    BY <1>2 DEF TypeOK, PollGone, ServerTypes, Loops, DeckTypes, deckvars, WorldTypes, osvars
  <2> QED
    BY <2>1, <2>2 DEF TypeOK
<1>3. ASSUME PollsExhausted(o, s) PROVE TypeOK'
  <2>1. RequestTypes'
    <3>1. /\ [job[o][s] EXCEPT !.pc = "scan", !.sig = "kill"] \in Job
          /\ [job[o][s] EXCEPT !.pc = "sweep"] \in Job
      BY JobOf, JobTypes DEF JobPc
    <3> QED
      BY <1>3, <3>1, SetJobTypes DEF TypeOK, RequestTypes, PollsExhausted
  <2>2. ServerTypes' /\ DeckTypes' /\ closed' \in Histories /\ WorldTypes'
    BY <1>3 DEF TypeOK, PollsExhausted, ServerTypes, Loops, DeckTypes, deckvars, WorldTypes, osvars
  <2> QED
    BY <2>1, <2>2 DEF TypeOK
<1>4. ASSUME SweepSampled(o, s) PROVE TypeOK'
  <2>1. RequestTypes'
    <3>1. \A b \in BOOLEAN : [job[o][s] EXCEPT !.pc = "swept", !.ok = b] \in Job
      BY JobOf, JobTypes DEF JobPc
    <3>2. PICK b \in BOOLEAN : SetJob(o, s, [job[o][s] EXCEPT !.pc = "swept", !.ok = b])
      BY <1>4 DEF SweepSampled
    <3> QED
      BY <1>4, <3>1, <3>2, SetJobTypes DEF TypeOK, RequestTypes, SweepSampled
  <2>2. ServerTypes' /\ DeckTypes' /\ closed' \in Histories /\ WorldTypes'
    BY <1>4 DEF TypeOK, SweepSampled, ServerTypes, Loops, DeckTypes, deckvars, WorldTypes, osvars
  <2> QED
    BY <2>1, <2>2 DEF TypeOK
<1>5. ASSUME Swept(o, s) PROVE TypeOK'
  <2>1. RequestTypes'
    <3>1. /\ [job[o][s] EXCEPT !.pc = "done"] \in Job
          /\ [job[o][s] EXCEPT !.pc = "hangup", !.proc = ms[s].proc] \in Job
      <4>1. ms[s].proc \in 0..MaxSpawn
        BY DEF TypeOK, DeckTypes, Ms
      <4> QED
        BY <4>1, JobOf, JobTypes DEF JobPc
    <3>2. \/ SetJob(o, s, [job[o][s] EXCEPT !.pc = "done"])
          \/ SetJob(o, s, [job[o][s] EXCEPT !.pc = "hangup", !.proc = ms[s].proc])
      BY <1>5 DEF Swept
    <3> QED
      BY <1>5, <3>1, <3>2, SetJobTypes DEF TypeOK, RequestTypes, Swept
  <2>2. DeckTypes'
    <3>1. job[o][s].ok \in BOOLEAN
      BY DEF TypeOK, RequestTypes, Job
    <3>2. [ms[s] EXCEPT !.detached = ~job[o][s].ok] \in Ms
      BY <3>1, MsTypes DEF TypeOK, DeckTypes
    <3>3. ms' = ms \/ ms' = [ms EXCEPT ![s] = [ms[s] EXCEPT !.detached = ~job[o][s].ok]]
      BY <1>5 DEF Swept, TypeOK, DeckTypes
    <3> QED
      BY <1>5, <3>2, <3>3 DEF Swept, TypeOK, DeckTypes
  <2>3. ServerTypes' /\ closed' \in Histories /\ WorldTypes'
    BY <1>5 DEF TypeOK, Swept, ServerTypes, Loops, deckvars, WorldTypes, osvars, ServerReady, LoopAfter, Free
  <2> QED
    BY <2>1, <2>2, <2>3 DEF TypeOK
<1>6. ASSUME HangupSeen(o, s) PROVE TypeOK'
  <2>1. RequestTypes'
    <3>1. /\ [job[o][s] EXCEPT !.pc = "done"] \in Job
          /\ [job[o][s] EXCEPT !.pc = "done", !.ok = FALSE] \in Job
      BY JobOf, JobTypes DEF JobPc
    <3> QED
      BY <1>6, <3>1, SetJobTypes DEF TypeOK, RequestTypes, HangupSeen
  <2>2. ServerTypes' /\ DeckTypes' /\ closed' \in Histories /\ WorldTypes'
    BY <1>6 DEF TypeOK, HangupSeen, ServerTypes, Loops, DeckTypes, deckvars, WorldTypes, osvars, ServerReady, LoopAfter, Free
  <2> QED
    BY <2>1, <2>2 DEF TypeOK
<1> QED
  BY <1>1, <1>2, <1>3, <1>4, <1>5, <1>6

LEMMA RequestBeginTypes ==
  ASSUME ConstantsOK, TypeOK, NEW o \in Ops, NEW s \in Sessions
  PROVE  (StopBegins(o, s) \/ RestartBegins(o, s) \/ DeleteBegins(o, s) \/
          FinishBegins(o, s)) => TypeOK'
<1>1. ASSUME StopBegins(o, s) PROVE TypeOK'
  <2>1. ServerTypes' /\ WorldTypes' /\ RequestTypes' /\ closed' \in Histories
    BY <1>1, BeginTypes DEF StopBegins, RequestKinds
  <2>2. DeckTypes'
    <3>1. [ms[s] EXCEPT !.lazy = TRUE] \in Ms
      BY MsTypes DEF TypeOK, DeckTypes
    <3> QED
      BY <1>1, <3>1 DEF TypeOK, DeckTypes, StopBegins, Begin
  <2> QED
    BY <2>1, <2>2 DEF TypeOK
<1>2. ASSUME RestartBegins(o, s) PROVE TypeOK'
  <2>1. ServerTypes' /\ WorldTypes' /\ RequestTypes' /\ closed' \in Histories
    BY <1>2, BeginTypes DEF RestartBegins, RequestKinds
  <2>2. DeckTypes'
    BY <1>2 DEF TypeOK, DeckTypes, RestartBegins, Begin
  <2> QED
    BY <2>1, <2>2 DEF TypeOK
<1>3. ASSUME DeleteBegins(o, s) PROVE TypeOK'
  <2>1. ServerTypes' /\ WorldTypes' /\ RequestTypes' /\ closed' \in Histories
    BY <1>3, BeginTypes DEF DeleteBegins, RequestKinds
  <2>2. DeckTypes'
    BY <1>3 DEF TypeOK, DeckTypes, DeleteBegins, Begin
  <2> QED
    BY <2>1, <2>2 DEF TypeOK
<1>4. ASSUME FinishBegins(o, s) PROVE TypeOK'
  <2>1. ServerTypes' /\ WorldTypes' /\ RequestTypes' /\ closed' \in Histories
    BY <1>4, BeginTypes DEF FinishBegins, RequestKinds
  <2>2. DeckTypes'
    BY <1>4 DEF TypeOK, DeckTypes, FinishBegins, Begin
  <2> QED
    BY <2>1, <2>2 DEF TypeOK
<1> QED
  BY <1>1, <1>2, <1>3, <1>4

LEMMA RequestEndTypes ==
  ASSUME ConstantsOK, TypeOK, NEW o \in Ops, NEW s \in Sessions
  PROVE  (StopEnds(o, s) \/ RestartEnds(o, s) \/ DeleteEnds(o, s) \/
          WorktreeChanged(o, s) \/ FinishEnds(o, s) \/ StaleKilled(o, s) \/
          ReclaimNext(o, s) \/ ReclaimOne(o, s)) => TypeOK'
<1>1. ASSUME StopEnds(o, s) PROVE TypeOK'
  <2>1. RequestTypes'
    BY <1>1, FinishedTypes DEF TypeOK, StopEnds
  <2>2. DeckTypes'
    <3>1. Cleared(s) \in Ms /\ [ms[s] EXCEPT !.lazy = FALSE] \in Ms
      BY ClearedTypes, MsTypes DEF TypeOK, DeckTypes
    <3>2. \/ ms' = ms \/ ms' = [ms EXCEPT ![s] = Cleared(s)]
          \/ ms' = [ms EXCEPT ![s] = [ms[s] EXCEPT !.lazy = FALSE]]
      BY <1>1 DEF StopEnds, TypeOK, DeckTypes
    <3> QED
      BY <1>1, <3>1, <3>2 DEF TypeOK, DeckTypes, StopEnds
  <2>3. ServerTypes' /\ closed' \in Histories /\ WorldTypes'
    BY <1>1 DEF TypeOK, StopEnds, ServerTypes, Loops, deckvars, WorldTypes, osvars
  <2> QED
    BY <2>1, <2>2, <2>3 DEF TypeOK
<1>2. ASSUME RestartEnds(o, s) PROVE TypeOK'
  <2>1. RequestTypes'
    BY <1>2, FinishedTypes DEF TypeOK, RestartEnds
  <2>2. WorldTypes' /\ ms' \in [Sessions -> Ms]
    <3>1. CASE Spawn(s, ms[s], bridge, TRUE, s \in bound)
      <4>1. ms[s] \in Ms /\ bridge \in Bridges /\ (s \in bound) \in BOOLEAN
        BY DEF TypeOK, DeckTypes, WorldTypes
      <4> QED
        BY <3>1, <4>1, SpawnTypes DEF WorldTypes
    <3>2. CASE SpawnGone(s)
      <4>1. bridge \in Bridges /\ ms' = ms /\ doomed' = doomed
        BY <3>2 DEF TypeOK, WorldTypes, SpawnGone
      <4>2. CASE Room(s) /\ Opens(s, spawned[s] + 1, bridge)
        BY <4>1, <4>2, OpensTypes DEF TypeOK, DeckTypes, WorldTypes
      <4>3. CASE UNCHANGED <<masters, linked, spawned, bridge, on>>
        BY <4>1, <4>3 DEF TypeOK, DeckTypes, WorldTypes
      <4> QED
        BY <3>2, <4>2, <4>3 DEF SpawnGone
    <3>3. CASE UNCHANGED <<ms, osvars>>
      BY <3>3 DEF TypeOK, DeckTypes, WorldTypes, osvars
    <3> QED
      BY <1>2, <3>1, <3>2, <3>3 DEF RestartEnds
  <2>3. DeckTypes'
    BY <1>2, <2>2 DEF TypeOK, DeckTypes, RestartEnds
  <2>4. ServerTypes' /\ closed' \in Histories
    BY <1>2 DEF TypeOK, RestartEnds, ServerTypes, Loops, deckvars
  <2> QED
    BY <2>1, <2>2, <2>3, <2>4 DEF TypeOK
<1>3. ASSUME DeleteEnds(o, s) PROVE TypeOK'
  <2>1. RequestTypes'
    BY <1>3, FinishedTypes DEF TypeOK, DeleteEnds
  <2>2. closed' \in Histories
    BY <1>3, PushProperties DEF TypeOK, DeleteEnds
  <2>3. ServerTypes' /\ DeckTypes' /\ WorldTypes'
    BY <1>3 DEF TypeOK, DeleteEnds, ServerTypes, Loops, DeckTypes, deckvars, WorldTypes, osvars
  <2> QED
    BY <2>1, <2>2, <2>3 DEF TypeOK
<1>4. ASSUME WorktreeChanged(o, s) PROVE TypeOK'
  <2>1. RequestTypes'
    <3>1. CASE Finished(o)
      BY <3>1, FinishedTypes DEF TypeOK
    <3>2. CASE /\ req' = [req EXCEPT ![o] = "finish"]
               /\ SetJob(o, s, [StartJob EXCEPT !.gone = job[o][s].gone])
      <4>1. job[o][s].gone \in BOOLEAN
        BY DEF TypeOK, RequestTypes, Job
      <4>2. [StartJob EXCEPT !.gone = job[o][s].gone] \in Job
        BY <4>1, QueuedTypes
      <4> QED
        BY <3>2, <4>2, SetJobTypes DEF TypeOK, RequestTypes, Reqs, RequestKinds
    <3> QED
      BY <1>4, <3>1, <3>2 DEF WorktreeChanged
  <2>2. ServerTypes' /\ DeckTypes' /\ closed' \in Histories /\ WorldTypes'
    BY <1>4 DEF TypeOK, WorktreeChanged, ServerTypes, Loops, DeckTypes, deckvars, WorldTypes, osvars
  <2> QED
    BY <2>1, <2>2 DEF TypeOK
<1>5. ASSUME FinishEnds(o, s) PROVE TypeOK'
  <2>1. RequestTypes'
    BY <1>5, FinishedTypes DEF TypeOK, FinishEnds
  <2>2. ServerTypes' /\ DeckTypes' /\ closed' \in Histories /\ WorldTypes'
    BY <1>5 DEF TypeOK, FinishEnds, ServerTypes, Loops, DeckTypes, deckvars, WorldTypes, osvars
  <2> QED
    BY <2>1, <2>2 DEF TypeOK
<1>6. ASSUME StaleKilled(o, s) PROVE TypeOK'
  <2>1. RequestTypes' /\ DeckTypes'
    <3> DEFINE after == IF job[o][s].ok /\ ~job[o][s].gone THEN [ms EXCEPT ![s] = Cleared(s)] ELSE ms
    <3>1. after \in [Sessions -> Ms]
      BY ClearedTypes DEF TypeOK, DeckTypes
    <3>2. CASE Finished(o) /\ ms' = after /\ disk' = listed
      BY <1>6, <3>1, <3>2, FinishedTypes DEF TypeOK, DeckTypes, StaleKilled
    <3>3. ASSUME NEW t \in Sessions,
                 job' = [job EXCEPT ![o][s] = NoJob, ![o][t] = [StartJob EXCEPT !.gone = job[o][t].gone]],
                 ms' = IF job[o][t].gone THEN after ELSE [after EXCEPT ![t].lazy = TRUE],
                 UNCHANGED <<req, disk>>
          PROVE  RequestTypes' /\ DeckTypes'
      <4>1. NoJob \in Job /\ [StartJob EXCEPT !.gone = job[o][t].gone] \in Job
        <5>1. job[o][t].gone \in BOOLEAN
          BY DEF TypeOK, RequestTypes, Job
        <5> QED
          BY <5>1, QueuedTypes
      <4> DEFINE j2 == [StartJob EXCEPT !.gone = job[o][t].gone]
      <4>2. job' = [job EXCEPT ![o] = [[job[o] EXCEPT ![s] = NoJob] EXCEPT ![t] = j2]]
        BY <3>3 DEF TypeOK, RequestTypes
      <4>3. [[job[o] EXCEPT ![s] = NoJob] EXCEPT ![t] = j2] \in [Sessions -> Job]
        <5> HIDE DEF j2
        <5>1. job[o] \in [Sessions -> Job] /\ j2 \in Job
          BY <4>1 DEF TypeOK, RequestTypes, j2
        <5> QED
          BY <4>1, <5>1
      <4>4. RequestTypes'
        BY <3>3, <4>2, <4>3 DEF TypeOK, RequestTypes
      <4>5. [after[t] EXCEPT !.lazy = TRUE] \in Ms
        BY <3>1, MsTypes
      <4>6. ms' \in [Sessions -> Ms]
        <5> HIDE DEF after
        <5>1. ms' = after \/ ms' = [after EXCEPT ![t] = [after[t] EXCEPT !.lazy = TRUE]]
          BY <3>1, <3>3
        <5> QED
          BY <3>1, <4>5, <5>1
      <4> QED
        BY <1>6, <3>3, <4>4, <4>6 DEF TypeOK, DeckTypes, StaleKilled
    <3> QED
      BY <1>6, <3>2, <3>3 DEF StaleKilled
  <2>2. ServerTypes' /\ closed' \in Histories /\ WorldTypes'
    BY <1>6 DEF TypeOK, StaleKilled, ServerTypes, Loops, deckvars, WorldTypes, osvars
  <2> QED
    BY <2>1, <2>2 DEF TypeOK
<1>7. ASSUME ReclaimNext(o, s) PROVE TypeOK'
  <2>1. RequestTypes'
    <3>1. NoJob \in Job /\ StartJob \in Job
      BY QueuedTypes
    <3> QED
      BY <1>7, <3>1, SetJobTypes DEF TypeOK, RequestTypes, ReclaimNext
  <2>2. ServerTypes' /\ DeckTypes' /\ closed' \in Histories /\ WorldTypes'
    BY <1>7 DEF TypeOK, ReclaimNext, ServerTypes, Loops, DeckTypes, deckvars, WorldTypes, osvars
  <2> QED
    BY <2>1, <2>2 DEF TypeOK
<1>8. ASSUME ReclaimOne(o, s) PROVE TypeOK'
  <2>1. RequestTypes'
    <3>1. NoJob \in Job
      BY QueuedTypes
    <3> QED
      BY <1>8, <3>1, SetJobTypes DEF TypeOK, RequestTypes, ReclaimOne
  <2>2. ServerTypes' /\ DeckTypes' /\ closed' \in Histories /\ WorldTypes'
    BY <1>8 DEF TypeOK, ReclaimOne, ServerTypes, Loops, DeckTypes, deckvars, WorldTypes, osvars
  <2> QED
    BY <2>1, <2>2 DEF TypeOK
<1> QED
  BY <1>1, <1>2, <1>3, <1>4, <1>5, <1>6, <1>7, <1>8

LEMMA SweepTypes ==
  ASSUME ConstantsOK, TypeOK, NEW o \in Ops
  PROVE  (KillAllBegins(o) \/ KillStaleBegins(o) \/ ReclaimBegins(o) \/
          ReportSampled(o) \/ KillAllEnds(o) \/ ReportApplied(o)) => TypeOK'
<1>1. ASSUME KillAllBegins(o) PROVE TypeOK'
  <2>1. ServerTypes' /\ WorldTypes' /\ RequestTypes' /\ closed' \in Histories
    BY <1>1, BeginTypes DEF KillAllBegins, RequestKinds
  <2>2. DeckTypes'
    <3>1. \A t \in Sessions : [ms[t] EXCEPT !.lazy = TRUE] \in Ms /\ ms[t] \in Ms
      BY MsTypes DEF TypeOK, DeckTypes
    <3> QED
      BY <1>1, <3>1 DEF TypeOK, DeckTypes, KillAllBegins, Begin
  <2> QED
    BY <2>1, <2>2 DEF TypeOK
<1>2. ASSUME KillStaleBegins(o) PROVE TypeOK'
  <2>1. RequestTypes' /\ DeckTypes'
    <3>1. PICK targets \in (SUBSET {t \in listed : Running(t)}) \ {{}} : \E first \in targets :
             /\ ms' = [ms EXCEPT ![first].lazy = TRUE]
             /\ req' = [req EXCEPT ![o] = "killstale"]
             /\ job' = [job EXCEPT ![o] = [t \in Sessions |->
                          IF t = first THEN StartJob
                          ELSE IF t \in targets THEN [NoJob EXCEPT !.pc = "queued"] ELSE NoJob]]
      BY <1>2 DEF KillStaleBegins
    <3>2. PICK first \in Sessions :
             /\ ms' = [ms EXCEPT ![first] = [ms[first] EXCEPT !.lazy = TRUE]]
             /\ req' = [req EXCEPT ![o] = "killstale"]
             /\ job' = [job EXCEPT ![o] = [t \in Sessions |->
                          IF t = first THEN StartJob
                          ELSE IF t \in targets THEN [NoJob EXCEPT !.pc = "queued"] ELSE NoJob]]
      BY <3>1 DEF TypeOK, DeckTypes
    <3>3. [t \in Sessions |-> IF t = first THEN StartJob
             ELSE IF t \in targets THEN [NoJob EXCEPT !.pc = "queued"] ELSE NoJob] \in [Sessions -> Job]
      BY QueuedTypes
    <3>4. [ms[first] EXCEPT !.lazy = TRUE] \in Ms
      BY MsTypes DEF TypeOK, DeckTypes
    <3>5. RequestTypes'
      BY <3>2, <3>3, NewJobsTypes DEF TypeOK, Reqs, RequestKinds
    <3>6. ms' \in [Sessions -> Ms]
      BY <3>2, <3>4 DEF TypeOK, DeckTypes
    <3> QED
      BY <1>2, <3>5, <3>6 DEF TypeOK, DeckTypes, KillStaleBegins
  <2>2. ServerTypes' /\ closed' \in Histories /\ WorldTypes'
    BY <1>2 DEF TypeOK, KillStaleBegins, ServerTypes, Loops, deckvars, WorldTypes, osvars
  <2> QED
    BY <2>1, <2>2 DEF TypeOK
<1>3. ASSUME ReclaimBegins(o) PROVE TypeOK'
  <2>1. RequestTypes'
    <3>1. [t \in Sessions |-> IF t \in {u \in Sessions : linked[u] # 0}
                                THEN [NoJob EXCEPT !.pc = "queued"] ELSE NoJob] \in [Sessions -> Job]
      BY QueuedTypes
    <3> QED
      BY <1>3, <3>1, NewJobsTypes DEF TypeOK, Reqs, RequestKinds, ReclaimBegins
  <2>2. ServerTypes' /\ DeckTypes' /\ closed' \in Histories /\ WorldTypes'
    BY <1>3 DEF TypeOK, ReclaimBegins, ServerTypes, Loops, DeckTypes, deckvars, WorldTypes, osvars
  <2> QED
    BY <2>1, <2>2 DEF TypeOK
<1>4. ASSUME ReportSampled(o) PROVE TypeOK'
  <2>1. RequestTypes'
    <3>1. PICK answers \in LsofAnswers :
            job' = [job EXCEPT ![o] = [t \in Sessions |-> [NoJob EXCEPT !.ok = (answers /\ masters[t] # {})]]]
      BY <1>4 DEF ReportSampled
    <3>2. [t \in Sessions |-> [NoJob EXCEPT !.ok = (answers /\ masters[t] # {})]] \in [Sessions -> Job]
      <4>1. \A t \in Sessions : (answers /\ masters[t] # {}) \in BOOLEAN
        OBVIOUS
      <4> QED
        BY <4>1, QueuedTypes
    <3> QED
      BY <1>4, <3>1, <3>2, NewJobsTypes DEF TypeOK, Reqs, RequestKinds, ReportSampled
  <2>2. ServerTypes' /\ DeckTypes' /\ closed' \in Histories /\ WorldTypes'
    BY <1>4 DEF TypeOK, ReportSampled, ServerTypes, Loops, DeckTypes, deckvars, WorldTypes, osvars
  <2> QED
    BY <2>1, <2>2 DEF TypeOK
<1>5. ASSUME KillAllEnds(o) PROVE TypeOK'
  <2>1. RequestTypes'
    BY <1>5, FinishedTypes DEF TypeOK, KillAllEnds
  <2>2. DeckTypes'
    <3>1. \A t \in Sessions : Cleared(t) \in Ms /\ ms[t] \in Ms
      BY ClearedTypes DEF TypeOK, DeckTypes
    <3> QED
      BY <1>5, <3>1 DEF TypeOK, DeckTypes, KillAllEnds
  <2>3. ServerTypes' /\ closed' \in Histories /\ WorldTypes'
    BY <1>5 DEF TypeOK, KillAllEnds, ServerTypes, Loops, deckvars, WorldTypes, osvars
  <2> QED
    BY <2>1, <2>2, <2>3 DEF TypeOK
<1>6. ASSUME ReportApplied(o) PROVE TypeOK'
  <2>1. RequestTypes'
    BY <1>6, FinishedTypes DEF TypeOK, ReportApplied
  <2>2. DeckTypes'
    <3>1. \A t \in Sessions : ms[t] \in Ms /\ [ms[t] EXCEPT !.detached = job[o][t].ok] \in Ms
      <4> TAKE t \in Sessions
      <4>1. ms[t] \in Ms /\ job[o][t].ok \in BOOLEAN
        BY DEF TypeOK, DeckTypes, RequestTypes, Job
      <4> QED
        BY <4>1, MsTypes
    <3> QED
      BY <1>6, <3>1 DEF TypeOK, DeckTypes, ReportApplied
  <2>3. ServerTypes' /\ closed' \in Histories /\ WorldTypes'
    BY <1>6 DEF TypeOK, ReportApplied, ServerTypes, Loops, deckvars, WorldTypes, osvars
  <2> QED
    BY <2>1, <2>2, <2>3 DEF TypeOK
<1> QED
  BY <1>1, <1>2, <1>3, <1>4, <1>5, <1>6

LEMMA StartStopTypes ==
  ASSUME ConstantsOK, TypeOK
  PROVE  (ServerStops \/ ServerStarts) => TypeOK'
<1>1. ASSUME ServerStops PROVE TypeOK'
  <2>1. ServerTypes'
    <3>1. crashes \in Nat /\ crashes + 1 <= MaxCrash /\ MaxCrash \in Nat
      BY <1>1 DEF TypeOK, ServerTypes, ServerStops, ConstantsOK
    <3>2. up' = FALSE /\ loop' = Free /\ crashes' = crashes + 1
      BY <1>1 DEF ServerStops
    <3> QED
      <4>1. crashes' \in 0..MaxCrash
        BY <3>1, <3>2
      <4>2. up' \in BOOLEAN /\ loop' \in Loops
        BY <3>2 DEF Loops
      <4> QED
        BY <4>1, <4>2 DEF ServerTypes
  <2>2. DeckTypes' /\ RequestTypes'
    <3>1. NewMs \in Ms /\ NoJobs \in [Sessions -> Job] /\ "idle" \in Reqs
      BY QueuedTypes DEF NoJobs, Reqs, ConstantsOK, NewMs, Ms, NoProc
    <3> QED
      BY <1>1, <3>1 DEF TypeOK, DeckTypes, RequestTypes, ServerStops
  <2>3. WorldTypes'
    BY <1>1 DEF TypeOK, WorldTypes, Bridges, ServerStops
  <2>4. closed' \in Histories
    BY <1>1 DEF TypeOK, ServerStops, deckvars
  <2> QED
    BY <2>1, <2>2, <2>3, <2>4 DEF TypeOK
<1>2. ASSUME ServerStarts PROVE TypeOK'
  <2>1. DeckTypes' /\ WorldTypes'
    <3>1. PICK answers \in BOOLEAN :
             /\ ms' = [t \in Sessions |-> IF t \in disk
                         THEN [NewMs EXCEPT !.lazy = TRUE, !.detached = answers /\ masters[t] # {}]
                         ELSE NewMs]
             /\ linked' = [t \in Sessions |-> IF answers /\ t \in disk /\ masters[t] = {} THEN 0 ELSE linked[t]]
      BY <1>2 DEF ServerStarts, LsofAnswers
    <3>2. NewMs \in Ms /\ \A b \in BOOLEAN : [NewMs EXCEPT !.lazy = TRUE, !.detached = b] \in Ms
      BY NewMsType, MsTypes
    <3>3. ms' \in [Sessions -> Ms]
      BY <3>1, <3>2
    <3>4. linked' \in [Sessions -> 0..MaxSpawn]
      <4>1. 0 \in 0..MaxSpawn /\ \A t \in Sessions : linked[t] \in 0..MaxSpawn
        BY DEF TypeOK, WorldTypes, ConstantsOK
      <4> QED
        BY <3>1, <4>1
    <3> QED
      BY <1>2, <3>3, <3>4 DEF TypeOK, DeckTypes, WorldTypes, ServerStarts
  <2>2. ServerTypes' /\ closed' \in Histories /\ RequestTypes'
    BY <1>2 DEF TypeOK, ServerStarts, ServerTypes, Loops, deckvars, RequestTypes, reqvars
  <2> QED
    BY <2>1, <2>2 DEF TypeOK
<1> QED
  BY <1>1, <1>2

LEMMA StepTypes == ConstantsOK /\ TypeOK /\ [Next]_vars => TypeOK'
<1> SUFFICES ASSUME ConstantsOK, TypeOK, [Next]_vars PROVE TypeOK'
  OBVIOUS
<1>1. ASSUME NEW s \in Sessions, UserSteps(s) \/ SaveSteps(s) \/ Bind(s) PROVE TypeOK'
  BY <1>1, UserTypes, SaveTypes DEF UserSteps, SaveSteps
<1>2. ASSUME NEW s \in Sessions, NEW n \in Spawns,
             MasterDies(s, n) \/ ClientExits(s, n) \/ BridgeExits(s, n)
      PROVE  TypeOK'
  BY <1>2, ProcessTypes
<1>3. ASSUME NEW o \in Ops, NEW s \in Sessions,
             RequestBegins(o, s) \/ TerminateSteps(o, s) \/ RequestEnds(o, s)
      PROVE  TypeOK'
  BY <1>3, RequestBeginTypes, TerminateTypes, RequestEndTypes
     DEF RequestBegins, TerminateSteps, RequestEnds
<1>4. ASSUME NEW o \in Ops, SweepBegins(o) \/ ReportSampled(o) \/ SweepEnds(o) PROVE TypeOK'
  BY <1>4, SweepTypes DEF SweepBegins, SweepEnds
<1>5. CASE ServerStops \/ ServerStarts
  BY <1>5, StartStopTypes
<1>6. CASE UNCHANGED vars
  BY <1>6 DEF vars, deckvars, osvars, reqvars, TypeOK, ServerTypes, DeckTypes, WorldTypes, RequestTypes
<1> QED
  BY <1>1, <1>2, <1>3, <1>4, <1>5, <1>6 DEF Next

(* Every state of the lifecycle is well typed, and the history of closed
   terminals never holds an id twice nor more than its cap. *)
THEOREM TypesHold == Spec => []TypeOK
<1>1. Init => TypeOK
  BY InitTypes, ConstantsOK
<1>2. TypeOK /\ [Next]_vars => TypeOK'
  BY StepTypes, ConstantsOK
<1> QED
  BY <1>1, <1>2, PTL DEF Spec

-----------------------------------------------------------------------------
(* The saved deck *)

(* sessions.json lags behind the deck only between the two halves of a
   creation or a deletion, while the loop is held. *)
DiskInv == up /\ loop[1] \notin {"create", "delete"} => disk = listed

LEMMA DiskStep == DiskInv /\ [Next]_vars => DiskInv'
<1> SUFFICES ASSUME DiskInv, [Next]_vars PROVE DiskInv'
  OBVIOUS
<1>0. /\ Free[1] = "free"
      /\ \A s \in Sessions : /\ <<"create", s>>[1] = "create"
                             /\ <<"delete", s>>[1] = "delete"
                             /\ <<"reopen", s>>[1] = "reopen"
      /\ \A o \in Ops : <<"op", o>>[1] = "op"
  BY DEF Free
<1>1. ASSUME NEW s \in Sessions, UserSteps(s) PROVE DiskInv'
  BY <1>0, <1>1 DEF DiskInv, UserSteps, Create, Attach, Reopen, Purge, ServerReady
<1>2. ASSUME NEW s \in Sessions, SaveSteps(s) PROVE DiskInv'
  BY <1>0, <1>2 DEF DiskInv, SaveSteps, CreateSaved, ReopenStarted, DeleteSaved
<1>3. ASSUME NEW s \in Sessions, Bind(s) PROVE DiskInv'
  BY <1>3 DEF DiskInv, Bind
<1>4. ASSUME NEW s \in Sessions, NEW n \in Spawns, MasterDies(s, n) \/ ClientExits(s, n)
      PROVE  DiskInv'
  BY <1>4 DEF DiskInv, MasterDies, ClientExits, deckvars
<1>5. ASSUME NEW s \in Sessions, NEW n \in Spawns, BridgeExits(s, n) PROVE DiskInv'
  BY <1>0, <1>5 DEF DiskInv, BridgeExits, ServerReady
<1>6. ASSUME NEW o \in Ops, NEW s \in Sessions, RequestBegins(o, s) PROVE DiskInv'
  BY <1>6 DEF DiskInv, RequestBegins, StopBegins, RestartBegins, DeleteBegins, FinishBegins, Begin
<1>7. ASSUME NEW o \in Ops, NEW s \in Sessions, TerminateSteps(o, s) PROVE DiskInv'
  BY <1>0, <1>7 DEF DiskInv, TerminateSteps, Scan, PollGone, PollsExhausted, SweepSampled, Swept,
                    HangupSeen, ServerReady, LoopAfter, deckvars
<1>8. ASSUME NEW o \in Ops, NEW s \in Sessions, RequestEnds(o, s) PROVE DiskInv'
  <2>1. up /\ disk = listed
    BY <1>0, <1>8 DEF DiskInv, RequestEnds, StopEnds, RestartEnds, DeleteEnds, WorktreeChanged,
                      FinishEnds, StaleKilled, ReclaimNext, ReclaimOne, Done, ServerReady
  <2>2. CASE DeleteEnds(o, s)
    BY <1>0, <2>1, <2>2 DEF DiskInv, DeleteEnds
  <2>3. CASE ~DeleteEnds(o, s)
    BY <1>8, <2>1, <2>3 DEF DiskInv, RequestEnds, StopEnds, RestartEnds, WorktreeChanged,
                      FinishEnds, StaleKilled, ReclaimNext, ReclaimOne, deckvars
  <2> QED
    BY <2>2, <2>3
<1>9. ASSUME NEW o \in Ops, SweepBegins(o) \/ ReportSampled(o) \/ SweepEnds(o) PROVE DiskInv'
  BY <1>9 DEF DiskInv, SweepBegins, SweepEnds, KillAllBegins, KillStaleBegins, ReclaimBegins,
              ReportSampled, KillAllEnds, ReportApplied, Begin, deckvars
<1>10. CASE ServerStops \/ ServerStarts
  BY <1>10 DEF DiskInv, ServerStops, ServerStarts
<1>11. CASE UNCHANGED vars
  BY <1>11 DEF DiskInv, vars, deckvars
<1> QED
  BY <1>1, <1>2, <1>3, <1>4, <1>5, <1>6, <1>7, <1>8, <1>9, <1>10, <1>11 DEF Next

(* Whatever overlaps, fails or dies, and even when the server may die between
   two writes of one handler: while the loop is free, sessions.json is the deck. *)
THEOREM DiskAlwaysMirrorsDeck == Spec => []DiskMirrorsDeck
<1>1. Init => DiskInv
  BY DEF Init, DiskInv
<1>2. DiskInv => DiskMirrorsDeck
  BY DEF DiskInv, DiskMirrorsDeck, ServerReady, Free
<1> QED
  BY <1>1, <1>2, DiskStep, PTL DEF Spec

-----------------------------------------------------------------------------
(* Open or closed *)

(* A record on its way out of the history is no longer in it, and what a
   restarted server will list is not in it either. *)
HistoryInv == /\ listed \cap ClosedIds = {}
              /\ \A s \in Sessions : loop = <<"reopen", s>> => s \notin ClosedIds
              /\ ~up => loop = Free /\ disk \cap ClosedIds = {}

(* Steps that leave the history and the loop alone and add nothing to the deck. *)
LEMMA HistoryKept ==
  ASSUME HistoryInv, up, up', listed' \subseteq listed, closed' = closed,
         loop' = loop \/ loop'[1] \in {"free", "op", "create", "delete"}
  PROVE  HistoryInv'
<1>1. ASSUME NEW s \in Sessions, loop' = <<"reopen", s>> PROVE s \notin ClosedIds'
  <2>1. <<"reopen", s>>[1] = "reopen"
    OBVIOUS
  <2> QED
    BY <1>1, <2>1 DEF HistoryInv, ClosedIds
<1> QED
  BY <1>1 DEF HistoryInv, ClosedIds

LEMMA HistoryStep ==
  ASSUME ConstantsOK, "torn" \notin Faults, TypeOK, DiskInv, HistoryInv, [Next]_vars
  PROVE  HistoryInv'
<1>0. /\ Free[1] = "free"
      /\ \A s \in Sessions : /\ <<"create", s>>[1] = "create"
                             /\ <<"delete", s>>[1] = "delete"
                             /\ <<"reopen", s>>[1] = "reopen"
      /\ \A o \in Ops : <<"op", o>>[1] = "op"
  BY DEF Free
<1>1. ASSUME NEW s \in Sessions, UserSteps(s) PROVE HistoryInv'
  <2>0. ServerReady
    BY <1>1 DEF UserSteps, Create, Attach, Reopen, Purge
  <2>1. CASE Create(s)
    <3>1. s \notin ClosedIds /\ listed' = listed \cup {s} /\ closed' = closed /\ up' /\ loop' = <<"create", s>>
      BY <2>0, <2>1 DEF Create, ServerReady
    <3> QED
      BY <1>0, <3>1 DEF HistoryInv, ClosedIds
  <2>2. CASE Attach(s)
    BY <2>0, <2>2, HistoryKept DEF Attach, ServerReady
  <2>3. CASE Reopen(s)
    <3>1. ToSet(closed') = ToSet(closed) \ {s}
      BY <2>3, WithoutProperties DEF Reopen, TypeOK, Histories
    <3>2. \A t \in Sessions : loop' = <<"reopen", t>> => t = s
      BY <2>3 DEF Reopen
    <3> QED
      BY <2>0, <2>3, <3>1, <3>2 DEF Reopen, HistoryInv, ClosedIds, ServerReady
  <2>4. CASE Purge(s)
    <3>1. ToSet(closed') = ToSet(closed) \ {s}
      BY <2>4, WithoutProperties DEF Purge, TypeOK, Histories
    <3> QED
      BY <2>0, <2>4, <3>1 DEF Purge, HistoryInv, ClosedIds, ServerReady
  <2> QED
    BY <1>1, <2>1, <2>2, <2>3, <2>4 DEF UserSteps
<1>2. ASSUME NEW s \in Sessions, SaveSteps(s) PROVE HistoryInv'
  <2>1. CASE CreateSaved(s) \/ DeleteSaved(s)
    BY <1>0, <2>1, HistoryKept DEF CreateSaved, DeleteSaved
  <2>2. CASE ReopenStarted(s)
    <3>1. s \notin ClosedIds
      BY <2>2 DEF ReopenStarted, HistoryInv
    <3>2. up' /\ listed' = listed \cup {s} /\ closed' = closed /\ loop' = Free
      BY <2>2 DEF ReopenStarted
    <3>3. \A t \in Sessions : loop' # <<"reopen", t>>
      BY <1>0, <3>2
    <3> QED
      BY <3>1, <3>2, <3>3 DEF HistoryInv, ClosedIds
  <2> QED
    BY <1>2, <2>1, <2>2 DEF SaveSteps
<1>3. ASSUME NEW s \in Sessions, Bind(s) PROVE HistoryInv'
  BY <1>3, HistoryKept DEF Bind, ServerReady
<1>4. ASSUME NEW s \in Sessions, NEW n \in Spawns, MasterDies(s, n) \/ ClientExits(s, n)
      PROVE  HistoryInv'
  BY <1>4 DEF HistoryInv, ClosedIds, MasterDies, ClientExits, deckvars
<1>5. ASSUME NEW s \in Sessions, NEW n \in Spawns, BridgeExits(s, n) PROVE HistoryInv'
  BY <1>5, HistoryKept DEF BridgeExits, ServerReady
<1>6. ASSUME NEW o \in Ops, NEW s \in Sessions, RequestBegins(o, s) PROVE HistoryInv'
  BY <1>6, HistoryKept DEF RequestBegins, StopBegins, RestartBegins, DeleteBegins, FinishBegins, Begin,
                           ServerReady
<1>7. ASSUME NEW o \in Ops, NEW s \in Sessions, TerminateSteps(o, s) PROVE HistoryInv'
  <2>1. up /\ up' /\ listed' = listed /\ closed' = closed
    <3>1. CASE Scan(o, s) \/ PollGone(o, s) \/ PollsExhausted(o, s)
      BY <3>1 DEF Scan, PollGone, PollsExhausted, ServerReady, deckvars
    <3>2. CASE SweepSampled(o, s)
      BY <3>2 DEF SweepSampled, ServerReady, deckvars
    <3>4. CASE HangupSeen(o, s)
      BY <3>4 DEF HangupSeen, ServerReady, deckvars
    <3>3. CASE Swept(o, s)
      BY <3>3 DEF Swept, ServerReady
    <3> QED
      BY <1>7, <3>1, <3>2, <3>3, <3>4 DEF TerminateSteps
  <2>2. loop' \in {loop, Free, <<"op", o>>}
    BY <1>7 DEF TerminateSteps, Scan, PollGone, PollsExhausted, SweepSampled, Swept, HangupSeen,
                LoopAfter
  <2> QED
    BY <1>0, <2>1, <2>2, HistoryKept
<1>8. ASSUME NEW o \in Ops, NEW s \in Sessions, RequestEnds(o, s) PROVE HistoryInv'
  <2>1. CASE DeleteEnds(o, s)
    <3>1. up /\ up' /\ loop = Free
      BY <2>1 DEF DeleteEnds, Done, Direct
    <3>2. CASE listed' = listed \ {s} /\ closed' = Push(closed, s) /\ loop' = <<"delete", s>>
      <4>1. ToSet(closed') \subseteq ToSet(closed) \cup {s}
        BY <3>2, PushProperties DEF TypeOK
      <4>2. \A t \in Sessions : loop' # <<"reopen", t>>
        BY <1>0, <3>2
      <4> QED
        BY <3>1, <3>2, <4>1, <4>2 DEF HistoryInv, ClosedIds
    <3>3. CASE UNCHANGED <<listed, closed, loop>>
      BY <3>1, <3>3, HistoryKept
    <3> QED
      BY <2>1, <3>2, <3>3 DEF DeleteEnds
  <2>2. CASE ~DeleteEnds(o, s)
    <3>1. up /\ up' /\ listed' \subseteq listed /\ closed' = closed /\ loop' \in {loop, Free}
      <4>1. CASE StopEnds(o, s)
        BY <4>1 DEF StopEnds, Done
      <4>4. CASE RestartEnds(o, s)
        BY <4>4 DEF RestartEnds, Done
      <4>5. CASE WorktreeChanged(o, s)
        BY <4>5 DEF WorktreeChanged, Done, deckvars
      <4>2. CASE FinishEnds(o, s) \/ StaleKilled(o, s)
        BY <4>2 DEF FinishEnds, StaleKilled, Done
      <4>3. CASE ReclaimNext(o, s) \/ ReclaimOne(o, s)
        BY <4>3 DEF ReclaimNext, ReclaimOne, Done, ServerReady, deckvars
      <4> QED
        BY <1>8, <2>2, <4>1, <4>2, <4>3, <4>4, <4>5 DEF RequestEnds
    <3> QED
      BY <1>0, <3>1, HistoryKept
  <2> QED
    BY <2>1, <2>2
<1>9. ASSUME NEW o \in Ops, SweepBegins(o) \/ ReportSampled(o) \/ SweepEnds(o) PROVE HistoryInv'
  <2>1. up /\ up' /\ listed' = listed /\ closed' = closed /\ loop' = loop
    BY <1>9 DEF SweepBegins, SweepEnds, KillAllBegins, KillStaleBegins, ReclaimBegins,
                ReportSampled, KillAllEnds, ReportApplied, Begin, ServerReady, deckvars
  <2> QED
    BY <2>1, HistoryKept
<1>10. CASE ServerStops
  <2>1. up /\ loop = Free
    BY <1>10 DEF ServerStops
  <2>2. disk = listed
    BY <1>0, <2>1 DEF DiskInv
  <2>3. ~up' /\ loop' = Free /\ listed' = {} /\ disk' = disk /\ closed' = closed
    BY <1>10 DEF ServerStops
  <2>4. \A s \in Sessions : loop' # <<"reopen", s>>
    BY <1>0, <2>3
  <2> QED
    BY <2>2, <2>3, <2>4 DEF HistoryInv, ClosedIds
<1>11. CASE ServerStarts
  BY <1>11 DEF HistoryInv, ClosedIds, ServerStarts
<1>12. CASE UNCHANGED vars
  BY <1>12 DEF HistoryInv, ClosedIds, vars, deckvars
<1> QED
  BY <1>1, <1>2, <1>3, <1>4, <1>5, <1>6, <1>7, <1>8, <1>9, <1>10, <1>11, <1>12 DEF Next

LEMMA DiskInit == Init => DiskInv
  BY DEF Init, DiskInv

LEMMA HistoryInit == Init => HistoryInv
<1> SUFFICES ASSUME Init PROVE HistoryInv
  OBVIOUS
<1>1. ToSet(<<>>) = {}
  BY DEF ToSet
<1>2. Free[1] = "free" /\ \A s \in Sessions : <<"reopen", s>>[1] = "reopen"
  BY DEF Free
<1> QED
  BY <1>1, <1>2 DEF Init, HistoryInv, ClosedIds

(* Unless the server dies between the two writes of one handler, a terminal is
   never open and in the history at once: not with requests that overlap, not
   with processes that refuse to die, not after any number of restarts. *)
THEOREM NeverOpenAndClosed ==
  ASSUME "torn" \notin Faults
  PROVE  Spec => []OpenOrClosed
<1> DEFINE Inv == TypeOK /\ DiskInv /\ HistoryInv
<1>1. Init => Inv
  BY InitTypes, DiskInit, HistoryInit, ConstantsOK
<1>2. Inv /\ [Next]_vars => Inv'
  BY StepTypes, DiskStep, HistoryStep, ConstantsOK
<1>3. Inv => OpenOrClosed
  BY DEF HistoryInv, OpenOrClosed
<1> QED
  BY <1>1, <1>2, <1>3, PTL DEF Spec

-----------------------------------------------------------------------------
(* Records *)

(* Between the two halves of a creation the saved deck is behind by the new
   terminal, between those of a deletion it is ahead by one the history has. *)
SavedInv ==
  up => \A s \in Sessions :
          /\ loop = <<"create", s>> => disk \subseteq listed
          /\ loop = <<"delete", s>> => disk \subseteq listed \cup {s} /\ s \in ClosedIds

(* At most the oldest record leaves the history for a new one, and only when
   the history is full. *)
LEMMA PushDrops ==
  ASSUME ConstantsOK, NEW q \in Histories, NEW s \in Sessions, s \notin ToSet(q)
  PROVE  /\ s \in ToSet(Push(q, s))
         /\ \A t \in ToSet(q) : t \in ToSet(Push(q, s))
                                \/ (Len(Push(q, s)) = ClosedMax /\ q # <<>> /\ q[Len(q)] = t)
PROOF
  <1> DEFINE m == ClosedMax
             l == Len(q)
             e == <<s>> \o q
             n == IF Len(e) < m THEN Len(e) ELSE m
             p == SubSeq(e, 1, n)
  <1>1. /\ q \in Seq(Sessions) /\ l \in Nat /\ l <= m /\ m \in Nat /\ m >= 1
        /\ DOMAIN q = 1..l
    BY DEF Histories, ConstantsOK
  <1>2. /\ e \in Seq(Sessions) /\ Len(e) = l + 1 /\ e[1] = s
        /\ \A k \in 1..l : e[k + 1] = q[k]
    BY <1>1
  <1>3. Push(q, s) = p
    BY DEF Push, Without
  <1> HIDE DEF e
  <1>4. n \in 1..Len(e) /\ n <= m
    BY <1>1, <1>2
  <1>5. p \in Seq(Sessions) /\ Len(p) = n /\ DOMAIN p = 1..n /\ \A k \in 1..n : p[k] = e[k]
    BY <1>2, <1>4
  <1> HIDE DEF p
  <1>6. s \in ToSet(p)
    BY <1>1, <1>2, <1>4, <1>5 DEF ToSet
  <1>7. ASSUME NEW t \in ToSet(q) PROVE t \in ToSet(p) \/ (n = m /\ q # <<>> /\ q[l] = t)
    <2>1. PICK k \in 1..l : q[k] = t
      BY <1>1 DEF ToSet
    <2>2. CASE k + 1 <= n
      <3>1. k + 1 \in 1..n /\ p[k + 1] = t
        BY <1>1, <1>2, <1>4, <1>5, <2>1, <2>2
      <3> QED BY <1>5, <3>1 DEF ToSet
    <2>3. CASE ~(k + 1 <= n)
      <3>1. k = l /\ n = m /\ l # 0
        BY <1>1, <1>2, <2>1, <2>3
      <3> QED BY <1>1, <2>1, <3>1
    <2> QED BY <2>2, <2>3
  <1> QED BY <1>3, <1>5, <1>6, <1>7

(* Which loop it is. *)
LEMMA LoopsDiffer ==
  /\ Free[1] = "free"
  /\ \A s \in Sessions : /\ <<"create", s>>[1] = "create" /\ <<"create", s>>[2] = s
                         /\ <<"delete", s>>[1] = "delete" /\ <<"delete", s>>[2] = s
                         /\ <<"reopen", s>>[1] = "reopen" /\ <<"reopen", s>>[2] = s
  /\ \A o \in Ops : <<"op", o>>[1] = "op"
BY DEF Free

(* A step of a server that keeps the deck, both files and a loop that is not
   held for a file. *)
LEMMA SavedKept ==
  ASSUME SavedInv, up' => up, UNCHANGED <<listed, disk, closed>>,
         loop' = loop \/ loop'[1] \in {"free", "op", "reopen"}
  PROVE  SavedInv'
BY LoopsDiffer DEF SavedInv, ClosedIds

LEMMA SavedStep ==
  ASSUME ConstantsOK, TypeOK, DiskInv, HistoryInv, SavedInv, [Next]_vars
  PROVE  SavedInv'
PROOF
  <1>1. ASSUME NEW s \in Sessions, UserSteps(s) PROVE SavedInv'
    <2>1. CASE Create(s)
      <3>1. disk = listed
        BY <2>1, LoopsDiffer DEF Create, ServerReady, DiskInv
      <3>2. disk' = disk /\ listed' = listed \cup {s} /\ loop' = <<"create", s>>
        BY <2>1 DEF Create
      <3> QED BY <3>1, <3>2, LoopsDiffer DEF SavedInv
    <2>2. CASE Attach(s)
      BY <2>2, SavedKept DEF Attach
    <2>3. CASE Reopen(s) \/ Purge(s)
      <3>1. loop' = Free \/ loop' = <<"reopen", s>>
        BY <2>3 DEF Reopen, Purge, ServerReady
      <3> QED BY <3>1, LoopsDiffer DEF SavedInv
    <2> QED BY <1>1, <2>1, <2>2, <2>3 DEF UserSteps
  <1>2. ASSUME NEW s \in Sessions, SaveSteps(s) PROVE SavedInv'
    <2>1. loop' = Free
      BY <1>2 DEF SaveSteps, CreateSaved, ReopenStarted, DeleteSaved
    <2> QED BY <2>1, LoopsDiffer DEF SavedInv
  <1>3. ASSUME NEW s \in Sessions, Bind(s) PROVE SavedInv'
    BY <1>3, LoopsDiffer DEF Bind, ServerReady, SavedInv
  <1>4. ASSUME NEW s \in Sessions, NEW n \in Spawns, MasterDies(s, n) \/ ClientExits(s, n)
        PROVE  SavedInv'
    BY <1>4, SavedKept DEF MasterDies, ClientExits, deckvars
  <1>5. ASSUME NEW s \in Sessions, NEW n \in Spawns, BridgeExits(s, n) PROVE SavedInv'
    BY <1>5, LoopsDiffer DEF BridgeExits, ServerReady, SavedInv
  <1>6. ASSUME NEW o \in Ops, NEW s \in Sessions, RequestBegins(o, s) PROVE SavedInv'
    BY <1>6, SavedKept DEF RequestBegins, StopBegins, RestartBegins, DeleteBegins, FinishBegins, Begin
  <1>7. ASSUME NEW o \in Ops, NEW s \in Sessions, TerminateSteps(o, s) PROVE SavedInv'
    <2>1. UNCHANGED <<up, listed, disk, closed>>
      BY <1>7 DEF TerminateSteps, Scan, PollGone, PollsExhausted, SweepSampled, Swept, HangupSeen,
                  deckvars
    <2>2. loop' \in {loop, Free, <<"op", o>>}
      BY <1>7 DEF TerminateSteps, Scan, PollGone, PollsExhausted, SweepSampled, Swept, HangupSeen,
                  LoopAfter
    <2> QED BY <2>1, <2>2, SavedKept, LoopsDiffer
  <1>8. ASSUME NEW o \in Ops, NEW s \in Sessions, RequestEnds(o, s) PROVE SavedInv'
    <2>1. CASE DeleteEnds(o, s)
      <3>1. CASE listed' = listed \ {s} /\ closed' = Push(closed, s) /\ loop' = <<"delete", s>> /\ s \in listed
        <4>1. disk' = disk /\ disk = listed
          BY <2>1, LoopsDiffer DEF DeleteEnds, Done, DiskInv, Direct
        <4>2. s \in ToSet(Push(closed, s))
          BY <3>1, PushDrops DEF HistoryInv, ClosedIds, TypeOK
        <4> QED BY <3>1, <4>1, <4>2, LoopsDiffer DEF SavedInv, ClosedIds
      <3>2. CASE UNCHANGED <<listed, closed, loop>>
        BY <2>1, <3>2, SavedKept DEF DeleteEnds
      <3> QED BY <2>1, <3>1, <3>2 DEF DeleteEnds
    <2>2. CASE ~DeleteEnds(o, s)
      <3>1. loop' \in {loop, Free} /\ loop'[1] \in {"free", "op"}
        <4>1. CASE StopEnds(o, s) \/ RestartEnds(o, s) \/ WorktreeChanged(o, s) \/ StaleKilled(o, s)
          <5>1. loop' = Free
            BY <4>1 DEF StopEnds, RestartEnds, WorktreeChanged, StaleKilled
          <5> QED BY <5>1, LoopsDiffer
        <4>2. CASE FinishEnds(o, s) \/ ReclaimNext(o, s) \/ ReclaimOne(o, s)
          <5>1. loop' = loop /\ loop = Free
            BY <4>2 DEF FinishEnds, ReclaimNext, ReclaimOne, Done, ServerReady, Direct
          <5> QED BY <5>1, LoopsDiffer
        <4> QED BY <1>8, <2>2, <4>1, <4>2 DEF RequestEnds
      <3> QED BY <3>1, LoopsDiffer DEF SavedInv
    <2> QED BY <2>1, <2>2
  <1>9. ASSUME NEW o \in Ops, SweepBegins(o) \/ ReportSampled(o) \/ SweepEnds(o) PROVE SavedInv'
    <2>1. loop' = Free
      BY <1>9 DEF SweepBegins, SweepEnds, KillAllBegins, KillStaleBegins, ReclaimBegins, ReportSampled,
                  KillAllEnds, ReportApplied, Begin, ServerReady
    <2> QED BY <2>1, LoopsDiffer DEF SavedInv
  <1>10. CASE ServerStops
    BY <1>10 DEF ServerStops, SavedInv
  <1>11. CASE ServerStarts
    <2>1. loop' = Free
      BY <1>11 DEF ServerStarts, HistoryInv
    <2> QED BY <2>1, LoopsDiffer DEF SavedInv
  <1>12. CASE UNCHANGED vars
    BY <1>12, SavedKept DEF vars, deckvars
  <1> QED
    BY <1>1, <1>2, <1>3, <1>4, <1>5, <1>6, <1>7, <1>8, <1>9, <1>10, <1>11, <1>12 DEF Next

(* Nothing is forgotten where both files and the record on its way stay. *)
LEMMA StaysRecorded ==
  ASSUME disk \subseteq disk', closed' = closed, \A s \in Sessions : loop # <<"reopen", s>>
  PROVE  \A s \in Sessions : Recorded(s) => Recorded(s)'
BY DEF Recorded, ClosedIds

LEMMA RecordStep ==
  ASSUME ConstantsOK, "torn" \notin Faults, TypeOK, DiskInv, HistoryInv, SavedInv, [Next]_vars,
         NEW t \in Sessions, Recorded(t), ~Recorded(t)'
  PROVE  Forgotten(t)
PROOF
  <1>1. ASSUME NEW s \in Sessions, UserSteps(s) PROVE Forgotten(t)
    <2>0. loop = Free /\ \A i \in Sessions : loop # <<"reopen", i>>
      <3>1. loop = Free
        BY <1>1 DEF UserSteps, Create, Attach, Reopen, Purge, ServerReady
      <3> QED BY <3>1, LoopsDiffer
    <2>1. CASE Create(s) \/ Attach(s)
      BY <2>0, <2>1, StaysRecorded DEF Create, Attach
    <2>2. CASE Reopen(s)
      <3>1. ToSet(closed') = ToSet(closed) \ {s}
        BY <2>2, WithoutProperties DEF Reopen, TypeOK, Histories
      <3> QED BY <2>0, <2>2, <3>1 DEF Recorded, ClosedIds, Reopen
    <2>3. CASE Purge(s)
      <3>1. ToSet(closed') = ToSet(closed) \ {s}
        BY <2>3, WithoutProperties DEF Purge, TypeOK, Histories
      <3>2. t = s
        BY <2>0, <2>3, <3>1 DEF Recorded, ClosedIds, Purge
      <3> QED BY <2>3, <3>2 DEF Forgotten
    <2> QED BY <1>1, <2>1, <2>2, <2>3 DEF UserSteps
  <1>2. ASSUME NEW s \in Sessions, SaveSteps(s) PROVE Forgotten(t)
    <2>1. CASE CreateSaved(s)
      BY <2>1, LoopsDiffer, StaysRecorded DEF CreateSaved, SavedInv
    <2>2. CASE ReopenStarted(s)
      <3>1. disk = listed /\ disk' = disk \cup {s} /\ closed' = closed
        BY <2>2, LoopsDiffer DEF ReopenStarted, DiskInv
      <3>2. loop = <<"reopen", t>> => t = s
        BY <2>2, LoopsDiffer DEF ReopenStarted
      <3> QED BY <3>1, <3>2 DEF Recorded, ClosedIds
    <2>3. CASE DeleteSaved(s)
      <3>1. disk \subseteq disk' \cup {s} /\ s \in ClosedIds /\ closed' = closed
        BY <2>3 DEF DeleteSaved, SavedInv
      <3>2. loop # <<"reopen", t>>
        BY <2>3, LoopsDiffer DEF DeleteSaved
      <3> QED BY <3>1, <3>2 DEF Recorded, ClosedIds
    <2> QED BY <1>2, <2>1, <2>2, <2>3 DEF SaveSteps
  <1>3. ASSUME NEW s \in Sessions, Bind(s) PROVE Forgotten(t)
    BY <1>3, LoopsDiffer, StaysRecorded DEF Bind, ServerReady, DiskInv
  <1>4. ASSUME NEW s \in Sessions, NEW n \in Spawns, MasterDies(s, n) \/ ClientExits(s, n)
        PROVE  Forgotten(t)
    BY <1>4 DEF MasterDies, ClientExits, deckvars, Recorded, ClosedIds
  <1>5. ASSUME NEW s \in Sessions, NEW n \in Spawns, BridgeExits(s, n) PROVE Forgotten(t)
    <2>1. up /\ loop = Free /\ closed' = closed /\ disk' \in {disk, listed}
      BY <1>5 DEF BridgeExits, ServerReady
    <2> QED BY <2>1, LoopsDiffer, StaysRecorded DEF DiskInv
  <1>6. ASSUME NEW o \in Ops, NEW s \in Sessions, RequestBegins(o, s) PROVE Forgotten(t)
    BY <1>6 DEF RequestBegins, StopBegins, RestartBegins, DeleteBegins, FinishBegins, Begin,
                Recorded, ClosedIds
  <1>7. ASSUME NEW o \in Ops, NEW s \in Sessions, TerminateSteps(o, s) PROVE Forgotten(t)
    <2>1. loop = Free /\ disk' = disk /\ closed' = closed
      BY <1>7 DEF TerminateSteps, Scan, PollGone, PollsExhausted, SweepSampled, Swept, HangupSeen,
                  deckvars, ServerReady
    <2> QED BY <2>1, LoopsDiffer, StaysRecorded
  <1>8. ASSUME NEW o \in Ops, NEW s \in Sessions, RequestEnds(o, s) PROVE Forgotten(t)
    <2>1. up /\ disk = listed /\ \A i \in Sessions : loop # <<"reopen", i>>
      <3>1. up /\ (loop = Free \/ loop = <<"op", o>>)
        BY <1>8 DEF RequestEnds, StopEnds, RestartEnds, DeleteEnds, WorktreeChanged, FinishEnds,
                    StaleKilled, ReclaimNext, ReclaimOne, Done, ServerReady
      <3> QED BY <3>1, LoopsDiffer DEF DiskInv
    <2>2. CASE FinishEnds(o, s)
      <3>1. closed' = closed /\ disk \subseteq disk' \cup {s}
        BY <2>1, <2>2 DEF FinishEnds
      <3>2. t = s
        BY <2>1, <3>1 DEF Recorded, ClosedIds
      <3> QED BY <2>2, <3>2 DEF Forgotten
    <2>3. CASE DeleteEnds(o, s)
      <3>1. CASE closed' = Push(closed, s) /\ s \in listed
        <4>1. s \notin ToSet(closed) /\ closed \in Histories
          BY <3>1 DEF HistoryInv, ClosedIds, TypeOK
        <4>2. disk' = disk
          BY <2>3 DEF DeleteEnds
        <4>3. t \in ToSet(closed) /\ t \notin ToSet(closed')
          BY <2>1, <4>2 DEF Recorded, ClosedIds
        <4> QED BY <3>1, <4>1, <4>3, PushDrops DEF Forgotten, ClosedIds
      <3>2. CASE closed' = closed
        BY <2>1, <2>3, <3>2, StaysRecorded DEF DeleteEnds
      <3> QED BY <2>3, <3>1, <3>2 DEF DeleteEnds
    <2>4. CASE ~FinishEnds(o, s) /\ ~DeleteEnds(o, s)
      <3>1. closed' = closed /\ disk' \in {disk, listed}
        BY <1>8, <2>4 DEF RequestEnds, StopEnds, RestartEnds, WorktreeChanged, StaleKilled, ReclaimNext,
                          ReclaimOne, deckvars
      <3> QED BY <2>1, <3>1, StaysRecorded
    <2> QED BY <2>2, <2>3, <2>4
  <1>9. ASSUME NEW o \in Ops, SweepBegins(o) \/ ReportSampled(o) \/ SweepEnds(o) PROVE Forgotten(t)
    <2>1. up /\ loop = Free /\ closed' = closed /\ disk' \in {disk, listed}
      BY <1>9 DEF SweepBegins, SweepEnds, KillAllBegins, KillStaleBegins, ReclaimBegins, ReportSampled,
                  KillAllEnds, ReportApplied, Begin, ServerReady, deckvars
    <2> QED BY <2>1, LoopsDiffer, StaysRecorded DEF DiskInv
  <1>10. CASE ServerStops
    BY <1>10, LoopsDiffer, StaysRecorded DEF ServerStops
  <1>11. CASE ServerStarts
    BY <1>11 DEF ServerStarts, Recorded, ClosedIds
  <1>12. CASE UNCHANGED vars
    BY <1>12 DEF vars, deckvars, Recorded, ClosedIds
  <1> QED
    BY <1>1, <1>2, <1>3, <1>4, <1>5, <1>6, <1>7, <1>8, <1>9, <1>10, <1>11, <1>12 DEF Next

(* sessions.json and the history together: unless the server dies between the
   two writes of one handler, no step loses a saved terminal, but purging it,
   finishing its worktree, and closing another one when the history is full. *)
THEOREM RecordsSurvive ==
  ASSUME "torn" \notin Faults
  PROVE  Spec => RecordSurvives
PROOF
  <1> DEFINE Inv == TypeOK /\ DiskInv /\ HistoryInv /\ SavedInv
  <1>1. Init => Inv
    <2>1. ASSUME Init PROVE SavedInv
      BY <2>1, LoopsDiffer DEF Init, SavedInv
    <2> QED BY <2>1, InitTypes, ConstantsOK, DiskInit, HistoryInit
  <1>2. Inv /\ [Next]_vars => Inv'
    BY StepTypes, DiskStep, HistoryStep, SavedStep, ConstantsOK
  <1>3. Inv /\ [Next]_vars => [\A s \in Sessions : Recorded(s) /\ ~Recorded(s)' => Forgotten(s)]_vars
    BY RecordStep, ConstantsOK
  <1> QED BY <1>1, <1>2, <1>3, PTL DEF Spec, RecordSurvives

-----------------------------------------------------------------------------
(* Trees and the requests that end them *)

Active(o, s) == job[o][s].pc # "none"

(* _terminate_proc has seen that nobody holds the socket. *)
Killed(o, s) == job[o][s].pc \in {"swept", "hangup", "done"} /\ job[o][s].ok

(* The only tree is the one behind the socket file, and it has a record. *)
TreesInv ==
  \A s \in Sessions : /\ masters[s] # {} => masters[s] = {linked[s]}
                      /\ masters[s] # {} => s \in (IF up THEN listed ELSE disk)
                      /\ linked[s] # 0 => spawned[s] # 0

(* A request works on a terminal of the deck, but a reclaim on one that is not
   there and has been started before; what was seen dead is still dead. *)
Fits(o, s) ==
  /\ ~job[o][s].gone
  /\ Killed(o, s) => masters[s] = {}
  /\ Active(o, s) => IF req[o] = "reclaim"
                     THEN spawned[s] # 0 /\ (job[o][s].pc # "queued" => s \notin listed)
                     ELSE s \in listed

(* No two requests work on one terminal, but for a reclaim that passes by, and
   none works on a terminal that is being reopened. *)
JobsInv ==
  /\ ~up => \A o \in Ops, s \in Sessions : ~Active(o, s)
  /\ \A s \in Sessions : loop = <<"reopen", s>> => s \notin listed /\ \A o \in Ops : ~Active(o, s)
  /\ \A o \in Ops, s \in Sessions : Fits(o, s)
  /\ \A o, p \in Ops, s \in Sessions :
       o # p /\ Active(o, s) /\ Active(p, s) => "reclaim" \in {req[o], req[p]}

(* The bridge a request has hung up is the terminal's own. *)
HangsUp(o, s) ==
  /\ job[o][s].pc = "hangup" => ms[s].proc \in {NoProc, job[o][s].proc}
  /\ job[o][s].pc = "done" /\ job[o][s].ok => ms[s].proc = NoProc

(* The bridge a terminal calls its own has not ended, and a request that hung
   one up has no other: when it is done the terminal has none. *)
BridgesInv ==
  /\ \A s \in Sessions : ms[s].proc # NoProc => s \in listed /\ bridge[s][ms[s].proc] \in {"up", "down"}
  /\ \A o \in Ops, s \in Sessions : HangsUp(o, s)

(* No two requests on one terminal but a reclaim's, no resume refused while a
   request works on it, no lsof that times out, no death between two writes of
   one handler.  Clients, spawns and kills may fail. *)
Orderly == {"overlap", "probe", "refused", "torn"} \cap Faults = {}

LEMMA OrderlyIs ==
  ASSUME Orderly
  PROVE  /\ LsofAnswers = {TRUE} /\ "overlap" \notin Faults /\ "refused" \notin Faults /\ "torn" \notin Faults
         /\ \A s \in Sessions : Holders(s) = {masters[s]}
BY DEF Orderly, LsofAnswers, Holders

LEMMA AdmittedIs ==
  ASSUME Orderly, JobsInv, NEW s \in Sessions
  PROVE  /\ Admitted(s) => \A o \in Ops : ~Active(o, s)
         /\ (\A o \in Ops : ~Working(o, s)) => \A o \in Ops : ~Active(o, s)
BY OrderlyIs DEF Admitted, Working, JobsInv, Fits, Active

(* The coroutines of requests after a step of theirs. *)
LEMMA SetJobIs ==
  ASSUME TypeOK, NEW o \in Ops, NEW s \in Sessions, NEW j, SetJob(o, s, j)
  PROVE  \A p \in Ops, t \in Sessions : job'[p][t] = IF p = o /\ t = s THEN j ELSE job[p][t]
BY DEF SetJob, TypeOK, RequestTypes

LEMMA BeginIs ==
  ASSUME TypeOK, NEW o \in Ops, NEW kind, NEW targets, Begin(o, kind, targets)
  PROVE  /\ \A p \in Ops, t \in Sessions :
              job'[p][t] = IF p = o THEN (IF t \in targets THEN StartJob ELSE NoJob) ELSE job[p][t]
         /\ \A p \in Ops : req'[p] = IF p = o THEN kind ELSE req[p]
BY DEF Begin, TypeOK, RequestTypes

LEMMA FinishedIs ==
  ASSUME TypeOK, NEW o \in Ops, Finished(o)
  PROVE  /\ \A p \in Ops, t \in Sessions : job'[p][t] = IF p = o THEN NoJob ELSE job[p][t]
         /\ \A p \in Ops : req'[p] = IF p = o THEN "idle" ELSE req[p]
BY DEF Finished, TypeOK, RequestTypes, NoJobs

LEMMA NoJobIs ==
  /\ NoJob.pc = "none" /\ ~NoJob.gone /\ ~NoJob.ok
  /\ StartJob.pc = "scan" /\ ~StartJob.gone /\ ~StartJob.ok
BY DEF NoJob, StartJob

(* What has to be seen of each request and terminal. *)
LEMMA JobsStep ==
  ASSUME JobsInv,
         ~up' => \A o \in Ops, s \in Sessions : ~Active(o, s)',
         \A s \in Sessions : loop' = <<"reopen", s>> => s \notin listed' /\ \A o \in Ops : ~Active(o, s)',
         \A o \in Ops, s \in Sessions :
           /\ Fits(o, s)'
           /\ \/ ~Active(o, s)'
              \/ req'[o] = req[o] /\ Active(o, s)
              \/ \A p \in Ops : p # o /\ Active(p, s)' => "reclaim" \in {req'[o], req'[p]}
  PROVE  JobsInv'
PROOF
  <1>1. ASSUME NEW o \in Ops, NEW p \in Ops, NEW s \in Sessions, o # p, Active(o, s)', Active(p, s)'
        PROVE  "reclaim" \in {req'[o], req'[p]}
    BY <1>1 DEF JobsInv
  <1> QED BY <1>1 DEF JobsInv

LEMMA FitsSame ==
  ASSUME NEW o \in Ops, NEW s \in Sessions, Fits(o, s), job'[o][s] = job[o][s], req'[o] = req[o],
         masters'[s] \subseteq masters[s], spawned[s] # 0 => spawned'[s] # 0, s \in listed' <=> s \in listed
  PROVE  Fits(o, s)' /\ (Active(o, s)' => Active(o, s))
BY DEF Fits, Killed, Active

LEMMA Unoccupied ==
  ASSUME NEW o \in Ops, NEW s \in Sessions, job'[o][s].pc = "none", ~job'[o][s].gone
  PROVE  Fits(o, s)' /\ ~Active(o, s)'
BY DEF Fits, Killed, Active

(* Steps that no request takes part in and that start nothing. *)
LEMMA QuietJobs ==
  ASSUME JobsInv, UNCHANGED <<up, listed, spawned, req, job>>,
         \A s \in Sessions : masters'[s] \subseteq masters[s],
         \A s \in Sessions : loop' = <<"reopen", s>> => loop = loop'
  PROVE  JobsInv'
PROOF
  <1>1. \A o \in Ops, s \in Sessions : Active(o, s)' <=> Active(o, s)
    BY DEF Active
  <1>2. \A o \in Ops, s \in Sessions : Fits(o, s)'
    BY FitsSame DEF JobsInv
  <1> QED BY <1>1, <1>2 DEF JobsInv

(* The start of a terminal no request works on. *)
LEMMA StartJobs ==
  ASSUME JobsInv, up', NEW s \in Sessions, req' = req,
         \A o \in Ops : ~Active(o, s) /\ job'[o][s].pc = "none" /\ ~job'[o][s].gone,
         \A o \in Ops, t \in Sessions \ {s} : job'[o][t] = job[o][t],
         \A t \in Sessions \ {s} : /\ masters'[t] = masters[t] /\ spawned'[t] = spawned[t]
                                   /\ t \in listed' <=> t \in listed,
         \A t \in Sessions : loop' # <<"reopen", t>>
  PROVE  JobsInv'
PROOF
  <1>1. ASSUME NEW o \in Ops, NEW t \in Sessions
        PROVE  Fits(o, t)' /\ (~Active(o, t)' \/ (req'[o] = req[o] /\ Active(o, t)))
    <2>1. CASE t = s
      <3>1. job'[o][t].pc = "none" /\ ~job'[o][t].gone
        BY <2>1
      <3> QED BY <3>1, Unoccupied
    <2>2. CASE t # s
      <3>1. /\ job'[o][t] = job[o][t] /\ req'[o] = req[o] /\ masters'[t] \subseteq masters[t]
            /\ spawned[t] # 0 => spawned'[t] # 0
            /\ t \in listed' <=> t \in listed
        BY <2>2
      <3>2. Fits(o, t)
        BY DEF JobsInv
      <3> QED BY <3>1, <3>2, FitsSame
    <2> QED BY <2>1, <2>2
  <1> QED BY <1>1, JobsStep

(* What has to be seen of each bridge and each request. *)
LEMMA BridgesStep ==
  ASSUME BridgesInv,
         \A s \in Sessions :
           \/ ms'[s].proc = NoProc
           \/ /\ ms'[s].proc = ms[s].proc /\ (s \in listed => s \in listed')
              /\ \/ bridge'[s][ms[s].proc] = bridge[s][ms[s].proc]
                 \/ bridge'[s][ms[s].proc] \in {"up", "down"}
           \/ /\ s \in listed' /\ bridge'[s][ms'[s].proc] = "up"
              /\ \A o \in Ops : job'[o][s].pc \notin {"hangup", "done"},
         \A o \in Ops, s \in Sessions :
           job'[o][s] = job[o][s] \/ job'[o][s].pc \notin {"hangup", "done"} \/ HangsUp(o, s)'
  PROVE  BridgesInv'
PROOF
  <1>1. ASSUME NEW s \in Sessions, ms'[s].proc # NoProc
        PROVE  s \in listed' /\ bridge'[s][ms'[s].proc] \in {"up", "down"}
    BY <1>1 DEF BridgesInv
  <1>2. ASSUME NEW o \in Ops, NEW s \in Sessions
        PROVE  HangsUp(o, s)'
    <2>1. CASE job'[o][s] = job[o][s]
      BY <2>1 DEF BridgesInv, HangsUp
    <2> QED BY <2>1 DEF HangsUp
  <1> QED BY <1>1, <1>2 DEF BridgesInv

LEMMA QuietBridges ==
  ASSUME BridgesInv, UNCHANGED <<ms, bridge, job>>, listed \subseteq listed'
  PROVE  BridgesInv'
BY BridgesStep

LEMMA SpawnRuns ==
  ASSUME ConstantsOK, TypeOK, NEW s \in Sessions, NEW m \in Ms, NEW bridges \in Bridges,
         NEW resume, NEW hasId, Spawn(s, m, bridges, resume, hasId)
  PROVE  /\ \A t \in Sessions \ {s} : ms'[t] = ms[t] /\ bridge'[t] = bridges[t]
         /\ \/ ms'[s].proc = m.proc /\ bridge'[s] = bridges[s]
            \/ bridge'[s][ms'[s].proc] = "up"
PROOF
  <1>1. PICK answers \in LsofAnswers :
          LET reattach == resume /\ answers /\ SocketLive(s)
              spawning == [m EXCEPT !.lazy = FALSE, !.detached = reattach,
                                    !.resuming = ~reattach /\ hasId]
          IN \/ /\ Room(s)
                /\ LET n == spawned[s] + 1
                   IN /\ ms' = [ms EXCEPT ![s] = [spawning EXCEPT !.proc = n]]
                      /\ Opens(s, n, bridges)
             \/ /\ "spawn" \in Faults
                /\ ms' = [ms EXCEPT ![s] = [spawning EXCEPT !.detached = FALSE]]
                /\ bridge' = bridges
    BY DEF Spawn
  <1> DEFINE reattach == resume /\ answers /\ SocketLive(s)
             spawning == [m EXCEPT !.lazy = FALSE, !.detached = reattach,
                                   !.resuming = ~reattach /\ hasId]
             n == spawned[s] + 1
  <1>2. spawning.proc = m.proc /\ [spawning EXCEPT !.detached = FALSE].proc = m.proc
        /\ [spawning EXCEPT !.proc = n].proc = n
    BY DEF Ms
  <1>3. ms \in [Sessions -> Ms] /\ bridges \in [Sessions -> [Spawns -> {"unborn", "up", "down", "closed"}]]
    BY DEF TypeOK, DeckTypes, Bridges
  <1>4. Room(s) => n \in Spawns
    <2>1. spawned[s] \in 0..MaxSpawn
      BY DEF TypeOK, WorldTypes
    <2> QED BY <2>1 DEF Room, Spawns, ConstantsOK
  <1> HIDE DEF n, spawning
  <1>5. CASE Room(s) /\ ms' = [ms EXCEPT ![s] = [spawning EXCEPT !.proc = n]] /\ Opens(s, n, bridges)
    <2>1. bridge' = [bridges EXCEPT ![s][n] = "up"]
      BY <1>5 DEF Opens
    <2> QED BY <1>2, <1>3, <1>4, <1>5, <2>1
  <1>6. CASE ms' = [ms EXCEPT ![s] = [spawning EXCEPT !.detached = FALSE]] /\ bridge' = bridges
    BY <1>2, <1>3, <1>6
  <1> QED BY <1>1, <1>5, <1>6 DEF n, spawning

LEMMA StartBridges ==
  ASSUME ConstantsOK, TypeOK, BridgesInv, NEW s \in Sessions, NEW m \in Ms, NEW bridges \in Bridges,
         NEW resume, NEW hasId, Spawn(s, m, bridges, resume, hasId),
         m.proc = NoProc \/ (m.proc = ms[s].proc /\ bridges = bridge),
         \A t \in Sessions \ {s} : bridges[t] = bridge[t],
         listed \subseteq listed', s \in listed',
         \A o \in Ops : job'[o][s].pc \notin {"hangup", "done"},
         \A o \in Ops, t \in Sessions \ {s} : job'[o][t] = job[o][t] \/ job'[o][t].pc = "none"
  PROVE  BridgesInv'
PROOF
  <1>1. /\ \A t \in Sessions \ {s} : ms'[t] = ms[t] /\ bridge'[t] = bridges[t]
        /\ \/ ms'[s].proc = m.proc /\ bridge'[s] = bridges[s]
           \/ bridge'[s][ms'[s].proc] = "up"
    BY SpawnRuns
  <1> QED BY <1>1, BridgesStep

(* A start makes a tree only where there is none. *)
LEMMA SpawnIs ==
  ASSUME ConstantsOK, TypeOK, TreesInv, NEW s \in Sessions, NEW m, NEW bridges, NEW resume, NEW hasId,
         Spawn(s, m, bridges, resume, hasId)
  PROVE  /\ \A t \in Sessions \ {s} : masters'[t] = masters[t] /\ linked'[t] = linked[t] /\ spawned'[t] = spawned[t]
         /\ masters'[s] # {} => masters'[s] = {linked'[s]}
         /\ masters'[s] = masters[s] \/ masters[s] = {}
         /\ linked'[s] # 0 => spawned'[s] # 0
         /\ spawned[s] # 0 => spawned'[s] # 0
PROOF
  <1> DEFINE n == spawned[s] + 1
  <1>1. Opens(s, n, bridges) \/ UNCHANGED <<masters, linked, spawned, on>>
    BY DEF Spawn
  <1>2. /\ n # 0 /\ spawned[s] \in Nat
        /\ masters \in [Sessions -> SUBSET Spawns] /\ linked \in [Sessions -> 0..MaxSpawn]
        /\ spawned \in [Sessions -> 0..MaxSpawn]
    <2>1. spawned \in [Sessions -> 0..MaxSpawn]
      BY DEF TypeOK, WorldTypes
    <2>2. spawned[s] \in 0..MaxSpawn
      BY <2>1
    <2> QED BY <2>1, <2>2 DEF TypeOK, WorldTypes
  <1> HIDE DEF n
  <1>3. CASE UNCHANGED <<masters, linked, spawned, on>>
    BY <1>3 DEF TreesInv
  <1>4. CASE Opens(s, n, bridges)
    <2>1. spawned' = [spawned EXCEPT ![s] = n]
      BY <1>4 DEF Opens
    <2>2. CASE SocketLive(s)
      BY <1>2, <1>4, <2>1, <2>2 DEF Opens, TreesInv
    <2>3. CASE ~SocketLive(s)
      <3>1. masters[s] = {}
        BY <2>3 DEF TreesInv, SocketLive
      <3>2. masters' = [masters EXCEPT ![s] = masters[s] \cup {n}] /\ linked' = [linked EXCEPT ![s] = n]
        BY <1>4, <2>3 DEF Opens
      <3> QED BY <1>2, <2>1, <3>1, <3>2
    <2> QED BY <2>2, <2>3
  <1> QED BY <1>1, <1>3, <1>4

LEMMA SpawnTrees ==
  ASSUME ConstantsOK, TypeOK, TreesInv, NEW s \in Sessions, NEW m, NEW bridges, NEW resume, NEW hasId,
         Spawn(s, m, bridges, resume, hasId), up, up', listed \subseteq listed', s \in listed'
  PROVE  TreesInv'
BY SpawnIs DEF TreesInv

(* Steps that start nothing, and unlink only the file of a dead tree. *)
LEMMA QuietTrees ==
  ASSUME TreesInv, spawned' = spawned,
         \A s \in Sessions : masters'[s] = masters[s] \/ masters'[s] = {},
         \A s \in Sessions : linked'[s] = linked[s] \/ (linked'[s] = 0 /\ masters'[s] = {}),
         \A s \in Sessions : masters'[s] # {} /\ s \in (IF up THEN listed ELSE disk)
                                => s \in (IF up' THEN listed' ELSE disk')
  PROVE  TreesInv'
BY DEF TreesInv

(* The three together. *)
Ordered == TreesInv /\ JobsInv /\ BridgesInv

LEMMA CreateJobs ==
  ASSUME ConstantsOK, Orderly, TypeOK, DiskInv, HistoryInv, Ordered, NEW s \in Sessions, Create(s)
  PROVE  Ordered'
PROOF
  <1> USE DEF Ordered
  <1>1. /\ up /\ up' /\ listed' = listed \cup {s} /\ s \notin listed /\ spawned[s] = 0
        /\ Spawn(s, NewMs, bridge, FALSE, FALSE) /\ loop' = <<"create", s>> /\ req' = req /\ job' = job
    BY DEF Create, ServerReady, reqvars
  <1>2. TreesInv'
    BY <1>1, SpawnTrees
  <1>3. \A o \in Ops : ~Active(o, s) /\ job'[o][s].pc = "none" /\ ~job'[o][s].gone
    BY <1>1 DEF JobsInv, Fits, Active
  <1>4. \A t \in Sessions \ {s} : /\ masters'[t] = masters[t] /\ spawned'[t] = spawned[t]
                                  /\ t \in listed' <=> t \in listed
    BY <1>1, SpawnIs
  <1>5. \A t \in Sessions : loop' # <<"reopen", t>>
    BY <1>1, LoopsDiffer
  <1>6. BridgesInv'
    <2>1. NewMs \in Ms /\ bridge \in Bridges /\ NewMs.proc = NoProc
      BY NewMsType DEF TypeOK, WorldTypes, NewMs
    <2> QED BY <1>1, <1>3, <2>1, StartBridges
  <1>7. JobsInv'
    BY <1>1, <1>3, <1>4, <1>5, StartJobs
  <1> QED BY <1>2, <1>6, <1>7 DEF Ordered

LEMMA AttachJobs ==
  ASSUME ConstantsOK, Orderly, TypeOK, DiskInv, HistoryInv, Ordered, NEW s \in Sessions, Attach(s)
  PROVE  Ordered'
PROOF
  <1> USE DEF Ordered
  <1>1. /\ up /\ up' /\ listed' = listed /\ s \in listed /\ Admitted(s) /\ loop' = Free
        /\ Spawn(s, ms[s], bridge, TRUE, s \in bound) /\ req' = req /\ job' = job
    BY DEF Attach, ServerReady, reqvars
  <1>2. TreesInv'
    BY <1>1, SpawnTrees
  <1>3. \A o \in Ops : ~Active(o, s) /\ job'[o][s].pc = "none" /\ ~job'[o][s].gone
    BY <1>1, AdmittedIs DEF JobsInv, Fits, Active
  <1>4. \A t \in Sessions \ {s} : /\ masters'[t] = masters[t] /\ spawned'[t] = spawned[t]
                                  /\ t \in listed' <=> t \in listed
    BY <1>1, SpawnIs
  <1>5. \A t \in Sessions : loop' # <<"reopen", t>>
    BY <1>1, LoopsDiffer
  <1>6. BridgesInv'
    <2>1. ms[s] \in Ms /\ bridge \in Bridges /\ TRUE \in BOOLEAN /\ (s \in bound) \in BOOLEAN
      BY DEF TypeOK, DeckTypes, WorldTypes
    <2> QED BY <1>1, <1>3, <2>1, StartBridges
  <1>7. JobsInv'
    BY <1>1, <1>3, <1>4, <1>5, StartJobs
  <1> QED BY <1>2, <1>6, <1>7 DEF Ordered

LEMMA ReopenStartedJobs ==
  ASSUME ConstantsOK, Orderly, TypeOK, DiskInv, HistoryInv, Ordered, NEW s \in Sessions, ReopenStarted(s)
  PROVE  Ordered'
PROOF
  <1> USE DEF Ordered
  <1>1. /\ up /\ up' /\ listed' = listed \cup {s} /\ loop = <<"reopen", s>> /\ loop' = Free
        /\ Spawn(s, NewMs, bridge, TRUE, s \in bound) /\ req' = req
        /\ job' = [o \in Ops |-> [job[o] EXCEPT ![s].gone = (job[o][s].pc # "none")]]
    BY DEF ReopenStarted
  <1>2. TreesInv'
    BY <1>1, SpawnTrees
  <1>3. \A o \in Ops : job[o] \in [Sessions -> Job] /\ job[o][s] \in Job
    BY JobOf
  <1>4. \A o \in Ops : ~Active(o, s)
    BY <1>1 DEF JobsInv
  <1>5. \A o \in Ops : job'[o][s].pc = "none" /\ ~job'[o][s].gone
    <2> TAKE o \in Ops
    <2>1. job[o][s].pc = "none"
      BY <1>4 DEF Active
    <2>2. job'[o][s] = [job[o][s] EXCEPT !.gone = FALSE]
      BY <1>1, <1>3, <2>1
    <2> QED BY <1>3, <2>1, <2>2 DEF Job
  <1>6. \A o \in Ops, t \in Sessions \ {s} : job'[o][t] = job[o][t]
    BY <1>1, <1>3
  <1>7. \A t \in Sessions \ {s} : /\ masters'[t] = masters[t] /\ spawned'[t] = spawned[t]
                                  /\ t \in listed' <=> t \in listed
    BY <1>1, SpawnIs
  <1>8. \A t \in Sessions : loop' # <<"reopen", t>>
    BY <1>1, LoopsDiffer
  <1>9. BridgesInv'
    <2>1. NewMs \in Ms /\ bridge \in Bridges /\ NewMs.proc = NoProc
      BY NewMsType DEF TypeOK, WorldTypes, NewMs
    <2>2. TRUE \in BOOLEAN /\ (s \in bound) \in BOOLEAN
      OBVIOUS
    <2>3. Spawn(s, NewMs, bridge, TRUE, s \in bound) /\ listed \subseteq listed' /\ s \in listed'
      BY <1>1
    <2>4. /\ \A o \in Ops : job'[o][s].pc \notin {"hangup", "done"}
          /\ \A o \in Ops, t \in Sessions \ {s} : job'[o][t] = job[o][t] \/ job'[o][t].pc = "none"
      BY <1>5, <1>6
    <2> QED BY <2>1, <2>2, <2>3, <2>4, StartBridges
  <1>10. JobsInv'
    BY <1>1, <1>4, <1>5, <1>6, <1>7, <1>8, StartJobs
  <1> QED BY <1>2, <1>9, <1>10 DEF Ordered

LEMMA BridgeJobs ==
  ASSUME ConstantsOK, Orderly, TypeOK, DiskInv, HistoryInv, Ordered, NEW s \in Sessions, NEW b \in Spawns, BridgeExits(s, b)
  PROVE  Ordered'
PROOF
  <1> USE DEF Ordered
  <1>1. up /\ up' /\ listed' = listed /\ loop = Free /\ loop' = Free /\ req' = req /\ job' = job
    BY DEF BridgeExits, ServerReady, reqvars
  <1>2. \A t \in Sessions : loop' # <<"reopen", t>>
    BY <1>1, LoopsDiffer
  <1>3. BridgesInv'
    <2> DEFINE closing == [bridge EXCEPT ![s][b] = "closed"]
    <2>0. /\ bridge \in [Sessions -> [Spawns -> {"unborn", "up", "down", "closed"}]]
          /\ ms \in [Sessions -> Ms]
          /\ closing \in Bridges
          /\ \A t \in Sessions \ {s} : closing[t] = bridge[t]
          /\ \A c \in Spawns \ {b} : closing[s][c] = bridge[s][c]
      BY DEF TypeOK, DeckTypes, WorldTypes, Bridges
    <2> HIDE DEF closing
    <2>1. CASE ms[s].proc # b /\ bridge' = closing /\ ms' = ms
      <3>1. ASSUME NEW t \in Sessions, ms[t].proc # NoProc
            PROVE  bridge'[t][ms[t].proc] = bridge[t][ms[t].proc]
        <4>1. ms[t].proc \in Spawns
          BY <2>0, <3>1 DEF Ms, Spawns, NoProc
        <4> QED BY <2>0, <2>1, <4>1
      <3> QED BY <1>1, <2>1, <3>1, BridgesStep
    <2>2. CASE bridge' = closing /\ \E d \in BOOLEAN : ms' = [ms EXCEPT ![s].proc = NoProc, ![s].detached = d]
      <3>1. ms'[s].proc = NoProc /\ \A t \in Sessions \ {s} : ms'[t] = ms[t]
        BY <2>0, <2>2 DEF Ms
      <3>2. \A t \in Sessions \ {s} : bridge'[t] = bridge[t]
        BY <2>0, <2>2
      <3> QED BY <1>1, <3>1, <3>2, BridgesStep
    <2>3. CASE /\ Spawn(s, [ms[s] EXCEPT !.proc = NoProc, !.fallback = TRUE], closing, TRUE, FALSE)
               /\ "refused" \in Faults \/ \A o \in Ops : ~Working(o, s)
               /\ ms[s].proc = b
      <3> DEFINE m == [ms[s] EXCEPT !.proc = NoProc, !.fallback = TRUE]
      <3>1. m \in Ms /\ m.proc = NoProc
        <4>1. ms[s] \in Ms /\ TRUE \in BOOLEAN
          BY <2>0
        <4>2. m \in Ms
          BY <4>1, MsTypes
        <4> QED BY <4>1, <4>2 DEF Ms
      <3>2. s \in listed
        BY <2>3 DEF BridgesInv, Spawns, NoProc
      <3>3. \A o \in Ops : job'[o][s].pc = "none"
        BY <1>1, <2>3, AdmittedIs, OrderlyIs DEF Active
      <3>4. TRUE \in BOOLEAN /\ FALSE \in BOOLEAN /\ Spawn(s, m, closing, TRUE, FALSE)
        BY <2>3
      <3> HIDE DEF m
      <3> QED BY <1>1, <2>0, <3>1, <3>2, <3>3, <3>4, StartBridges
    <2>4. \A answers \in LsofAnswers : (answers /\ SocketLive(s)) \in BOOLEAN
      BY DEF SocketLive, LsofAnswers
    <2> QED BY <2>1, <2>2, <2>3, <2>4 DEF BridgeExits, closing
  <1>4. CASE UNCHANGED <<masters, linked, spawned>>
    <2>1. TreesInv'
      BY <1>1, <1>4 DEF TreesInv
    <2>2. JobsInv'
      BY <1>1, <1>4, QuietJobs
    <2> QED BY <1>3, <2>1, <2>2
  <1>5. CASE ~UNCHANGED <<masters, linked, spawned>>
    <2> DEFINE closing == [bridge EXCEPT ![s][b] = "closed"]
               m == [ms[s] EXCEPT !.proc = NoProc, !.fallback = TRUE]
    <2>1. /\ Spawn(s, m, closing, TRUE, FALSE)
          /\ "refused" \in Faults \/ \A o \in Ops : ~Working(o, s)
          /\ ms[s].proc = b
      BY <1>5 DEF BridgeExits
    <2>2. s \in listed
      BY <2>1 DEF BridgesInv, Spawns, NoProc
    <2> HIDE DEF closing, m
    <2>3. TreesInv'
      BY <1>1, <2>1, <2>2, SpawnTrees
    <2>4. \A o \in Ops : ~Active(o, s) /\ job'[o][s].pc = "none" /\ ~job'[o][s].gone
      BY <1>1, <2>1, AdmittedIs, OrderlyIs DEF JobsInv, Fits, Active
    <2>5. \A t \in Sessions \ {s} : /\ masters'[t] = masters[t] /\ spawned'[t] = spawned[t]
                                    /\ t \in listed' <=> t \in listed
      BY <1>1, <2>1, SpawnIs
    <2>6. JobsInv'
      BY <1>1, <1>2, <2>4, <2>5, StartJobs
    <2> QED BY <1>3, <2>3, <2>6
  <1> QED BY <1>4, <1>5

(* Steps of users, saves and processes, which no request takes part in. *)
LEMMA QuietOrder ==
  ASSUME Ordered, UNCHANGED <<up, listed, ms, spawned, req, job>>,
         \A s \in Sessions : masters'[s] = masters[s] \/ masters'[s] = {},
         \A s \in Sessions : linked'[s] = linked[s] \/ (linked'[s] = 0 /\ masters'[s] = {}),
         \A s \in Sessions : ms[s].proc # NoProc => \/ bridge'[s][ms[s].proc] = bridge[s][ms[s].proc]
                                                    \/ bridge'[s][ms[s].proc] = "down",
         up \/ disk' = disk,
         \A s \in Sessions : loop' = <<"reopen", s>> => loop = loop'
  PROVE  Ordered'
PROOF
  <1>1. TreesInv'
    BY QuietTrees DEF Ordered
  <1>2. JobsInv'
    BY QuietJobs DEF Ordered
  <1>3. BridgesInv'
    BY BridgesStep DEF Ordered
  <1> QED BY <1>1, <1>2, <1>3 DEF Ordered

LEMMA ReopenOrder ==
  ASSUME ConstantsOK, Orderly, HistoryInv, Ordered, NEW s \in Sessions, Reopen(s)
  PROVE  Ordered'
PROOF
  <1> USE DEF Ordered
  <1>1. /\ up /\ up' /\ loop = Free /\ loop' = <<"reopen", s>> /\ s \in ClosedIds /\ Admitted(s)
        /\ UNCHANGED <<listed, ms, disk, masters, linked, spawned, bridge, req, job>>
    BY DEF Reopen, ServerReady, osvars, reqvars
  <1>2. s \notin listed
    BY <1>1, LoopsDiffer DEF HistoryInv
  <1>3. \A o \in Ops : ~Active(o, s)'
    BY <1>1, AdmittedIs DEF Active
  <1>4. TreesInv'
    BY <1>1, QuietTrees
  <1>5. BridgesInv'
    BY <1>1, QuietBridges
  <1>6. \A t \in Sessions : loop' = <<"reopen", t>> => t = s
    BY <1>1, LoopsDiffer
  <1>7. \A o \in Ops, t \in Sessions : Fits(o, t)' /\ (Active(o, t)' => Active(o, t))
    BY <1>1, FitsSame DEF JobsInv
  <1>8. JobsInv'
    BY <1>1, <1>2, <1>3, <1>6, <1>7, JobsStep
  <1> QED BY <1>4, <1>5, <1>8

LEMMA UserOrder ==
  ASSUME ConstantsOK, Orderly, TypeOK, DiskInv, HistoryInv, Ordered, NEW s \in Sessions,
         Purge(s) \/ CreateSaved(s) \/ DeleteSaved(s) \/ Bind(s)
  PROVE  Ordered'
PROOF
  <1>1. /\ up /\ UNCHANGED <<up, listed, ms, spawned, req, job, masters, linked, bridge>>
        /\ loop' = Free \/ loop' = loop
    BY DEF Purge, CreateSaved, DeleteSaved, Bind, ServerReady, osvars, reqvars
  <1>2. \A t \in Sessions : loop' = <<"reopen", t>> => loop = loop'
    BY <1>1, LoopsDiffer
  <1> QED BY <1>1, <1>2, QuietOrder

LEMMA ProcessOrder ==
  ASSUME ConstantsOK, TypeOK, Ordered, NEW s \in Sessions, NEW n \in Spawns,
         MasterDies(s, n) \/ ClientExits(s, n)
  PROVE  Ordered'
PROOF
  <1>1. CASE MasterDies(s, n)
    <2>1. /\ UNCHANGED <<up, loop, listed, ms, disk, spawned, bridge, req, job>>
          /\ n \in masters[s] /\ masters' = [masters EXCEPT ![s] = masters[s] \ {n}]
          /\ linked' = linked \/ linked' = [linked EXCEPT ![s] = 0]
      BY <1>1 DEF MasterDies, deckvars, reqvars
    <2>2. masters \in [Sessions -> SUBSET Spawns] /\ linked \in [Sessions -> 0..MaxSpawn]
      BY DEF TypeOK, WorldTypes
    <2>3. masters[s] = {n}
      BY <2>1 DEF Ordered, TreesInv
    <2>4. masters'[s] = {} /\ \A t \in Sessions \ {s} : masters'[t] = masters[t]
      BY <2>1, <2>2, <2>3
    <2>5. \A t \in Sessions : linked'[t] = linked[t] \/ (linked'[t] = 0 /\ masters'[t] = {})
      BY <2>1, <2>2, <2>4
    <2> QED BY <2>1, <2>4, <2>5, QuietOrder
  <1>2. CASE ClientExits(s, n)
    <2>1. /\ UNCHANGED <<up, loop, listed, ms, disk, masters, linked, spawned, req, job>>
          /\ bridge' = [bridge EXCEPT ![s][n] = "down"]
      BY <1>2 DEF ClientExits, deckvars, reqvars
    <2>2. /\ bridge \in [Sessions -> [Spawns -> {"unborn", "up", "down", "closed"}]]
          /\ ms \in [Sessions -> Ms]
      BY DEF TypeOK, DeckTypes, WorldTypes, Bridges
    <2>3. ASSUME NEW t \in Sessions, ms[t].proc # NoProc
          PROVE  \/ bridge'[t][ms[t].proc] = bridge[t][ms[t].proc]
                 \/ bridge'[t][ms[t].proc] = "down"
      <3>1. ms[t].proc \in Spawns
        BY <2>2, <2>3 DEF Ms, Spawns, NoProc
      <3> QED BY <2>1, <2>2, <3>1
    <2> QED BY <2>1, <2>3, QuietOrder
  <1> QED BY <1>1, <1>2

(* A step of one request, which ends no tree and starts none: what has to be
   seen of it. *)
LEMMA RequestOrder ==
  ASSUME Ordered, NEW o \in Ops, up, up', UNCHANGED <<masters, spawned, bridge>>,
         \A s \in Sessions : linked'[s] = linked[s] \/ (linked'[s] = 0 /\ masters[s] = {}),
         \A s \in Sessions : ms'[s].proc = ms[s].proc \/ ms'[s].proc = NoProc,
         \A s \in Sessions :
           \/ s \in listed' <=> s \in listed
           \/ /\ s \notin listed' /\ masters[s] = {} /\ ms'[s].proc = NoProc /\ job'[o][s].pc = "none"
              /\ \A p \in Ops : p # o /\ Active(p, s) => req[p] = "reclaim",
         \A s \in Sessions : loop' # <<"reopen", s>>,
         \A p \in Ops, s \in Sessions : p # o => job'[p][s] = job[p][s] /\ req'[p] = req[p],
         \A s \in Sessions :
           /\ ~job'[o][s].gone
           /\ Killed(o, s)' => masters[s] = {}
           /\ HangsUp(o, s)'
           /\ job'[o][s].pc # "none" =>
                IF req'[o] = "reclaim"
                  THEN spawned[s] # 0 /\ (job'[o][s].pc # "queued" => s \notin listed)
                  ELSE /\ s \in listed
                       /\ \/ Active(o, s) /\ req[o] # "reclaim"
                          \/ \A p \in Ops : ~Active(p, s)
  PROVE  Ordered'
PROOF
  <1> USE DEF Ordered
  <1>1. TreesInv'
    <2>1. ASSUME NEW s \in Sessions, masters'[s] # {}, s \in (IF up THEN listed ELSE disk)
          PROVE  s \in (IF up' THEN listed' ELSE disk')
      BY <2>1
    <2> QED BY <2>1, QuietTrees
  <1>2. ASSUME NEW p \in Ops, NEW s \in Sessions, p # o
        PROVE  Fits(p, s)' /\ (Active(p, s)' <=> Active(p, s)) /\ req'[p] = req[p]
    <2>1. job'[p][s] = job[p][s] /\ req'[p] = req[p] /\ Fits(p, s)
      BY <1>2 DEF JobsInv
    <2>2. CASE s \in listed' <=> s \in listed
      BY <2>1, <2>2 DEF Fits, Active, Killed
    <2>3. CASE s \notin listed' /\ (Active(p, s) => req[p] = "reclaim")
      BY <2>1, <2>3 DEF Fits, Active, Killed
    <2> QED BY <1>2, <2>2, <2>3
  <1>3. ASSUME NEW s \in Sessions
        PROVE  /\ Fits(o, s)'
               /\ ~Active(o, s)' \/ \A p \in Ops : p # o /\ Active(p, s)' => "reclaim" \in {req'[o], req'[p]}
    <2>1. CASE ~Active(o, s)'
      BY <2>1 DEF Fits, Active, Killed
    <2>2. CASE Active(o, s)'
      <3>1. s \in listed' <=> s \in listed
        BY <2>2 DEF Active
      <3>2. Fits(o, s)'
        BY <2>2, <3>1 DEF Fits, Active, Killed
      <3>3. ASSUME NEW p \in Ops, p # o, Active(p, s)', req'[o] # "reclaim"
            PROVE  req'[p] = "reclaim"
        <4>1. Active(p, s) /\ req'[p] = req[p]
          BY <1>2, <3>3
        <4>2. Active(o, s) /\ req[o] # "reclaim"
          BY <2>2, <3>3, <4>1 DEF Active
        <4> QED BY <3>3, <4>1, <4>2 DEF JobsInv
      <3> QED BY <3>2, <3>3
    <2> QED BY <2>1, <2>2
  <1>4. JobsInv'
    <2>1. \A p \in Ops, s \in Sessions :
            /\ Fits(p, s)'
            /\ \/ ~Active(p, s)'
               \/ (req'[p] = req[p] /\ Active(p, s))
               \/ \A q \in Ops : q # p /\ Active(q, s)' => "reclaim" \in {req'[p], req'[q]}
      BY <1>2, <1>3
    <2> QED BY <2>1, JobsStep
  <1>5. BridgesInv'
    BY BridgesStep DEF BridgesInv
  <1> QED BY <1>1, <1>4, <1>5

LEMMA QueuedIs ==
  /\ [NoJob EXCEPT !.pc = "queued"].pc = "queued" /\ ~[NoJob EXCEPT !.pc = "queued"].gone
  /\ \A b \in BOOLEAN : [NoJob EXCEPT !.ok = b].pc = "none" /\ ~[NoJob EXCEPT !.ok = b].gone
  /\ \A b \in BOOLEAN : /\ [StartJob EXCEPT !.gone = b].pc = "scan" /\ [StartJob EXCEPT !.gone = b].gone = b
BY DEF NoJob, StartJob

LEMMA SameProc ==
  ASSUME TypeOK, NEW s \in Sessions
  PROVE  \A b \in BOOLEAN : /\ [ms[s] EXCEPT !.lazy = b].proc = ms[s].proc
                            /\ [ms[s] EXCEPT !.detached = b].proc = ms[s].proc
         /\ Cleared(s).proc = NoProc
BY DEF TypeOK, DeckTypes, Ms, Cleared

(* A request that begins works on terminals of the deck that no other does. *)
LEMMA TargetsOrder ==
  ASSUME Ordered, Orderly, NEW o \in Ops, up, up', loop' = Free, req'[o] # "reclaim",
         UNCHANGED <<listed, masters, linked, spawned, bridge>>,
         \A s \in Sessions : ms'[s].proc = ms[s].proc,
         \A p \in Ops, s \in Sessions : p # o => job'[p][s] = job[p][s] /\ req'[p] = req[p],
         \A s \in Sessions :
           /\ ~job'[o][s].gone
           /\ job'[o][s].pc = "none" \/ (job'[o][s].pc \in {"queued", "scan"} /\ s \in listed /\ Admitted(s))
  PROVE  Ordered'
PROOF
  <1>1. \A s \in Sessions : loop' # <<"reopen", s>>
    BY LoopsDiffer
  <1>2. \A s \in Sessions : job'[o][s].pc # "none" => s \in listed /\ \A p \in Ops : ~Active(p, s)
    BY AdmittedIs DEF Ordered
  <1>3. \A s \in Sessions : (Killed(o, s)' => masters[s] = {}) /\ HangsUp(o, s)'
    BY DEF Killed, HangsUp
  <1> QED BY <1>1, <1>2, <1>3, RequestOrder

LEMMA BeginOrder ==
  ASSUME Ordered, Orderly, TypeOK, NEW o \in Ops, NEW kind, kind # "reclaim",
         NEW targets \in SUBSET listed, Begin(o, kind, targets), \A s \in targets : Admitted(s),
         \A s \in Sessions : ms'[s].proc = ms[s].proc
  PROVE  Ordered'
PROOF
  <1>1. up /\ up' /\ loop' = Free /\ UNCHANGED <<listed, masters, linked, spawned, bridge>>
    BY DEF Begin, ServerReady, osvars
  <1>2. \A s \in Sessions : job'[o][s] = IF s \in targets THEN StartJob ELSE NoJob
    BY BeginIs
  <1>3. req'[o] # "reclaim" /\ \A p \in Ops, s \in Sessions : p # o => job'[p][s] = job[p][s] /\ req'[p] = req[p]
    BY BeginIs
  <1>4. \A s \in Sessions :
           /\ ~job'[o][s].gone
           /\ job'[o][s].pc = "none" \/ (job'[o][s].pc \in {"queued", "scan"} /\ s \in listed /\ Admitted(s))
    BY <1>2, NoJobIs
  <1> QED BY <1>1, <1>3, <1>4, TargetsOrder

LEMMA BeginsOrder ==
  ASSUME ConstantsOK, Orderly, TypeOK, Ordered, NEW o \in Ops, NEW s \in Sessions,
         StopBegins(o, s) \/ RestartBegins(o, s) \/ DeleteBegins(o, s) \/ FinishBegins(o, s)
  PROVE  Ordered'
PROOF
  <1>1. s \in listed /\ Admitted(s) /\ {s} \in SUBSET listed
    BY DEF StopBegins, RestartBegins, DeleteBegins, FinishBegins
  <1>2. PICK kind \in {"stop", "restart", "delete", "stopworktree"} : Begin(o, kind, {s})
    BY DEF StopBegins, RestartBegins, DeleteBegins, FinishBegins
  <1>3. ms' = ms \/ ms' = [ms EXCEPT ![s].lazy = TRUE]
    BY DEF StopBegins, RestartBegins, DeleteBegins, FinishBegins
  <1>4. \A t \in Sessions : ms'[t].proc = ms[t].proc
    BY <1>3 DEF TypeOK, DeckTypes, Ms
  <1> QED BY <1>1, <1>2, <1>4, BeginOrder

LEMMA SweepsOrder ==
  ASSUME ConstantsOK, Orderly, TypeOK, Ordered, NEW o \in Ops, KillAllBegins(o) \/ KillStaleBegins(o)
  PROVE  Ordered'
PROOF
  <1>1. CASE KillAllBegins(o)
    <2> DEFINE targets == {s \in listed : Running(s)}
    <2>1. /\ \A s \in targets : Admitted(s)
          /\ Begin(o, "killall", targets)
          /\ ms' = [s \in Sessions |-> IF s \in targets THEN [ms[s] EXCEPT !.lazy = TRUE] ELSE ms[s]]
          /\ targets \in SUBSET listed
      BY <1>1 DEF KillAllBegins
    <2>2. \A s \in Sessions : ms'[s].proc = ms[s].proc
      <3> HIDE DEF targets
      <3> QED BY <2>1, SameProc
    <2> QED BY <2>1, <2>2, BeginOrder
  <1>2. CASE KillStaleBegins(o)
    <2>1. PICK targets \in SUBSET {s \in listed : Running(s)}, first \in Sessions :
            /\ first \in targets
            /\ \A s \in targets : Admitted(s)
            /\ req' = [req EXCEPT ![o] = "killstale"]
            /\ job' = [job EXCEPT ![o] = [s \in Sessions |->
                         IF s = first THEN StartJob
                         ELSE IF s \in targets THEN [NoJob EXCEPT !.pc = "queued"] ELSE NoJob]]
            /\ ms' = [ms EXCEPT ![first].lazy = TRUE]
      BY <1>2 DEF KillStaleBegins, TypeOK, DeckTypes
    <2>2. up /\ up' /\ loop' = Free /\ UNCHANGED <<listed, masters, linked, spawned, bridge>>
      BY <1>2 DEF KillStaleBegins, ServerReady, osvars
    <2>3. targets \subseteq listed
      BY <2>1
    <2>4. req \in [Ops -> Reqs] /\ job \in [Ops -> [Sessions -> Job]] /\ ms \in [Sessions -> Ms]
      BY DEF TypeOK, RequestTypes, DeckTypes
    <2>5. \A s \in Sessions : ms'[s].proc = ms[s].proc
      BY <2>1, <2>4 DEF Ms
    <2>6. /\ req'[o] = "killstale"
          /\ \A p \in Ops, s \in Sessions : p # o => job'[p][s] = job[p][s] /\ req'[p] = req[p]
      BY <2>1, <2>4
    <2>7. \A s \in Sessions : \/ job'[o][s] = NoJob
                              \/ s \in targets /\ job'[o][s] \in {StartJob, [NoJob EXCEPT !.pc = "queued"]}
      <3> DEFINE jobs == [s \in Sessions |->
                   IF s = first THEN StartJob
                   ELSE IF s \in targets THEN [NoJob EXCEPT !.pc = "queued"] ELSE NoJob]
      <3>1. \A s \in Sessions : \/ jobs[s] = NoJob
                                \/ s \in targets /\ jobs[s] \in {StartJob, [NoJob EXCEPT !.pc = "queued"]}
        BY <2>1
      <3>2. job' = [job EXCEPT ![o] = jobs]
        BY <2>1
      <3> HIDE DEF jobs
      <3>3. job'[o] = jobs
        BY <2>4, <3>2
      <3> QED BY <3>1, <3>3
    <2>8. \A s \in Sessions :
             /\ ~job'[o][s].gone
             /\ job'[o][s].pc = "none" \/ (job'[o][s].pc \in {"queued", "scan"} /\ s \in listed /\ Admitted(s))
      BY <2>1, <2>3, <2>7, NoJobIs, QueuedIs
    <2> QED BY <2>2, <2>5, <2>6, <2>8, TargetsOrder
  <1> QED BY <1>1, <1>2

(* A reclaim takes only terminals that have been started once. *)
LEMMA ReclaimsOrder ==
  ASSUME ConstantsOK, Orderly, TypeOK, Ordered, NEW o \in Ops, ReclaimBegins(o) \/ ReportSampled(o) \/ ReportApplied(o)
  PROVE  Ordered'
PROOF
  <1>1. up /\ up' /\ loop' = Free /\ UNCHANGED <<listed, masters, linked, spawned, bridge>>
    BY DEF ReclaimBegins, ReportSampled, ReportApplied, ServerReady, osvars, deckvars
  <1>2. \A s \in Sessions : loop' # <<"reopen", s>>
    BY <1>1, LoopsDiffer
  <1>3. req \in [Ops -> Reqs] /\ job \in [Ops -> [Sessions -> Job]] /\ ms \in [Sessions -> Ms]
    BY DEF TypeOK, RequestTypes, DeckTypes
  <1>4. PICK jobs : /\ job' = [job EXCEPT ![o] = jobs]
                    /\ \E kind : req' = [req EXCEPT ![o] = kind]
                    /\ \A s \in Sessions : ~jobs[s].gone /\ jobs[s].pc \in {"none", "queued"}
                    /\ \A s \in Sessions : jobs[s].pc # "none" => req'[o] = "reclaim" /\ spawned[s] # 0
    <2>1. CASE ReclaimBegins(o)
      <3> DEFINE jobs == [s \in Sessions |->
                   IF s \in {t \in Sessions : linked[t] # 0} THEN [NoJob EXCEPT !.pc = "queued"] ELSE NoJob]
      <3>1. job' = [job EXCEPT ![o] = jobs] /\ req' = [req EXCEPT ![o] = "reclaim"]
        BY <2>1 DEF ReclaimBegins
      <3>2. \A s \in Sessions : ~jobs[s].gone /\ jobs[s].pc \in {"none", "queued"}
        BY NoJobIs, QueuedIs
      <3>3. \A s \in Sessions : jobs[s].pc # "none" => spawned[s] # 0
        BY NoJobIs DEF Ordered, TreesInv
      <3>4. req'[o] = "reclaim"
        BY <1>3, <3>1
      <3> HIDE DEF jobs
      <3> QED BY <3>1, <3>2, <3>3, <3>4
    <2>2. CASE ReportSampled(o)
      <3>0. PICK answers \in LsofAnswers :
              job' = [job EXCEPT ![o] = [s \in Sessions |-> [NoJob EXCEPT !.ok = (answers /\ masters[s] # {})]]]
        BY <2>2 DEF ReportSampled
      <3> DEFINE jobs == [s \in Sessions |-> [NoJob EXCEPT !.ok = (answers /\ masters[s] # {})]]
      <3>1. job' = [job EXCEPT ![o] = jobs] /\ req' = [req EXCEPT ![o] = "report"]
        BY <2>2, <3>0 DEF ReportSampled
      <3>2. \A s \in Sessions : ~jobs[s].gone /\ jobs[s].pc = "none"
        BY QueuedIs
      <3> HIDE DEF jobs
      <3> QED BY <3>1, <3>2
    <2>3. CASE ReportApplied(o)
      <3>1. job' = [job EXCEPT ![o] = NoJobs] /\ req' = [req EXCEPT ![o] = "idle"]
        BY <2>3 DEF ReportApplied, Finished
      <3>2. \A s \in Sessions : ~NoJobs[s].gone /\ NoJobs[s].pc = "none"
        BY NoJobIs DEF NoJobs
      <3> QED BY <3>1, <3>2
    <2> QED BY <2>1, <2>2, <2>3
  <1>5. /\ \A p \in Ops, s \in Sessions : p # o => job'[p][s] = job[p][s] /\ req'[p] = req[p]
        /\ job'[o] = jobs
    BY <1>3, <1>4
  <1>6. \A s \in Sessions : ms'[s].proc = ms[s].proc
    <2>1. CASE ms' = ms
      BY <2>1
    <2>2. CASE ReportApplied(o)
      <3>1. \A s \in Sessions : ms'[s] = ms[s] \/ ms'[s] = [ms[s] EXCEPT !.detached = job[o][s].ok]
        BY <2>2 DEF ReportApplied
      <3>2. \A s \in Sessions : job[o][s].ok \in BOOLEAN
        BY JobOf DEF Job
      <3> QED BY <3>1, <3>2, SameProc
    <2> QED BY <2>1, <2>2 DEF ReclaimBegins, ReportSampled, deckvars
  <1>7. \A s \in Sessions : (Killed(o, s)' => masters[s] = {}) /\ HangsUp(o, s)' /\ ~job'[o][s].gone
    BY <1>4, <1>5 DEF Killed, HangsUp
  <1>8. \A s \in Sessions : job'[o][s].pc # "none" =>
           req'[o] = "reclaim" /\ spawned[s] # 0 /\ job'[o][s].pc = "queued"
    BY <1>4, <1>5
  <1> QED BY <1>1, <1>2, <1>5, <1>6, <1>7, <1>8, RequestOrder

(* A step of _terminate_proc. *)
LEMMA CoroutineOrder ==
  ASSUME Ordered, TypeOK, NEW o \in Ops, NEW s \in Sessions, up, up', NEW j, SetJob(o, s, j),
         job[o][s].pc \notin {"none", "queued"}, req' = req, UNCHANGED <<listed, masters, spawned, bridge>>,
         linked' = linked \/ (linked' = [linked EXCEPT ![s] = 0] /\ masters[s] = {}),
         \A t \in Sessions : ms'[t].proc = ms[t].proc,
         loop' \in {Free, <<"op", o>>},
         ~j.gone, j.pc # "queued",
         j.pc \in {"swept", "hangup", "done"} /\ j.ok => masters[s] = {},
         j.pc = "hangup" => ms[s].proc \in {NoProc, j.proc},
         j.pc = "done" /\ j.ok => ms[s].proc = NoProc
  PROVE  Ordered'
PROOF
  <1>1. \A p \in Ops, t \in Sessions : job'[p][t] = IF p = o /\ t = s THEN j ELSE job[p][t]
    BY SetJobIs
  <1>2. \A t \in Sessions : loop' # <<"reopen", t>>
    BY LoopsDiffer
  <1>3. \A t \in Sessions : linked'[t] = linked[t] \/ (linked'[t] = 0 /\ masters[t] = {})
    BY DEF TypeOK, WorldTypes
  <1>4. \A t \in Sessions : Fits(o, t) /\ HangsUp(o, t)
    BY DEF Ordered, JobsInv, BridgesInv
  <1>5. ASSUME NEW t \in Sessions
        PROVE  /\ ~job'[o][t].gone
               /\ Killed(o, t)' => masters[t] = {}
               /\ HangsUp(o, t)'
               /\ job'[o][t].pc # "none" =>
                    IF req'[o] = "reclaim"
                      THEN spawned[t] # 0 /\ (job'[o][t].pc # "queued" => t \notin listed)
                      ELSE t \in listed /\ Active(o, t) /\ req[o] # "reclaim"
    <2>1. CASE t = s
      <3>1. job'[o][t] = j
        BY <1>1, <2>1
      <3>2. Active(o, s)
        BY DEF Active
      <3> QED BY <1>4, <2>1, <3>1, <3>2 DEF Killed, HangsUp, Fits
    <2>2. CASE t # s
      <3>1. job'[o][t] = job[o][t]
        BY <1>1, <2>2
      <3> QED BY <1>4, <3>1 DEF Killed, HangsUp, Fits, Active
    <2> QED BY <2>1, <2>2
  <1>6. \A p \in Ops, t \in Sessions : p # o => job'[p][t] = job[p][t] /\ req'[p] = req[p]
    BY <1>1
  <1> QED BY <1>2, <1>3, <1>5, <1>6, RequestOrder

LEMMA JobStepIs ==
  ASSUME NEW j \in Job
  PROVE  /\ \A pc \in {"poll", "sweep"} : [j EXCEPT !.pc = pc].pc = pc /\ [j EXCEPT !.pc = pc].gone = j.gone
         /\ [j EXCEPT !.pc = "scan", !.sig = "kill"].pc = "scan" /\ [j EXCEPT !.pc = "scan", !.sig = "kill"].gone = j.gone
         /\ \A b \in BOOLEAN : /\ [j EXCEPT !.pc = "swept", !.ok = b].pc = "swept"
                               /\ [j EXCEPT !.pc = "swept", !.ok = b].ok = b
                               /\ [j EXCEPT !.pc = "swept", !.ok = b].gone = j.gone
         /\ \A n : [j EXCEPT !.pc = "hangup", !.proc = n].pc = "hangup" /\ [j EXCEPT !.pc = "hangup", !.proc = n].ok = j.ok
                   /\ [j EXCEPT !.pc = "hangup", !.proc = n].proc = n /\ [j EXCEPT !.pc = "hangup", !.proc = n].gone = j.gone
         /\ [j EXCEPT !.pc = "done"].pc = "done" /\ [j EXCEPT !.pc = "done"].ok = j.ok /\ [j EXCEPT !.pc = "done"].gone = j.gone
         /\ [j EXCEPT !.pc = "done", !.ok = FALSE].pc = "done" /\ ~[j EXCEPT !.pc = "done", !.ok = FALSE].ok
         /\ [j EXCEPT !.pc = "done", !.ok = FALSE].gone = j.gone
BY DEF Job

LEMMA TerminateOrder ==
  ASSUME ConstantsOK, Orderly, TypeOK, Ordered, NEW o \in Ops, NEW s \in Sessions, TerminateSteps(o, s)
  PROVE  Ordered'
PROOF
  <1> DEFINE j == job[o][s]
  <1>1. j \in Job /\ Fits(o, s) /\ ~j.gone /\ HangsUp(o, s)
    BY JobOf DEF Ordered, JobsInv, BridgesInv, Fits
  <1>2. \A t \in Sessions, b \in BOOLEAN : [ms[t] EXCEPT !.detached = b].proc = ms[t].proc
    BY SameProc
  <1>3. LoopAfter(o) \in {Free, <<"op", o>>}
    BY DEF LoopAfter
  <1>4. CASE Scan(o, s) \/ PollGone(o, s) \/ PollsExhausted(o, s)
    <2>1. PICK pc \in {"poll", "sweep"} :
            SetJob(o, s, [j EXCEPT !.pc = pc]) \/ SetJob(o, s, [j EXCEPT !.pc = "scan", !.sig = "kill"])
      BY <1>4 DEF Scan, PollGone, PollsExhausted
    <2>2. /\ up /\ up' /\ loop' = Free /\ req' = req /\ UNCHANGED <<listed, ms, masters, linked, spawned, bridge>>
          /\ j.pc \notin {"none", "queued"}
      BY <1>4 DEF Scan, PollGone, PollsExhausted, ServerReady, deckvars, osvars
    <2> HIDE DEF j
    <2>3. j.pc \notin {"none", "queued"} /\ j = job[o][s]
      BY <2>2 DEF j
    <2>4. CASE SetJob(o, s, [j EXCEPT !.pc = pc])
      <3> DEFINE k == [j EXCEPT !.pc = pc]
      <3>1. k.pc = pc /\ ~k.gone
        BY <1>1, JobStepIs
      <3>2. SetJob(o, s, k)
        BY <2>4
      <3> HIDE DEF k
      <3> QED BY <2>2, <2>3, <3>1, <3>2, CoroutineOrder
    <2>5. CASE SetJob(o, s, [j EXCEPT !.pc = "scan", !.sig = "kill"])
      <3> DEFINE k == [j EXCEPT !.pc = "scan", !.sig = "kill"]
      <3>1. k.pc = "scan" /\ ~k.gone
        BY <1>1, JobStepIs
      <3>2. SetJob(o, s, k)
        BY <2>5
      <3> HIDE DEF k
      <3> QED BY <2>2, <2>3, <3>1, <3>2, CoroutineOrder
    <2> QED BY <2>1, <2>4, <2>5
  <1>5. CASE SweepSampled(o, s)
    <2> DEFINE b == masters[s] = {}
               k == [j EXCEPT !.pc = "swept", !.ok = b]
    <2>1. SetJob(o, s, k)
      <3>1. PICK seen \in Holders(s) : SetJob(o, s, [j EXCEPT !.pc = "swept", !.ok = (seen = {})])
        BY <1>5 DEF SweepSampled
      <3>2. seen = masters[s]
        BY OrderlyIs
      <3> QED BY <3>1, <3>2
    <2>2. /\ up /\ up' /\ loop' = Free /\ req' = req /\ UNCHANGED <<listed, ms, masters, linked, spawned, bridge>>
          /\ job[o][s].pc \notin {"none", "queued"}
      BY <1>5 DEF SweepSampled, ServerReady, deckvars, osvars
    <2>3. k.pc = "swept" /\ ~k.gone /\ (k.ok => masters[s] = {})
      <3>1. b \in BOOLEAN /\ (b => masters[s] = {})
        OBVIOUS
      <3> HIDE DEF j, b
      <3>2. k.pc = "swept" /\ k.ok = b /\ k.gone = j.gone
        BY <1>1, <3>1, JobStepIs
      <3> QED BY <1>1, <3>1, <3>2
    <2> HIDE DEF j, k
    <2> QED BY <2>1, <2>2, <2>3, CoroutineOrder
  <1>6. CASE Swept(o, s)
    <2>1. /\ up /\ up' /\ req' = req /\ UNCHANGED <<listed, masters, spawned, bridge>>
          /\ job[o][s].pc = "swept" /\ loop' \in {Free, <<"op", o>>}
          /\ linked' = IF j.ok THEN [linked EXCEPT ![s] = 0] ELSE linked
          /\ ms' = ms \/ ms' = [ms EXCEPT ![s].detached = ~j.ok]
      BY <1>3, <1>6 DEF Swept, ServerReady
    <2>2. j.ok => masters[s] = {}
      BY <1>1, <2>1 DEF Fits, Killed
    <2>3. \A t \in Sessions : ms'[t].proc = ms[t].proc
      <3>1. j.ok \in BOOLEAN /\ ms \in [Sessions -> Ms]
        BY <1>1 DEF Job, TypeOK, DeckTypes
      <3> HIDE DEF j
      <3> QED BY <2>1, <3>1 DEF Ms
    <2>4. CASE req[o] = "reclaim" \/ ms[s].proc = NoProc
      <3> DEFINE k == [j EXCEPT !.pc = "done"]
      <3>1. SetJob(o, s, k)
        BY <1>6, <2>4 DEF Swept
      <3>2. k.pc = "done" /\ k.ok = j.ok /\ ~k.gone
        BY <1>1, JobStepIs
      <3>3. ms[s].proc = NoProc
        BY <1>1, <2>1, <2>4 DEF Fits, Active, Ordered, BridgesInv
      <3> HIDE DEF j, k
      <3> QED BY <2>1, <2>2, <2>3, <3>1, <3>2, <3>3, CoroutineOrder
    <2>5. CASE ~(req[o] = "reclaim" \/ ms[s].proc = NoProc)
      <3> DEFINE k == [j EXCEPT !.pc = "hangup", !.proc = ms[s].proc]
      <3>1. SetJob(o, s, k)
        BY <1>1, <1>6, <2>5 DEF Swept
      <3>2. k.pc = "hangup" /\ k.ok = j.ok /\ k.proc = ms[s].proc /\ ~k.gone
        BY <1>1, JobStepIs
      <3> HIDE DEF j, k
      <3> QED BY <2>1, <2>2, <2>3, <3>1, <3>2, CoroutineOrder
    <2> QED BY <2>4, <2>5
  <1>7. CASE HangupSeen(o, s)
    <2>1. /\ up /\ up' /\ req' = req /\ UNCHANGED <<listed, ms, masters, linked, spawned, bridge>>
          /\ job[o][s].pc = "hangup" /\ loop' \in {Free, <<"op", o>>}
      BY <1>3, <1>7 DEF HangupSeen, ServerReady, deckvars, osvars
    <2>2. j.ok => masters[s] = {}
      BY <1>1, <2>1 DEF Fits, Killed
    <2>3. CASE SetJob(o, s, [j EXCEPT !.pc = "done"]) /\ bridge[s][j.proc] = "closed"
      <3> DEFINE k == [j EXCEPT !.pc = "done"]
      <3>1. SetJob(o, s, k)
        BY <2>3
      <3>2. k.pc = "done" /\ k.ok = j.ok /\ ~k.gone
        BY <1>1, JobStepIs
      <3>3. ms[s].proc = NoProc
        BY <1>1, <2>1, <2>3 DEF HangsUp, Ordered, BridgesInv
      <3> HIDE DEF j, k
      <3> QED BY <2>1, <2>2, <3>1, <3>2, <3>3, CoroutineOrder
    <2>4. CASE SetJob(o, s, [j EXCEPT !.pc = "done", !.ok = FALSE])
      <3> DEFINE k == [j EXCEPT !.pc = "done", !.ok = FALSE]
      <3>1. SetJob(o, s, k)
        BY <2>4
      <3>2. k.pc = "done" /\ ~k.ok /\ ~k.gone
        BY <1>1, JobStepIs
      <3> HIDE DEF j, k
      <3> QED BY <2>1, <3>1, <3>2, CoroutineOrder
    <2> QED BY <1>7, <2>3, <2>4 DEF HangupSeen
  <1> QED BY <1>4, <1>5, <1>6, <1>7 DEF TerminateSteps

(* A request that ends may take a terminal off the deck whose tree is dead. *)
LEMMA FinishedOrder ==
  ASSUME Ordered, TypeOK, NEW o \in Ops, Finished(o), up, up', UNCHANGED <<masters, linked, spawned, bridge>>,
         \A s \in Sessions : ms'[s].proc = ms[s].proc \/ ms'[s].proc = NoProc,
         \A s \in Sessions :
           \/ s \in listed' <=> s \in listed
           \/ /\ s \notin listed' /\ masters[s] = {} /\ ms'[s].proc = NoProc
              /\ \A p \in Ops : p # o /\ Active(p, s) => req[p] = "reclaim",
         \A s \in Sessions : loop' # <<"reopen", s>>
  PROVE  Ordered'
PROOF
  <1>1. /\ \A p \in Ops, t \in Sessions : job'[p][t] = IF p = o THEN NoJob ELSE job[p][t]
        /\ \A p \in Ops : req'[p] = IF p = o THEN "idle" ELSE req[p]
    BY FinishedIs
  <1>2. \A s \in Sessions : job'[o][s].pc = "none" /\ ~job'[o][s].gone
    BY <1>1, NoJobIs
  <1>3. \A s \in Sessions : (Killed(o, s)' => masters[s] = {}) /\ HangsUp(o, s)'
    BY <1>2 DEF Killed, HangsUp
  <1> QED BY <1>1, <1>2, <1>3, RequestOrder

(* What is known of a request on s whose coroutine is done. *)
LEMMA DoneIs ==
  ASSUME Ordered, NEW o \in Ops, NEW s \in Sessions, NEW kind, Done(o, s, kind), kind # "reclaim"
  PROVE  /\ up /\ s \in listed /\ ~job[o][s].gone /\ Active(o, s) /\ req[o] # "reclaim"
         /\ job[o][s].ok => masters[s] = {} /\ ms[s].proc = NoProc
         /\ \A p \in Ops : p # o /\ Active(p, s) => req[p] = "reclaim" /\ job[p][s].pc = "queued"
         /\ \A t \in Sessions : loop # <<"reopen", t>>
PROOF
  <1>1. /\ req[o] = kind /\ job[o][s].pc = "done" /\ up /\ Active(o, s)
        /\ loop = Free \/ loop = <<"op", o>>
    BY DEF Done, Active
  <1>2. \A p \in Ops : Fits(p, s) /\ HangsUp(p, s)
    BY DEF Ordered, JobsInv, BridgesInv
  <1>3. s \in listed /\ ~job[o][s].gone
    BY <1>1, <1>2 DEF Fits
  <1>4. job[o][s].ok => masters[s] = {} /\ ms[s].proc = NoProc
    BY <1>1, <1>2 DEF Fits, Killed, HangsUp
  <1>5. ASSUME NEW p \in Ops, p # o, Active(p, s)
        PROVE  req[p] = "reclaim" /\ job[p][s].pc = "queued"
    <2>1. req[p] = "reclaim"
      BY <1>1, <1>5 DEF Ordered, JobsInv
    <2> QED BY <1>2, <1>3, <1>5, <2>1 DEF Fits
  <1>6. \A t \in Sessions : loop # <<"reopen", t>>
    BY <1>1, LoopsDiffer
  <1> QED BY <1>1, <1>3, <1>4, <1>5, <1>6

LEMMA StopOrder ==
  ASSUME ConstantsOK, Orderly, TypeOK, Ordered, NEW o \in Ops, NEW s \in Sessions,
         StopEnds(o, s) \/ DeleteEnds(o, s) \/ FinishEnds(o, s)
  PROVE  Ordered'
PROOF
  <1>1. PICK kind \in {"stop", "delete", "finish"} : Done(o, s, kind)
    BY DEF StopEnds, DeleteEnds, FinishEnds
  <1>2. /\ up /\ s \in listed
        /\ job[o][s].ok => masters[s] = {} /\ ms[s].proc = NoProc
        /\ \A p \in Ops : p # o /\ Active(p, s) => req[p] = "reclaim" /\ job[p][s].pc = "queued"
        /\ \A t \in Sessions : loop # <<"reopen", t>>
    BY <1>1, DoneIs
  <1>3. Finished(o) /\ up' /\ UNCHANGED <<masters, linked, spawned, bridge>>
    BY <1>2 DEF StopEnds, DeleteEnds, FinishEnds, osvars
  <1>4. \A t \in Sessions : loop' # <<"reopen", t>>
    <2>1. loop' = loop \/ loop' = Free \/ loop' = <<"delete", s>>
      BY DEF StopEnds, DeleteEnds, FinishEnds
    <2> QED BY <1>2, <2>1, LoopsDiffer
  <1>5. ms \in [Sessions -> Ms] /\ listed \subseteq Sessions
    BY DEF TypeOK, DeckTypes
  <1>6. CASE StopEnds(o, s)
    <2>1. listed' = listed /\ (ms' = ms \/ ms' = [ms EXCEPT ![s] = Cleared(s)] \/ ms' = [ms EXCEPT ![s].lazy = FALSE])
      BY <1>6 DEF StopEnds
    <2>2. \A t \in Sessions : ms'[t].proc = ms[t].proc \/ ms'[t].proc = NoProc
      BY <1>5, <2>1, SameProc DEF Ms
    <2> QED BY <1>2, <1>3, <1>4, <2>1, <2>2, FinishedOrder
  <1>7. CASE DeleteEnds(o, s) \/ FinishEnds(o, s)
    <2>1. ms' = ms /\ (listed' = listed \/ (job[o][s].ok /\ listed' = listed \ {s}))
      BY <1>7 DEF DeleteEnds, FinishEnds
    <2>2. ASSUME NEW t \in Sessions
          PROVE  \/ t \in listed' <=> t \in listed
                 \/ /\ t \notin listed' /\ masters[t] = {} /\ ms'[t].proc = NoProc
                    /\ \A p \in Ops : p # o /\ Active(p, t) => req[p] = "reclaim"
      BY <1>2, <2>1
    <2> QED BY <1>2, <1>3, <1>4, <2>1, <2>2, FinishedOrder
  <1> QED BY <1>6, <1>7

LEMMA KillAllOrder ==
  ASSUME ConstantsOK, Orderly, TypeOK, Ordered, NEW o \in Ops, KillAllEnds(o)
  PROVE  Ordered'
PROOF
  <1>1. /\ up /\ up' /\ loop' = Free /\ Finished(o)
        /\ UNCHANGED <<listed, masters, linked, spawned, bridge>>
        /\ \A s \in Sessions : ms'[s] = ms[s] \/ ms'[s] = Cleared(s)
    BY DEF KillAllEnds, ServerReady, osvars
  <1>2. \A s \in Sessions : ms'[s].proc = ms[s].proc \/ ms'[s].proc = NoProc
    BY <1>1, SameProc
  <1>3. \A s \in Sessions : loop' # <<"reopen", s>>
    BY <1>1, LoopsDiffer
  <1> QED BY <1>1, <1>2, <1>3, FinishedOrder

(* A request goes on to its next terminal, or to its second killing of one. *)
LEMMA NextTargetOrder ==
  ASSUME Ordered, NEW o \in Ops, up, up', loop' = Free, UNCHANGED <<listed, masters, linked, spawned, bridge>>,
         \A s \in Sessions : ms'[s].proc = ms[s].proc \/ ms'[s].proc = NoProc,
         \A p \in Ops, s \in Sessions : p # o => job'[p][s] = job[p][s] /\ req'[p] = req[p],
         req'[o] = "reclaim" <=> req[o] = "reclaim",
         \A s \in Sessions :
           \/ job'[o][s] = job[o][s]
           \/ job'[o][s].pc = "none" /\ ~job'[o][s].gone
           \/ /\ job'[o][s].pc = "scan" /\ ~job'[o][s].gone /\ Active(o, s)
              /\ req[o] = "reclaim" => s \notin listed
  PROVE  Ordered'
PROOF
  <1>1. \A s \in Sessions : loop' # <<"reopen", s>>
    BY LoopsDiffer
  <1>2. \A s \in Sessions : Fits(o, s) /\ HangsUp(o, s)
    BY DEF Ordered, JobsInv, BridgesInv
  <1>3. ASSUME NEW s \in Sessions
        PROVE  /\ ~job'[o][s].gone
               /\ Killed(o, s)' => masters[s] = {}
               /\ HangsUp(o, s)'
               /\ job'[o][s].pc # "none" =>
                    IF req'[o] = "reclaim"
                      THEN spawned[s] # 0 /\ (job'[o][s].pc # "queued" => s \notin listed)
                      ELSE s \in listed /\ Active(o, s) /\ req[o] # "reclaim"
    <2>1. CASE job'[o][s] = job[o][s]
      BY <1>2, <2>1 DEF Killed, HangsUp, Fits, Active
    <2>2. CASE job'[o][s].pc = "none" /\ ~job'[o][s].gone
      BY <2>2 DEF Killed, HangsUp
    <2>3. CASE /\ job'[o][s].pc = "scan" /\ ~job'[o][s].gone /\ Active(o, s)
               /\ req[o] = "reclaim" => s \notin listed
      BY <1>2, <2>3 DEF Killed, HangsUp, Fits
    <2> QED BY <2>1, <2>2, <2>3
  <1> QED BY <1>1, <1>3, RequestOrder

LEMMA WorktreeOrder ==
  ASSUME ConstantsOK, Orderly, TypeOK, Ordered, NEW o \in Ops, NEW s \in Sessions, WorktreeChanged(o, s)
  PROVE  Ordered'
PROOF
  <1>1. Done(o, s, "stopworktree") /\ loop' = Free /\ up' = up
        /\ UNCHANGED <<listed, ms, masters, linked, spawned, bridge>>
    BY DEF WorktreeChanged, deckvars, osvars
  <1>2. up /\ ~job[o][s].gone /\ Active(o, s) /\ req[o] # "reclaim"
    BY <1>1, DoneIs
  <1>3. \A t \in Sessions : loop' # <<"reopen", t>>
    BY <1>1, LoopsDiffer
  <1>4. CASE Finished(o)
    BY <1>1, <1>2, <1>3, <1>4, FinishedOrder
  <1>5. CASE req' = [req EXCEPT ![o] = "finish"] /\ SetJob(o, s, [StartJob EXCEPT !.gone = job[o][s].gone])
    <2> DEFINE b == job[o][s].gone
               j == [StartJob EXCEPT !.gone = b]
    <2>1. b \in BOOLEAN /\ ~b
      BY <1>2, JobOf DEF Job
    <2>2. SetJob(o, s, j)
      BY <1>5
    <2> HIDE DEF b
    <2>3. j.pc = "scan" /\ ~j.gone
      BY <2>1, QueuedIs
    <2> HIDE DEF j
    <2>4. \A p \in Ops, t \in Sessions : job'[p][t] = IF p = o /\ t = s THEN j ELSE job[p][t]
      BY <2>2, SetJobIs
    <2>5. req'[o] = "finish" /\ \A p \in Ops : p # o => req'[p] = req[p]
      BY <1>5 DEF TypeOK, RequestTypes
    <2> QED BY <1>1, <1>2, <2>3, <2>4, <2>5, NextTargetOrder
  <1> QED BY <1>4, <1>5 DEF WorktreeChanged

LEMMA StaleOrder ==
  ASSUME ConstantsOK, Orderly, TypeOK, Ordered, NEW o \in Ops, NEW s \in Sessions, StaleKilled(o, s)
  PROVE  Ordered'
PROOF
  <1> DEFINE after == IF job[o][s].ok /\ ~job[o][s].gone THEN [ms EXCEPT ![s] = Cleared(s)] ELSE ms
  <1>1. Done(o, s, "killstale") /\ loop' = Free /\ up' = up
        /\ UNCHANGED <<listed, masters, linked, spawned, bridge>>
    BY DEF StaleKilled, osvars
  <1>2. up /\ req[o] # "reclaim" /\ job[o][s].pc = "done"
    BY <1>1, DoneIs DEF Done
  <1>3. \A t \in Sessions : loop' # <<"reopen", t>>
    BY <1>1, LoopsDiffer
  <1>4. after \in [Sessions -> Ms] /\ \A t \in Sessions : after[t].proc = ms[t].proc \/ after[t].proc = NoProc
    <2>1. ms \in [Sessions -> Ms] /\ Cleared(s) \in Ms
      BY ClearedTypes DEF TypeOK, DeckTypes
    <2> QED BY <2>1, SameProc
  <1>5. CASE Finished(o) /\ ms' = after
    <2> HIDE DEF after
    <2> QED BY <1>1, <1>2, <1>3, <1>4, <1>5, FinishedOrder
  <1>6. ASSUME NEW t \in Sessions, job[o][t].pc = "queued",
               job' = [job EXCEPT ![o][s] = NoJob, ![o][t] = [StartJob EXCEPT !.gone = job[o][t].gone]],
               ms' = IF job[o][t].gone THEN after ELSE [after EXCEPT ![t].lazy = TRUE],
               req' = req
        PROVE  Ordered'
    <2> HIDE DEF after
    <2>1. \A i \in Sessions : ms'[i].proc = after[i].proc
      BY <1>4, <1>6 DEF Ms
    <2> DEFINE b == job[o][t].gone
               j == [StartJob EXCEPT !.gone = b]
    <2>2. b \in BOOLEAN /\ ~b
      BY JobOf DEF Job, Ordered, JobsInv, Fits
    <2>3. job' = [job EXCEPT ![o][s] = NoJob, ![o][t] = j]
      BY <1>6
    <2> HIDE DEF b
    <2>4. j.pc = "scan" /\ ~j.gone
      BY <2>2, QueuedIs
    <2> HIDE DEF j
    <2>5. t # s
      BY <1>2, <1>6
    <2>6. job \in [Ops -> [Sessions -> Job]]
      BY DEF TypeOK, RequestTypes
    <2>7. \A p \in Ops, i \in Sessions :
            job'[p][i] = IF p = o /\ i = t THEN j ELSE IF p = o /\ i = s THEN NoJob ELSE job[p][i]
      BY <2>3, <2>5, <2>6
    <2>8. NoJob.pc = "none" /\ ~NoJob.gone /\ Active(o, t)
      BY <1>6, NoJobIs DEF Active
    <2>9. \A i \in Sessions : ms'[i].proc = ms[i].proc \/ ms'[i].proc = NoProc
      BY <1>4, <2>1
    <2>10. \A i \in Sessions :
             \/ job'[o][i] = job[o][i]
             \/ job'[o][i].pc = "none" /\ ~job'[o][i].gone
             \/ /\ job'[o][i].pc = "scan" /\ ~job'[o][i].gone /\ Active(o, i)
                /\ req[o] = "reclaim" => i \notin listed
      BY <1>2, <2>4, <2>7, <2>8
    <2>11. \A p \in Ops, i \in Sessions : p # o => job'[p][i] = job[p][i] /\ req'[p] = req[p]
      <3>1. req' = req
        BY <1>6
      <3> QED BY <2>7, <3>1
    <2>12. req'[o] = "reclaim" <=> req[o] = "reclaim"
      BY <1>6
    <2> QED BY <1>1, <1>2, <2>9, <2>10, <2>11, <2>12, NextTargetOrder
  <1> QED BY <1>5, <1>6 DEF StaleKilled

LEMMA ReclaimOrder ==
  ASSUME ConstantsOK, Orderly, TypeOK, Ordered, NEW o \in Ops, NEW s \in Sessions, ReclaimNext(o, s) \/ ReclaimOne(o, s)
  PROVE  Ordered'
PROOF
  <1>1. /\ up /\ up' /\ loop' = Free /\ UNCHANGED <<listed, ms, masters, linked, spawned, bridge, req>>
        /\ Active(o, s)
    BY DEF ReclaimNext, ReclaimOne, ServerReady, Done, Direct, deckvars, osvars, Active
  <1>2. PICK j : SetJob(o, s, j) /\ (j = NoJob \/ (j = StartJob /\ s \notin listed))
    BY DEF ReclaimNext, ReclaimOne
  <1>3. \A p \in Ops, t \in Sessions : job'[p][t] = IF p = o /\ t = s THEN j ELSE job[p][t]
    BY <1>2, SetJobIs
  <1>4. ~j.gone /\ (j.pc = "none" \/ (j.pc = "scan" /\ s \notin listed))
    BY <1>2, NoJobIs
  <1> QED BY <1>1, <1>3, <1>4, NextTargetOrder

LEMMA RestartOrder ==
  ASSUME ConstantsOK, Orderly, TypeOK, Ordered, NEW o \in Ops, NEW s \in Sessions, RestartEnds(o, s)
  PROVE  Ordered'
PROOF
  <1> USE DEF Ordered
  <1>1. Done(o, s, "restart") /\ Finished(o) /\ loop' = Free /\ listed' = listed /\ up' = up
    BY DEF RestartEnds
  <1>2. /\ up /\ s \in listed
        /\ \A p \in Ops : p # o /\ Active(p, s) => req[p] = "reclaim" /\ job[p][s].pc = "queued"
    BY <1>1, DoneIs
  <1>3. \A t \in Sessions : loop' # <<"reopen", t>>
    BY <1>1, LoopsDiffer
  <1>4. CASE UNCHANGED <<ms, osvars>>
    BY <1>1, <1>2, <1>3, <1>4, FinishedOrder DEF osvars
  <1>5. CASE Spawn(s, ms[s], bridge, TRUE, s \in bound)
    <2>1. TreesInv'
      BY <1>1, <1>2, <1>5, SpawnTrees
    <2>2. /\ \A p \in Ops, t \in Sessions : job'[p][t] = IF p = o THEN NoJob ELSE job[p][t]
          /\ \A p \in Ops : req'[p] = IF p = o THEN "idle" ELSE req[p]
          /\ NoJob.pc = "none" /\ ~NoJob.gone
      BY <1>1, FinishedIs, NoJobIs
    <2>3. /\ \A t \in Sessions \ {s} : masters'[t] = masters[t] /\ spawned'[t] = spawned[t]
          /\ spawned[s] # 0 => spawned'[s] # 0
      BY <1>5, SpawnIs
    <2>4. BridgesInv'
      <3>1. ms[s] \in Ms /\ bridge \in Bridges
        BY DEF TypeOK, DeckTypes, WorldTypes
      <3>2. \A p \in Ops : job'[p][s].pc \notin {"hangup", "done"}
        BY <1>2, <2>2 DEF Active
      <3>3. \A p \in Ops, t \in Sessions \ {s} : job'[p][t] = job[p][t] \/ job'[p][t].pc = "none"
        BY <2>2
      <3> QED BY <1>1, <1>2, <1>5, <3>1, <3>2, <3>3, StartBridges
    <2>5. ASSUME NEW p \in Ops, NEW t \in Sessions
          PROVE  Fits(p, t)' /\ (~Active(p, t)' \/ (req'[p] = req[p] /\ Active(p, t)))
      <3>1. CASE p = o
        BY <2>2, <3>1, Unoccupied
      <3>2. CASE p # o /\ t # s
        <4>1. /\ job'[p][t] = job[p][t] /\ req'[p] = req[p] /\ masters'[t] \subseteq masters[t]
              /\ spawned[t] # 0 => spawned'[t] # 0
              /\ Fits(p, t)
          BY <2>2, <2>3, <3>2 DEF JobsInv
        <4> QED BY <1>1, <4>1, FitsSame
      <3>3. CASE p # o /\ t = s
        <4>1. job'[p][s] = job[p][s] /\ req'[p] = req[p] /\ Fits(p, s)
          BY <2>2, <3>3 DEF JobsInv
        <4>2. Active(p, s) => req[p] = "reclaim" /\ job[p][s].pc = "queued"
          BY <1>2, <3>3
        <4> QED BY <1>1, <2>3, <3>3, <4>1, <4>2 DEF Fits, Killed, Active
      <3> QED BY <3>1, <3>2, <3>3
    <2>6. JobsInv'
      BY <1>1, <1>2, <1>3, <2>5, JobsStep
    <2> QED BY <2>1, <2>4, <2>6
  <1>6. ~job[o][s].gone
    BY <1>1, DoneIs
  <1> QED BY <1>4, <1>5, <1>6 DEF RestartEnds

(* The death and the return of the server.  It dies when the loop is free: the
   saved deck is the deck. *)
LEMMA ServerOrder ==
  ASSUME ConstantsOK, Orderly, TypeOK, DiskInv, HistoryInv, Ordered, ServerStops \/ ServerStarts
  PROVE  Ordered'
PROOF
  <1> USE DEF Ordered
  <1>1. CASE ServerStops
    <2>1. /\ up /\ ~up' /\ loop = Free /\ loop' = Free /\ listed' = {} /\ ms' = [s \in Sessions |-> NewMs]
          /\ job' = [o \in Ops |-> NoJobs]
          /\ UNCHANGED <<disk, masters, linked, spawned>>
      BY <1>1, OrderlyIs DEF ServerStops
    <2>2. disk = listed
      BY <2>1, LoopsDiffer DEF DiskInv
    <2>3. TreesInv'
      BY <2>1, <2>2, QuietTrees
    <2>4. \A o \in Ops, s \in Sessions : job'[o][s] = NoJob
      BY <2>1 DEF NoJobs
    <2>5. \A o \in Ops, s \in Sessions : job'[o][s].pc = "none" /\ ~job'[o][s].gone
      BY <2>4, NoJobIs
    <2>6. \A o \in Ops, s \in Sessions : Fits(o, s)' /\ ~Active(o, s)'
      BY <2>5, Unoccupied
    <2>7. \A s \in Sessions : loop' # <<"reopen", s>>
      BY <2>1, LoopsDiffer
    <2>8. JobsInv'
      BY <2>6, <2>7 DEF JobsInv
    <2>9. BridgesInv'
      <3>1. \A s \in Sessions : ms'[s].proc = NoProc
        BY <2>1 DEF NewMs
      <3> QED BY <2>5, <3>1 DEF BridgesInv, HangsUp
    <2> QED BY <2>3, <2>8, <2>9
  <1>2. CASE ServerStarts
    <2>1. /\ ~up /\ up' /\ loop' = loop /\ loop = Free /\ listed' = disk
          /\ UNCHANGED <<disk, masters, spawned, bridge, req, job>>
      BY <1>2 DEF ServerStarts, HistoryInv, reqvars
    <2>2. \A s \in Sessions : linked'[s] = linked[s] \/ (linked'[s] = 0 /\ masters'[s] = {})
      BY <1>2 DEF ServerStarts
    <2>3. \A s \in Sessions : ms'[s].proc = NoProc
      <3>1. ASSUME NEW b \in BOOLEAN
            PROVE  [NewMs EXCEPT !.lazy = TRUE, !.detached = b].proc = NoProc /\ NewMs.proc = NoProc
        BY DEF NewMs
      <3>2. \A s \in Sessions : ms'[s] = NewMs \/ \E b \in BOOLEAN : ms'[s] = [NewMs EXCEPT !.lazy = TRUE, !.detached = b]
        BY <1>2 DEF ServerStarts, LsofAnswers
      <3> QED BY <3>1, <3>2
    <2>4. TreesInv'
      <3>1. \A s \in Sessions : masters'[s] = masters[s]
        BY <2>1
      <3> QED BY <2>1, <2>2, <3>1, QuietTrees
    <2>5. \A o \in Ops, s \in Sessions : ~Active(o, s) /\ ~job[o][s].gone /\ job'[o][s] = job[o][s]
      BY <2>1 DEF JobsInv, Fits
    <2>6. \A o \in Ops, s \in Sessions : job'[o][s].pc = "none" /\ ~job'[o][s].gone
      BY <2>5 DEF Active
    <2>7. \A o \in Ops, s \in Sessions : Fits(o, s)' /\ ~Active(o, s)'
      BY <2>6, Unoccupied
    <2>8. \A s \in Sessions : loop' # <<"reopen", s>>
      BY <2>1, LoopsDiffer
    <2>9. JobsInv'
      BY <2>7, <2>8 DEF JobsInv
    <2>10. BridgesInv'
      BY <2>3, <2>6 DEF BridgesInv, HangsUp
    <2> QED BY <2>4, <2>9, <2>10
  <1> QED BY <1>1, <1>2

LEMMA InitOrdered == Init => Ordered
PROOF
  <1> SUFFICES ASSUME Init PROVE Ordered
    OBVIOUS
  <1>1. \A o \in Ops, s \in Sessions : job[o][s] = NoJob
    BY DEF Init, NoJobs
  <1>2. \A o \in Ops, s \in Sessions : job[o][s].pc = "none" /\ ~job[o][s].gone
    BY <1>1, NoJobIs
  <1>3. \A s \in Sessions : masters[s] = {} /\ linked[s] = 0 /\ ms[s].proc = NoProc
    BY DEF Init, NewMs
  <1>4. \A s \in Sessions : loop # <<"reopen", s>>
    BY LoopsDiffer DEF Init
  <1>5. TreesInv
    BY <1>3 DEF TreesInv
  <1>6. JobsInv
    BY <1>2, <1>4 DEF JobsInv, Fits, Killed, Active
  <1>7. BridgesInv
    BY <1>2, <1>3 DEF BridgesInv, HangsUp
  <1> QED BY <1>5, <1>6, <1>7 DEF Ordered

LEMMA OrderedStep ==
  ASSUME ConstantsOK, Orderly, TypeOK, DiskInv, HistoryInv, Ordered, [Next]_vars
  PROVE  Ordered'
PROOF
  <1>1. ASSUME NEW s \in Sessions, UserSteps(s) \/ SaveSteps(s) \/ Bind(s)
        PROVE  Ordered'
    BY <1>1, CreateJobs, AttachJobs, ReopenOrder, ReopenStartedJobs, UserOrder DEF UserSteps, SaveSteps
  <1>2. ASSUME NEW s \in Sessions, NEW n \in Spawns, MasterDies(s, n) \/ ClientExits(s, n) \/ BridgeExits(s, n)
        PROVE  Ordered'
    BY <1>2, ProcessOrder, BridgeJobs
  <1>3. ASSUME NEW o \in Ops, NEW s \in Sessions, RequestBegins(o, s) \/ TerminateSteps(o, s)
        PROVE  Ordered'
    BY <1>3, BeginsOrder, TerminateOrder DEF RequestBegins
  <1>4. ASSUME NEW o \in Ops, NEW s \in Sessions, RequestEnds(o, s)
        PROVE  Ordered'
    BY <1>4, StopOrder, RestartOrder, WorktreeOrder, StaleOrder, ReclaimOrder DEF RequestEnds
  <1>5. ASSUME NEW o \in Ops, SweepBegins(o) \/ ReportSampled(o) \/ SweepEnds(o)
        PROVE  Ordered'
    BY <1>5, SweepsOrder, ReclaimsOrder, KillAllOrder DEF SweepBegins, SweepEnds
  <1>6. CASE ServerStops \/ ServerStarts
    BY <1>6, ServerOrder
  <1>7. CASE UNCHANGED vars
    <2>1. /\ UNCHANGED <<up, loop, listed, ms, disk, masters, linked, spawned, bridge, req, job>>
      BY <1>7 DEF vars, deckvars, osvars, reqvars
    <2> QED BY <2>1, QuietOrder
  <1> QED BY <1>1, <1>2, <1>3, <1>4, <1>5, <1>6, <1>7 DEF Next

-----------------------------------------------------------------------------
(* Trees, and the contract *)

LEMMA OrderedAlways ==
  ASSUME Orderly
  PROVE  Spec => [](TypeOK /\ DiskInv /\ HistoryInv /\ Ordered)
PROOF
  <1> DEFINE Inv == TypeOK /\ DiskInv /\ HistoryInv /\ Ordered
  <1>1. Init => Inv
    BY InitTypes, DiskInit, HistoryInit, InitOrdered, ConstantsOK
  <1>2. Inv /\ [Next]_vars => Inv'
    BY StepTypes, DiskStep, HistoryStep, OrderedStep, OrderlyIs, ConstantsOK
  <1> QED BY <1>1, <1>2, PTL DEF Spec

(* delete_session and _finish_worktree let go of a record only when its process
   tree is dead: every tree has a terminal on the deck, after any number of
   restarts of the server. *)
THEOREM NoneOrphaned ==
  ASSUME Orderly
  PROVE  Spec => []NoOrphan
PROOF
  <1>1. TypeOK /\ DiskInv /\ HistoryInv /\ Ordered => NoOrphan
    BY DEF Ordered, TreesInv, NoOrphan, ServerReady
  <1> QED BY <1>1, OrderedAlways, PTL

(* A start joins the dtach master behind the socket file or finds none alive:
   no terminal has two process trees. *)
THEOREM OneTreeEach ==
  ASSUME Orderly
  PROVE  Spec => []OneTree
PROOF
  <1>1. ASSUME Ordered PROVE OneTree
    <2>1. ASSUME NEW s \in Sessions
          PROVE  Cardinality(masters[s]) <= 1
      <3>1. masters[s] = {} \/ masters[s] = {linked[s]}
        BY <1>1 DEF Ordered, TreesInv
      <3>2. Cardinality(masters[s]) \in {0, 1}
        BY <3>1, FS_EmptySet, FS_Singleton
      <3> QED BY <3>2
    <2> QED BY <2>1 DEF OneTree
  <1> QED BY <1>1, OrderedAlways, PTL

TreeOf(s) == IF masters[s] = {} THEN "dead" ELSE "live"

(* The deck as the contract sees it. *)
Deck == IF up THEN listed ELSE disk

LEMMA RecordIs ==
  ASSUME NEW s
  PROVE  RecordOf(s) = IF s \in Deck THEN "open"
                       ELSE IF s \in ClosedIds \/ loop = <<"reopen", s>> THEN "closed" ELSE "absent"
BY DEF RecordOf, Deck

LEMMA SameRecords ==
  ASSUME Deck' = Deck, closed' = closed,
         \A s \in Sessions : loop' = <<"reopen", s>> <=> loop = <<"reopen", s>>
  PROVE  \A s \in Sessions : RecordOf(s)' = RecordOf(s)
BY DEF RecordOf, Deck, ClosedIds

LEMMA Stutters ==
  ASSUME \A s \in Sessions : RecordOf(s)' = RecordOf(s),
         \A s \in Sessions : masters'[s] = masters[s]
  PROVE  UNCHANGED Contract!vars
BY DEF Contract!vars

(* One terminal's record and tree change. *)
LEMMA GoesTo ==
  ASSUME NEW s \in Sessions, NEW where, NEW life, RecordOf(s)' = where, TreeOf(s)' = life,
         \A t \in Sessions \ {s} : RecordOf(t)' = RecordOf(t) /\ masters'[t] = masters[t]
  PROVE  Contract!Goes(s, where, life)
BY DEF Contract!Goes, TreeOf

LEMMA ContractIs ==
  ASSUME NEW s \in Sessions
  PROVE  /\ [t \in Sessions |-> RecordOf(t)][s] = RecordOf(s)
         /\ [t \in Sessions |-> IF masters[t] = {} THEN "dead" ELSE "live"][s] = TreeOf(s)
BY DEF TreeOf

(* A start under an open record. *)
LEMMA StartsTree ==
  ASSUME NEW s \in Sessions, RecordOf(s) = "open",
         \A t \in Sessions : RecordOf(t)' = RecordOf(t),
         \A t \in Sessions \ {s} : masters'[t] = masters[t],
         masters'[s] = masters[s] \/ masters[s] = {}
  PROVE  [Contract!Next]_Contract!vars
PROOF
  <1>1. CASE masters'[s] = masters[s]
    BY <1>1, Stutters
  <1>2. CASE masters[s] = {} /\ masters'[s] # {}
    <2>1. Contract!Goes(s, "open", "live")
      BY <1>2, GoesTo DEF TreeOf
    <2>2. Contract!Start(s)
      BY <1>2, <2>1, ContractIs DEF Contract!Start, TreeOf
    <2> QED BY <2>2 DEF Contract!Next
  <1> QED BY <1>1, <1>2

(* Opening, as the contract sees it. *)
LEMMA Opened ==
  ASSUME NEW s \in Sessions, RecordOf(s) # "open", RecordOf(s)' = "open",
         \A t \in Sessions \ {s} : RecordOf(t)' = RecordOf(t) /\ masters'[t] = masters[t]
  PROVE  [Contract!Next]_Contract!vars
PROOF
  <1>1. PICK life \in {"dead", "live"} : TreeOf(s)' = life
    BY DEF TreeOf
  <1>2. Contract!Goes(s, "open", life)
    BY <1>1, GoesTo
  <1>3. Contract!Open(s, life)
    BY <1>2, ContractIs DEF Contract!Open
  <1> QED BY <1>3 DEF Contract!Next

LEMMA Dropped ==
  ASSUME NEW s \in Sessions, RecordOf(s) # "absent", RecordOf(s)' = "absent",
         masters[s] = {}, masters' = masters,
         \A t \in Sessions \ {s} : RecordOf(t)' = RecordOf(t)
  PROVE  [Contract!Next]_Contract!vars
PROOF
  <1>1. TreeOf(s) = "dead" /\ TreeOf(s)' = "dead"
    BY DEF TreeOf
  <1>2. Contract!Goes(s, "absent", "dead")
    BY <1>1, GoesTo
  <1>3. Contract!Drop(s)
    BY <1>1, <1>2, ContractIs DEF Contract!Drop
  <1> QED BY <1>3 DEF Contract!Next

(* With the loop free, no record is on its way out of the history. *)
LEMMA FreeRecords ==
  ASSUME NEW s \in Sessions, \A t \in Sessions : loop # <<"reopen", t>>
  PROVE  RecordOf(s) = IF s \in Deck THEN "open" ELSE IF s \in ClosedIds THEN "closed" ELSE "absent"
BY DEF RecordOf, Deck

LEMMA CreateContract ==
  ASSUME ConstantsOK, TypeOK, Ordered, NEW s \in Sessions, Create(s) \/ ReopenStarted(s),
         HistoryInv
  PROVE  [Contract!Next]_Contract!vars
PROOF
  <1>1. \A t \in Sessions \ {s} : masters'[t] = masters[t]
    BY SpawnIs DEF Create, ReopenStarted, Ordered
  <1>2. /\ up /\ up' /\ listed' = listed \cup {s} /\ closed' = closed
    <2>1. CASE Create(s)
      BY <2>1 DEF Create, ServerReady
    <2>2. CASE ReopenStarted(s)
      BY <2>2 DEF ReopenStarted
    <2> QED BY <2>1, <2>2
  <1>3. s \notin listed
    BY DEF Create, ReopenStarted, Ordered, JobsInv
  <1>4. \A t \in Sessions \ {s} : loop' # <<"reopen", t>> /\ loop # <<"reopen", t>>
    <2>1. loop = Free \/ loop = <<"reopen", s>>
      BY DEF Create, ReopenStarted, ServerReady
    <2>2. loop' = Free \/ loop' = <<"create", s>>
      BY DEF Create, ReopenStarted
    <2> QED BY <2>1, <2>2, LoopsDiffer
  <1>5. \A t \in Sessions \ {s} : RecordOf(t)' = RecordOf(t)
    BY <1>2, <1>4 DEF RecordOf, ClosedIds
  <1>6. RecordOf(s) # "open" /\ RecordOf(s)' = "open"
    BY <1>2, <1>3 DEF RecordOf
  <1> QED BY <1>1, <1>5, <1>6, Opened

LEMMA AttachContract ==
  ASSUME ConstantsOK, TypeOK, Ordered, NEW s \in Sessions, Attach(s)
  PROVE  [Contract!Next]_Contract!vars
PROOF
  <1>1. /\ \A t \in Sessions \ {s} : masters'[t] = masters[t]
        /\ masters'[s] = masters[s] \/ masters[s] = {}
    BY SpawnIs DEF Attach, Ordered
  <1>2. up /\ s \in listed /\ UNCHANGED <<up, listed, closed, disk, loop>>
    BY DEF Attach, ServerReady
  <1>3. \A t \in Sessions : RecordOf(t)' = RecordOf(t)
    BY <1>2, SameRecords DEF Deck
  <1>4. RecordOf(s) = "open"
    BY <1>2 DEF RecordOf
  <1> QED BY <1>1, <1>3, <1>4, StartsTree

LEMMA BridgeContract ==
  ASSUME ConstantsOK, TypeOK, Ordered, NEW s \in Sessions, NEW b \in Spawns, BridgeExits(s, b)
  PROVE  [Contract!Next]_Contract!vars
PROOF
  <1>1. up /\ UNCHANGED <<up, listed, closed, loop>>
    BY DEF BridgeExits, ServerReady
  <1>2. \A t \in Sessions : RecordOf(t)' = RecordOf(t)
    BY <1>1, SameRecords DEF Deck
  <1>3. CASE masters' = masters
    BY <1>2, <1>3, Stutters
  <1>4. CASE masters' # masters
    <2> DEFINE closing == [bridge EXCEPT ![s][b] = "closed"]
               m == [ms[s] EXCEPT !.proc = NoProc, !.fallback = TRUE]
    <2>1. Spawn(s, m, closing, TRUE, FALSE) /\ ms[s].proc = b
      BY <1>4 DEF BridgeExits
    <2>2. s \in listed
      BY <2>1 DEF Ordered, BridgesInv, Spawns, NoProc
    <2> HIDE DEF closing, m
    <2>3. /\ \A t \in Sessions \ {s} : masters'[t] = masters[t]
          /\ masters'[s] = masters[s] \/ masters[s] = {}
      BY <2>1, SpawnIs DEF Ordered
    <2>4. RecordOf(s) = "open"
      BY <1>1, <2>2 DEF RecordOf
    <2> QED BY <1>2, <2>3, <2>4, StartsTree
  <1> QED BY <1>3, <1>4

LEMMA RestartContract ==
  ASSUME ConstantsOK, TypeOK, Ordered, NEW o \in Ops, NEW s \in Sessions, RestartEnds(o, s)
  PROVE  [Contract!Next]_Contract!vars
PROOF
  <1>1. Done(o, s, "restart") /\ loop' = Free /\ UNCHANGED <<up, listed, closed, disk>>
    BY DEF RestartEnds
  <1>2. up /\ s \in listed /\ \A t \in Sessions : loop # <<"reopen", t>>
    BY <1>1, DoneIs
  <1>3. \A t \in Sessions : RecordOf(t)' = RecordOf(t)
    BY <1>1, <1>2, LoopsDiffer, SameRecords DEF Deck
  <1>4. CASE UNCHANGED masters
    BY <1>3, <1>4, Stutters
  <1>5. CASE Spawn(s, ms[s], bridge, TRUE, s \in bound)
    <2>1. /\ \A t \in Sessions \ {s} : masters'[t] = masters[t]
          /\ masters'[s] = masters[s] \/ masters[s] = {}
      BY <1>5, SpawnIs DEF Ordered
    <2>2. RecordOf(s) = "open"
      BY <1>2 DEF RecordOf
    <2> QED BY <1>3, <2>1, <2>2, StartsTree
  <1>6. ~job[o][s].gone
    BY <1>1, DoneIs
  <1> QED BY <1>4, <1>5, <1>6 DEF RestartEnds, osvars

(* A record leaves the history, to the deck or for good. *)
LEMMA HistoryContract ==
  ASSUME ConstantsOK, TypeOK, HistoryInv, Ordered, NEW s \in Sessions, Reopen(s) \/ Purge(s)
  PROVE  [Contract!Next]_Contract!vars
PROOF
  <1>1. /\ up /\ up' /\ loop = Free /\ s \in ClosedIds /\ UNCHANGED <<listed, disk, masters>>
        /\ closed' = Without(closed, s)
    BY DEF Reopen, Purge, ServerReady, osvars
  <1>2. s \notin listed
    BY <1>1 DEF HistoryInv
  <1>3. ClosedIds' = ClosedIds \ {s}
    BY <1>1, WithoutProperties DEF TypeOK, Histories, ClosedIds
  <1>4. \A t \in Sessions : loop # <<"reopen", t>>
    BY <1>1, LoopsDiffer
  <1>5. RecordOf(s) = "closed"
    BY <1>1, <1>2 DEF RecordOf
  <1>6. ASSUME NEW t \in Sessions \ {s}, loop' # <<"reopen", t>>
        PROVE  RecordOf(t)' = RecordOf(t)
    BY <1>1, <1>3, <1>4, <1>6 DEF RecordOf
  <1>7. CASE Reopen(s)
    <2>1. loop' = <<"reopen", s>> /\ \A t \in Sessions \ {s} : loop' # <<"reopen", t>>
      BY <1>7, LoopsDiffer DEF Reopen
    <2>2. RecordOf(s)' = "closed"
      BY <1>1, <1>2, <2>1 DEF RecordOf
    <2> QED BY <1>1, <1>5, <1>6, <2>1, <2>2, Stutters
  <1>8. CASE Purge(s)
    <2>1. \A t \in Sessions : loop' # <<"reopen", t>>
      BY <1>1, <1>8, LoopsDiffer DEF Purge
    <2>2. RecordOf(s)' = "absent"
      BY <1>1, <1>2, <1>3, <2>1 DEF RecordOf
    <2>3. masters[s] = {}
      BY <1>1, <1>2 DEF Ordered, TreesInv
    <2> QED BY <1>1, <1>5, <1>6, <2>1, <2>2, <2>3, Dropped
  <1> QED BY <1>7, <1>8

(* A deleted terminal enters the history, out of which at most the oldest goes. *)
LEMMA DeleteContract ==
  ASSUME ConstantsOK, TypeOK, HistoryInv, Ordered, NEW o \in Ops, NEW s \in Sessions, DeleteEnds(o, s),
         job[o][s].ok, s \in listed
  PROVE  [Contract!Next]_Contract!vars
PROOF
  <1> DEFINE Rec == [t \in Sessions |-> RecordOf(t)]
             last == closed[Len(closed)]
  <1>1. Done(o, s, "delete") /\ listed' = listed \ {s} /\ closed' = Push(closed, s) /\ loop' = <<"delete", s>>
        /\ UNCHANGED <<up, disk, masters>>
    BY DEF DeleteEnds, osvars
  <1>2. up /\ up' /\ masters[s] = {} /\ \A t \in Sessions : loop # <<"reopen", t>>
    BY <1>1, DoneIs
  <1>3. closed \in Histories /\ s \notin ToSet(closed)
    BY DEF TypeOK, HistoryInv, ClosedIds
  <1>4. /\ s \in ClosedIds' /\ ClosedIds' \subseteq ClosedIds \cup {s}
        /\ \A t \in ClosedIds : t \in ClosedIds' \/ (closed # <<>> /\ t = last)
    BY <1>1, <1>3, PushDrops, PushProperties DEF ClosedIds
  <1>5. \A t \in Sessions : loop' # <<"reopen", t>>
    BY <1>1, LoopsDiffer
  <1>6. RecordOf(s) = "open" /\ RecordOf(s)' = "closed"
    BY <1>1, <1>2, <1>4 DEF RecordOf
  <1>7. \A t \in Sessions \ {s} : RecordOf(t)' = RecordOf(t)
                                  \/ (RecordOf(t) = "closed" /\ RecordOf(t)' = "absent" /\ t = last)
    BY <1>1, <1>2, <1>4, <1>5 DEF RecordOf
  <1>8. UNCHANGED [t \in Sessions |-> IF masters[t] = {} THEN "dead" ELSE "live"]
    BY <1>1
  <1>9. TreeOf(s) = "dead"
    BY <1>2 DEF TreeOf
  <1>10. \A t \in Sessions : Rec[t] = RecordOf(t) /\ Rec'[t] = RecordOf(t)'
    OBVIOUS
  <1>11. CASE \A t \in Sessions \ {s} : RecordOf(t)' = RecordOf(t)
    <2>1. Rec' = [Rec EXCEPT ![s] = "closed"]
      BY <1>6, <1>11
    <2>2. Contract!Close(s)
      BY <1>6, <1>8, <1>9, <2>1, ContractIs DEF Contract!Close
    <2> QED BY <2>2 DEF Contract!Next
  <1>12. ASSUME NEW t \in Sessions \ {s}, RecordOf(t)' # RecordOf(t)
         PROVE  [Contract!Next]_Contract!vars
    <2>1. RecordOf(t) = "closed" /\ RecordOf(t)' = "absent" /\ t = last
      BY <1>7, <1>12
    <2>2. \A i \in Sessions \ {s, t} : RecordOf(i)' = RecordOf(i)
      BY <1>7, <2>1
    <2>3. Rec' = [Rec EXCEPT ![s] = "closed", ![t] = "absent"]
      BY <1>6, <2>1, <2>2
    <2>4. Contract!Close(s)
      BY <1>6, <1>8, <1>9, <2>1, <2>3, ContractIs DEF Contract!Close
    <2> QED BY <2>4 DEF Contract!Next
  <1> QED BY <1>11, <1>12

LEMMA FinishContract ==
  ASSUME ConstantsOK, TypeOK, HistoryInv, Ordered, NEW o \in Ops, NEW s \in Sessions, FinishEnds(o, s),
         job[o][s].ok, s \in listed
  PROVE  [Contract!Next]_Contract!vars
PROOF
  <1>1. Done(o, s, "finish") /\ listed' = listed \ {s} /\ UNCHANGED <<up, loop, closed, masters>>
    BY DEF FinishEnds, osvars
  <1>2. up /\ up' /\ masters[s] = {} /\ \A t \in Sessions : loop # <<"reopen", t>>
    BY <1>1, DoneIs
  <1>3. s \notin ClosedIds
    BY DEF HistoryInv
  <1>4. RecordOf(s) = "open" /\ RecordOf(s)' = "absent"
    BY <1>1, <1>2, <1>3 DEF RecordOf, ClosedIds
  <1>5. \A t \in Sessions \ {s} : RecordOf(t)' = RecordOf(t)
    BY <1>1, <1>2 DEF RecordOf, ClosedIds
  <1> QED BY <1>1, <1>2, <1>4, <1>5, Dropped

(* Steps that the contract does not see. *)
LEMMA UnseenContract ==
  ASSUME UNCHANGED <<listed, closed, masters>>, up, up',
         \A s \in Sessions : loop # <<"reopen", s>> /\ loop' # <<"reopen", s>>
  PROVE  [Contract!Next]_Contract!vars
BY SameRecords, Stutters DEF Deck

LEMMA RequestContract ==
  ASSUME ConstantsOK, TypeOK, HistoryInv, Ordered, NEW o \in Ops, NEW s \in Sessions,
         RequestBegins(o, s) \/ TerminateSteps(o, s) \/ RequestEnds(o, s)
  PROVE  [Contract!Next]_Contract!vars
PROOF
  <1>1. CASE RequestBegins(o, s)
    <2>1. up /\ up' /\ loop = Free /\ loop' = Free /\ UNCHANGED <<listed, closed, masters>>
      BY <1>1 DEF RequestBegins, StopBegins, RestartBegins, DeleteBegins, FinishBegins, Begin, ServerReady, osvars
    <2> QED BY <2>1, LoopsDiffer, UnseenContract
  <1>2. CASE TerminateSteps(o, s)
    <2>1. up /\ up' /\ loop = Free /\ loop' \in {Free, <<"op", o>>} /\ UNCHANGED <<listed, closed, masters>>
      <3>1. CASE Scan(o, s) \/ PollGone(o, s) \/ PollsExhausted(o, s) \/ SweepSampled(o, s)
        <4>1. UNCHANGED <<up, loop, listed, closed, masters>>
          BY <3>1 DEF Scan, PollGone, PollsExhausted, SweepSampled, deckvars, osvars
        <4>2. up /\ loop = Free
          BY <3>1 DEF Scan, PollGone, PollsExhausted, SweepSampled, ServerReady
        <4> QED BY <4>1, <4>2
      <3>2. CASE Swept(o, s)
        BY <3>2 DEF Swept, LoopAfter, ServerReady
      <3>3. CASE HangupSeen(o, s)
        BY <3>3 DEF HangupSeen, LoopAfter, ServerReady, deckvars, osvars
      <3> QED BY <1>2, <3>1, <3>2, <3>3 DEF TerminateSteps
    <2> QED BY <2>1, LoopsDiffer, UnseenContract
  <1>3. CASE StopEnds(o, s) \/ WorktreeChanged(o, s) \/ StaleKilled(o, s)
    <2>1. PICK kind \in {"stop", "stopworktree", "killstale"} : Done(o, s, kind)
      BY <1>3 DEF StopEnds, WorktreeChanged, StaleKilled
    <2>2. up /\ \A t \in Sessions : loop # <<"reopen", t>>
      BY <2>1, DoneIs
    <2>3. up' = up /\ loop' = Free /\ UNCHANGED <<listed, closed, masters>>
      BY <1>3 DEF StopEnds, WorktreeChanged, StaleKilled, osvars, deckvars
    <2> QED BY <2>2, <2>3, LoopsDiffer, UnseenContract
  <1>4. CASE ReclaimNext(o, s) \/ ReclaimOne(o, s)
    <2>1. up /\ up' /\ loop = Free /\ loop' = Free /\ UNCHANGED <<listed, closed, masters>>
      BY <1>4 DEF ReclaimNext, ReclaimOne, ServerReady, Done, Direct, deckvars, osvars
    <2> QED BY <2>1, LoopsDiffer, UnseenContract
  <1>5. CASE DeleteEnds(o, s) \/ FinishEnds(o, s)
    <2>1. CASE job[o][s].ok /\ s \in listed
      BY <1>5, <2>1, DeleteContract, FinishContract
    <2>2. CASE ~(job[o][s].ok /\ s \in listed)
      <3>1. PICK kind \in {"delete", "finish"} : Done(o, s, kind)
        BY <1>5 DEF DeleteEnds, FinishEnds
      <3>2. up /\ \A t \in Sessions : loop # <<"reopen", t>>
        BY <3>1, DoneIs
      <3>3. UNCHANGED <<up, loop, listed, closed, masters>>
        BY <1>5, <2>2 DEF DeleteEnds, FinishEnds, osvars
      <3> QED BY <3>2, <3>3, UnseenContract
    <2> QED BY <2>1, <2>2
  <1>6. CASE RestartEnds(o, s)
    BY <1>6, RestartContract
  <1> QED BY <1>1, <1>2, <1>3, <1>4, <1>5, <1>6 DEF RequestEnds

LEMMA ContractStep ==
  ASSUME ConstantsOK, Orderly, TypeOK, DiskInv, HistoryInv, Ordered, [Next]_vars
  PROVE  [Contract!Next]_Contract!vars
PROOF
  <1>1. ASSUME NEW s \in Sessions, UserSteps(s) \/ SaveSteps(s) \/ Bind(s)
        PROVE  [Contract!Next]_Contract!vars
    <2>1. CASE CreateSaved(s) \/ DeleteSaved(s) \/ Bind(s)
      <3>1. /\ up /\ UNCHANGED <<up, listed, closed, masters>> /\ loop' = Free
            /\ loop \in {Free, <<"create", s>>, <<"delete", s>>}
        BY <2>1 DEF CreateSaved, DeleteSaved, Bind, ServerReady, osvars
      <3> QED BY <3>1, LoopsDiffer, UnseenContract
    <2>2. CASE Create(s) \/ ReopenStarted(s)
      BY <2>2, CreateContract
    <2>3. CASE Attach(s)
      BY <2>3, AttachContract
    <2>4. CASE Reopen(s) \/ Purge(s)
      BY <2>4, HistoryContract
    <2> QED BY <1>1, <2>1, <2>2, <2>3, <2>4 DEF UserSteps, SaveSteps
  <1>2. ASSUME NEW s \in Sessions, NEW n \in Spawns, MasterDies(s, n)
        PROVE  [Contract!Next]_Contract!vars
    <2>1. /\ UNCHANGED <<up, listed, closed, disk, loop>>
          /\ n \in masters[s] /\ masters' = [masters EXCEPT ![s] = masters[s] \ {n}]
      BY <1>2 DEF MasterDies, deckvars
    <2>2. masters[s] = {n} /\ RecordOf(s) = "open"
      BY <2>1 DEF Ordered, TreesInv, RecordOf
    <2>3. masters \in [Sessions -> SUBSET Spawns]
      BY DEF TypeOK, WorldTypes
    <2>4. masters'[s] = {} /\ \A t \in Sessions \ {s} : masters'[t] = masters[t]
      BY <2>1, <2>2, <2>3
    <2>5. \A t \in Sessions : RecordOf(t)' = RecordOf(t)
      BY <2>1, SameRecords DEF Deck
    <2>6. TreeOf(s) = "live" /\ TreeOf(s)' = "dead"
      BY <2>2, <2>4 DEF TreeOf
    <2>7. Contract!Goes(s, "open", "dead")
      BY <2>2, <2>4, <2>5, <2>6, GoesTo
    <2>8. Contract!End(s)
      BY <2>2, <2>6, <2>7, ContractIs DEF Contract!End
    <2> QED BY <2>8 DEF Contract!Next
  <1>3. ASSUME NEW s \in Sessions, NEW n \in Spawns, ClientExits(s, n)
        PROVE  [Contract!Next]_Contract!vars
    <2>1. UNCHANGED <<up, listed, closed, disk, loop, masters>>
      BY <1>3 DEF ClientExits, deckvars
    <2> QED BY <2>1, SameRecords, Stutters DEF Deck
  <1>4. ASSUME NEW s \in Sessions, NEW n \in Spawns, BridgeExits(s, n)
        PROVE  [Contract!Next]_Contract!vars
    BY <1>4, BridgeContract
  <1>5. ASSUME NEW o \in Ops, NEW s \in Sessions, RequestBegins(o, s) \/ TerminateSteps(o, s) \/ RequestEnds(o, s)
        PROVE  [Contract!Next]_Contract!vars
    BY <1>5, RequestContract
  <1>6. ASSUME NEW o \in Ops, SweepBegins(o) \/ ReportSampled(o) \/ SweepEnds(o)
        PROVE  [Contract!Next]_Contract!vars
    <2>1. up /\ loop = Free /\ UNCHANGED <<up, loop, listed, closed, masters>>
      BY <1>6 DEF SweepBegins, SweepEnds, KillAllBegins, KillStaleBegins, ReclaimBegins, Begin, ReportSampled,
                  KillAllEnds, ReportApplied, ServerReady, osvars, deckvars
    <2> QED BY <2>1, LoopsDiffer, UnseenContract
  <1>7. CASE ServerStops
    <2>1. up /\ ~up' /\ loop = Free /\ loop' = Free /\ UNCHANGED <<disk, closed, masters>>
      BY <1>7, OrderlyIs DEF ServerStops
    <2>2. disk = listed
      BY <2>1, LoopsDiffer DEF DiskInv
    <2> QED BY <2>1, <2>2, SameRecords, Stutters DEF Deck
  <1>8. CASE ServerStarts
    <2>1. ~up /\ up' /\ listed' = disk /\ UNCHANGED <<loop, closed, masters>>
      BY <1>8 DEF ServerStarts
    <2> QED BY <2>1, SameRecords, Stutters DEF Deck
  <1>9. CASE UNCHANGED vars
    <2>1. UNCHANGED <<up, listed, closed, disk, loop, masters>>
      BY <1>9 DEF vars, deckvars, osvars
    <2> QED BY <2>1, SameRecords, Stutters DEF Deck
  <1> QED BY <1>1, <1>2, <1>3, <1>4, <1>5, <1>6, <1>7, <1>8, <1>9 DEF Next

(* The lifecycle implements DeckContract: records open, close and reopen as the
   contract says, trees live only under open ones, and a death of the server
   changes neither. *)
THEOREM ContractKept ==
  ASSUME Orderly
  PROVE  Spec => KeepsContract
PROOF
  <1>1. Init => Contract!Init
    <2>1. ASSUME Init PROVE \A s \in Sessions : RecordOf(s) = "absent"
      <3>1. ToSet(<<>>) = {}
        BY DEF ToSet
      <3> QED BY <2>1, <3>1, LoopsDiffer DEF Init, RecordOf, ClosedIds
    <2> QED BY <2>1 DEF Init, Contract!Init
  <1>2. TypeOK /\ DiskInv /\ HistoryInv /\ Ordered /\ [Next]_vars => [Contract!Next]_Contract!vars
    BY ContractStep, ConstantsOK
  <1> QED BY <1>1, <1>2, OrderedAlways, PTL DEF Spec, KeepsContract, Contract!Spec

-----------------------------------------------------------------------------
(* A living tree can be reached, in an environment without faults *)

(* A tree that is polled has been sent a signal, and who goes on has seen it dead. *)
CalmJob(o, s) ==
  /\ job[o][s].pc = "poll" => masters[s] \subseteq doomed[s]
  /\ job[o][s].pc = "sweep" => masters[s] = {}
  /\ job[o][s].pc \in {"swept", "hangup", "done"} => job[o][s].ok
  /\ job[o][s].ok => \/ job[o][s].pc \in {"swept", "hangup", "done"}
                     \/ job[o][s].pc = "none" /\ req[o] = "report"

(* The bridge of a terminal whose tree lives is up and attached to that tree. *)
CalmBridge(s) ==
  masters[s] # {} =>
    /\ ms[s].proc # NoProc => on[s][ms[s].proc] \in masters[s] /\ bridge[s][ms[s].proc] = "up"
    /\ s \in listed => ms[s].proc # NoProc \/ ms[s].lazy

CalmInv == /\ \A s \in Sessions : CalmBridge(s)
           /\ \A o \in Ops, s \in Sessions : CalmJob(o, s)

LEMMA CalmIs ==
  ASSUME Faults = {}
  PROVE  Orderly /\ LsofAnswers = {TRUE} /\ \A f : f \notin Faults
BY DEF Orderly, LsofAnswers

(* What has to be seen of each terminal and each request. *)
LEMMA CalmStep ==
  ASSUME CalmInv,
         \A s \in Sessions :
           \/ masters'[s] = {}
           \/ /\ masters'[s] = masters[s] /\ on'[s] = on[s] /\ ms'[s].proc = ms[s].proc
              /\ ms[s].proc # NoProc => bridge'[s][ms[s].proc] = bridge[s][ms[s].proc]
              /\ ms'[s].lazy \/ s \notin listed' \/ (s \in listed /\ ~ms[s].lazy)
           \/ CalmBridge(s)',
         \A o \in Ops, s \in Sessions :
           \/ /\ job'[o][s] = job[o][s] /\ req'[o] = req[o]
              /\ masters'[s] = {} \/ (masters'[s] = masters[s] /\ doomed[s] \subseteq doomed'[s])
           \/ CalmJob(o, s)'
  PROVE  CalmInv'
PROOF
  <1>1. ASSUME NEW s \in Sessions PROVE CalmBridge(s)'
    BY DEF CalmInv, CalmBridge
  <1>2. ASSUME NEW o \in Ops, NEW s \in Sessions PROVE CalmJob(o, s)'
    BY DEF CalmInv, CalmJob
  <1> QED BY <1>1, <1>2 DEF CalmInv

(* Steps in which no request takes part and nothing starts. *)
LEMMA CalmQuiet ==
  ASSUME CalmInv, UNCHANGED <<listed, ms, on, req, job>>,
         \A s \in Sessions : \/ masters'[s] = {}
                             \/ /\ masters'[s] = masters[s] /\ doomed'[s] = doomed[s]
                                /\ ms[s].proc # NoProc => bridge'[s][ms[s].proc] = bridge[s][ms[s].proc]
  PROVE  CalmInv'
PROOF
  <1>1. \A s \in Sessions : s \in listed /\ masters[s] # {} => ms[s].proc # NoProc \/ ms[s].lazy
    BY DEF CalmInv, CalmBridge
  <1>2. \A s \in Sessions : masters'[s] = {} \/ CalmBridge(s)'
    BY <1>1 DEF CalmInv, CalmBridge
  <1> QED BY <1>2, CalmStep

(* A start joins the living tree or makes one, and its bridge is up. *)
LEMMA SpawnCalm ==
  ASSUME ConstantsOK, Faults = {}, TypeOK, NEW s \in Sessions, NEW m \in Ms, NEW bridges \in Bridges,
         NEW resume, NEW hasId, Spawn(s, m, bridges, resume, hasId)
  PROVE  /\ ms'[s].proc # NoProc /\ on'[s][ms'[s].proc] \in masters'[s] /\ bridge'[s][ms'[s].proc] = "up"
         /\ \A t \in Sessions \ {s} : /\ on'[t] = on[t] /\ ms'[t] = ms[t] /\ bridge'[t] = bridges[t]
                                      /\ masters'[t] = masters[t] /\ doomed'[t] = doomed[t]
PROOF
  <1>1. PICK answers \in LsofAnswers :
          LET reattach == resume /\ answers /\ SocketLive(s)
              spawning == [m EXCEPT !.lazy = FALSE, !.detached = reattach,
                                    !.resuming = ~reattach /\ hasId]
              n == spawned[s] + 1
          IN /\ Room(s)
             /\ ms' = [ms EXCEPT ![s] = [spawning EXCEPT !.proc = n]]
             /\ Opens(s, n, bridges)
    BY CalmIs DEF Spawn
  <1> DEFINE reattach == resume /\ answers /\ SocketLive(s)
             spawning == [m EXCEPT !.lazy = FALSE, !.detached = reattach,
                                   !.resuming = ~reattach /\ hasId]
             n == spawned[s] + 1
             k == [spawning EXCEPT !.proc = n]
  <1>2. k.proc = n
    BY DEF Ms
  <1>3. ms \in [Sessions -> Ms] /\ bridges \in [Sessions -> [Spawns -> {"unborn", "up", "down", "closed"}]]
        /\ on \in [Sessions -> [Spawns -> 0..MaxSpawn]] /\ masters \in [Sessions -> SUBSET Spawns]
    BY DEF TypeOK, DeckTypes, WorldTypes, Bridges
  <1>4. n \in Spawns /\ n # NoProc
    <2>1. spawned[s] \in 0..MaxSpawn
      BY DEF TypeOK, WorldTypes
    <2> QED BY <1>1, <2>1 DEF Room, Spawns, ConstantsOK, NoProc
  <1>5. ms' = [ms EXCEPT ![s] = k] /\ Opens(s, n, bridges)
    BY <1>1
  <1>6. doomed' = doomed
    BY DEF Spawn
  <1> HIDE DEF n, k
  <1>7. ms'[s].proc = n /\ \A t \in Sessions \ {s} : ms'[t] = ms[t]
    BY <1>2, <1>3, <1>5
  <1>8. bridge'[s][n] = "up" /\ \A t \in Sessions \ {s} : bridge'[t] = bridges[t]
    BY <1>3, <1>4, <1>5 DEF Opens
  <1>9. on'[s][n] \in masters'[s] /\ \A t \in Sessions \ {s} : on'[t] = on[t] /\ masters'[t] = masters[t]
    <2>1. CASE SocketLive(s)
      BY <1>3, <1>4, <1>5, <2>1 DEF Opens, SocketLive
    <2>2. CASE ~SocketLive(s)
      BY <1>3, <1>4, <1>5, <2>2 DEF Opens
    <2> QED BY <2>1, <2>2
  <1> QED BY <1>4, <1>6, <1>7, <1>8, <1>9

LEMMA StartCalm ==
  ASSUME ConstantsOK, Faults = {}, TypeOK, CalmInv, NEW s \in Sessions, NEW m \in Ms, NEW bridges \in Bridges,
         NEW resume, NEW hasId, Spawn(s, m, bridges, resume, hasId),
         \A t \in Sessions \ {s} : bridges[t] = bridge[t] /\ (t \in listed' <=> t \in listed),
         \A o \in Ops : job'[o][s].pc \in {"none", "queued"} /\ (job'[o][s].ok => job'[o][s].pc = "none" /\ req'[o] = "report"),
         \A o \in Ops, t \in Sessions \ {s} : (job'[o][t] = job[o][t] /\ req'[o] = req[o]) \/ job'[o][t] = NoJob
  PROVE  CalmInv'
PROOF
  <1>1. /\ ms'[s].proc # NoProc /\ on'[s][ms'[s].proc] \in masters'[s] /\ bridge'[s][ms'[s].proc] = "up"
        /\ \A t \in Sessions \ {s} : /\ on'[t] = on[t] /\ ms'[t] = ms[t] /\ bridge'[t] = bridges[t]
                                     /\ masters'[t] = masters[t] /\ doomed'[t] = doomed[t]
    BY SpawnCalm
  <1>2. ASSUME NEW t \in Sessions PROVE CalmBridge(t)'
    <2>1. CASE t = s
      BY <1>1, <2>1 DEF CalmBridge
    <2>2. CASE t # s
      BY <1>1, <2>2 DEF CalmInv, CalmBridge
    <2> QED BY <2>1, <2>2
  <1>3. ASSUME NEW o \in Ops, NEW t \in Sessions PROVE CalmJob(o, t)'
    <2>1. CASE t = s
      BY <2>1 DEF CalmJob
    <2>2. CASE job'[o][t] = NoJob
      BY <2>2, NoJobIs DEF CalmJob
    <2>3. CASE t # s /\ job'[o][t] = job[o][t] /\ req'[o] = req[o]
      BY <1>1, <2>3 DEF CalmInv, CalmJob
    <2> QED BY <2>1, <2>2, <2>3
  <1> QED BY <1>2, <1>3 DEF CalmInv

(* A terminal no request works on. *)
LEMMA FreeCalm ==
  ASSUME CalmInv, NEW s \in Sessions, \A o \in Ops : ~Active(o, s), UNCHANGED <<req, job>>
  PROVE  \A o \in Ops : job'[o][s].pc \in {"none", "queued"} /\ (job'[o][s].ok => job'[o][s].pc = "none" /\ req'[o] = "report")
BY DEF CalmInv, CalmJob, Active

LEMMA StartsCalm ==
  ASSUME ConstantsOK, Faults = {}, TypeOK, HistoryInv, Ordered, CalmInv, NEW s \in Sessions,
         Create(s) \/ Attach(s) \/ ReopenStarted(s)
  PROVE  CalmInv'
PROOF
  <1>0. NewMs \in Ms /\ bridge \in Bridges /\ ms[s] \in Ms
    BY NewMsType DEF TypeOK, WorldTypes, DeckTypes
  <1>1. CASE Create(s)
    <2>1. /\ listed' = listed \cup {s} /\ s \notin listed /\ spawned[s] = 0
          /\ Spawn(s, NewMs, bridge, FALSE, FALSE) /\ req' = req /\ job' = job
      BY <1>1 DEF Create, reqvars
    <2>2. \A o \in Ops : ~Active(o, s)
      BY <2>1 DEF Ordered, JobsInv, Fits
    <2>3. \A o \in Ops : job'[o][s].pc \in {"none", "queued"} /\ (job'[o][s].ok => job'[o][s].pc = "none" /\ req'[o] = "report")
      BY <2>1, <2>2, FreeCalm
    <2> QED BY <1>0, <2>1, <2>3, StartCalm
  <1>2. CASE Attach(s)
    <2>1. listed' = listed /\ Admitted(s) /\ Spawn(s, ms[s], bridge, TRUE, s \in bound) /\ req' = req /\ job' = job
      BY <1>2 DEF Attach, reqvars
    <2>2. \A o \in Ops : ~Active(o, s)
      BY <2>1, AdmittedIs, CalmIs DEF Ordered
    <2>3. \A o \in Ops : job'[o][s].pc \in {"none", "queued"} /\ (job'[o][s].ok => job'[o][s].pc = "none" /\ req'[o] = "report")
      BY <2>1, <2>2, FreeCalm
    <2> QED BY <1>0, <2>1, <2>3, StartCalm
  <1>3. CASE ReopenStarted(s)
    <2>1. /\ listed' = listed \cup {s} /\ loop = <<"reopen", s>> /\ Spawn(s, NewMs, bridge, TRUE, s \in bound)
          /\ req' = req /\ job' = [o \in Ops |-> [job[o] EXCEPT ![s].gone = (job[o][s].pc # "none")]]
      BY <1>3 DEF ReopenStarted
    <2>2. \A o \in Ops : ~Active(o, s) /\ ~job[o][s].gone
      BY <2>1 DEF Ordered, JobsInv, Fits
    <2>3. \A o \in Ops : job[o] \in [Sessions -> Job] /\ job[o][s] \in Job
      BY JobOf
    <2>4. \A o \in Ops : job'[o][s] = [job[o][s] EXCEPT !.gone = FALSE]
      BY <2>1, <2>2, <2>3 DEF Active
    <2>5. \A o \in Ops : job'[o][s].pc = job[o][s].pc /\ job'[o][s].ok = job[o][s].ok
      <3>1. \A j \in Job : [j EXCEPT !.gone = FALSE].pc = j.pc /\ [j EXCEPT !.gone = FALSE].ok = j.ok
        BY DEF Job
      <3> QED BY <2>3, <2>4, <3>1
    <2>6. \A o \in Ops : job'[o][s].pc \in {"none", "queued"} /\ (job'[o][s].ok => job'[o][s].pc = "none" /\ req'[o] = "report")
      BY <2>1, <2>2, <2>5 DEF CalmInv, CalmJob, Active
    <2>7. \A o \in Ops, t \in Sessions \ {s} : job'[o][t] = job[o][t] /\ req'[o] = req[o]
      BY <2>1, <2>3
    <2>8. Spawn(s, NewMs, bridge, TRUE, s \in bound) /\ \A t \in Sessions \ {s} : t \in listed' <=> t \in listed
      BY <2>1
    <2> QED BY <1>0, <2>6, <2>7, <2>8, StartCalm
  <1> QED BY <1>1, <1>2, <1>3

LEMMA UserCalm ==
  ASSUME ConstantsOK, Faults = {}, TypeOK, Ordered, CalmInv, NEW s \in Sessions,
         Reopen(s) \/ Purge(s) \/ CreateSaved(s) \/ DeleteSaved(s) \/ Bind(s)
  PROVE  CalmInv'
PROOF
  <1>1. UNCHANGED <<listed, ms, masters, doomed, bridge, on, req, job>>
    BY DEF Reopen, Purge, CreateSaved, DeleteSaved, Bind, osvars, reqvars
  <1> QED BY <1>1, CalmQuiet

(* A tree ends, or a bridge whose tree is dead. *)
LEMMA ProcessCalm ==
  ASSUME ConstantsOK, Faults = {}, TypeOK, Ordered, CalmInv, NEW s \in Sessions, NEW n \in Spawns,
         MasterDies(s, n) \/ ClientExits(s, n)
  PROVE  CalmInv'
PROOF
  <1>1. CASE MasterDies(s, n)
    <2>1. /\ UNCHANGED <<listed, ms, bridge, on, req, job>>
          /\ n \in masters[s] /\ masters' = [masters EXCEPT ![s] = masters[s] \ {n}]
          /\ doomed' = [doomed EXCEPT ![s] = doomed[s] \ {n}]
      BY <1>1 DEF MasterDies, deckvars, reqvars
    <2>2. masters \in [Sessions -> SUBSET Spawns] /\ doomed \in [Sessions -> SUBSET Spawns]
      BY DEF TypeOK, WorldTypes
    <2>3. masters[s] = {n}
      BY <2>1 DEF Ordered, TreesInv
    <2>4. masters'[s] = {} /\ \A t \in Sessions \ {s} : masters'[t] = masters[t] /\ doomed'[t] = doomed[t]
      BY <2>1, <2>2, <2>3
    <2> QED BY <2>1, <2>4, CalmQuiet
  <1>2. CASE ClientExits(s, n)
    <2>1. /\ UNCHANGED <<listed, ms, masters, doomed, on, req, job>>
          /\ bridge' = [bridge EXCEPT ![s][n] = "down"]
          /\ on[s][n] \notin masters[s] \/ HungUp(s, n)
      BY <1>2, CalmIs DEF ClientExits, deckvars, reqvars
    <2>2. bridge \in [Sessions -> [Spawns -> {"unborn", "up", "down", "closed"}]] /\ ms \in [Sessions -> Ms]
      BY DEF TypeOK, DeckTypes, WorldTypes, Bridges
    <2>3. CASE masters[s] = {}
      <3>1. \A t \in Sessions \ {s} : bridge'[t] = bridge[t]
        BY <2>1, <2>2
      <3> QED BY <2>1, <2>3, <3>1, CalmQuiet
    <2>4. CASE masters[s] # {}
      <3>1. ~HungUp(s, n)
        <4>1. \A o \in Ops : job[o][s].pc = "hangup" => Killed(o, s)
          BY DEF CalmInv, CalmJob, Killed
        <4> QED BY <2>4, <4>1 DEF HungUp, Ordered, JobsInv, Fits
      <3>2. ms[s].proc # n
        BY <2>1, <2>4, <3>1 DEF CalmInv, CalmBridge, Spawns, NoProc
      <3>3. ASSUME NEW t \in Sessions, ms[t].proc # NoProc
            PROVE  bridge'[t][ms[t].proc] = bridge[t][ms[t].proc]
        <4>1. ms[t].proc \in Spawns
          BY <2>2, <3>3 DEF Ms, Spawns, NoProc
        <4> QED BY <2>1, <2>2, <3>2, <4>1
      <3> QED BY <2>1, <3>3, CalmQuiet
    <2> QED BY <2>3, <2>4
  <1> QED BY <1>1, <1>2

LEMMA BridgeCalm ==
  ASSUME ConstantsOK, Faults = {}, TypeOK, Ordered, CalmInv, NEW s \in Sessions, NEW b \in Spawns, BridgeExits(s, b)
  PROVE  CalmInv'
PROOF
  <1> DEFINE closing == [bridge EXCEPT ![s][b] = "closed"]
             m == [ms[s] EXCEPT !.proc = NoProc, !.fallback = TRUE]
  <1>1. UNCHANGED <<listed, req, job>> /\ bridge[s][b] = "down"
    BY DEF BridgeExits, reqvars
  <1>2. /\ bridge \in [Sessions -> [Spawns -> {"unborn", "up", "down", "closed"}]] /\ ms \in [Sessions -> Ms]
        /\ closing \in Bridges /\ \A t \in Sessions \ {s} : closing[t] = bridge[t]
        /\ \A c \in Spawns \ {b} : closing[s][c] = bridge[s][c]
    BY DEF TypeOK, DeckTypes, WorldTypes, Bridges
  <1>3. CASE ms[s].proc # b /\ bridge' = closing /\ UNCHANGED <<ms, masters, doomed, on>>
    <2> HIDE DEF closing
    <2>1. ASSUME NEW t \in Sessions, ms[t].proc # NoProc
          PROVE  bridge'[t][ms[t].proc] = bridge[t][ms[t].proc]
      <3>1. ms[t].proc \in Spawns
        BY <1>2, <2>1 DEF Ms, Spawns, NoProc
      <3> QED BY <1>2, <1>3, <3>1
    <2> QED BY <1>1, <1>3, <2>1, CalmQuiet
  <1>4. CASE /\ ms[s].proc = b /\ bridge' = closing /\ UNCHANGED <<masters, doomed, on>>
             /\ \E d \in BOOLEAN : ms' = [ms EXCEPT ![s].proc = NoProc, ![s].detached = d]
    <2> HIDE DEF closing
    <2>1. masters[s] = {}
      BY <1>1, <1>4 DEF CalmInv, CalmBridge, Spawns, NoProc
    <2>2. \A t \in Sessions \ {s} : ms'[t] = ms[t] /\ bridge'[t] = bridge[t]
      BY <1>2, <1>4
    <2>3. listed' = listed /\ masters' = masters /\ doomed' = doomed /\ on' = on
      BY <1>1, <1>4
    <2>4. masters'[s] = {} /\ \A t \in Sessions \ {s} : CalmBridge(t)'
      BY <2>1, <2>2, <2>3 DEF CalmInv, CalmBridge
    <2> QED BY <1>1, <2>3, <2>4, CalmStep
  <1>5. CASE /\ Spawn(s, m, closing, TRUE, FALSE) /\ \A o \in Ops : ~Working(o, s)
    <2>1. m \in Ms
      <3>1. ms[s] \in Ms /\ TRUE \in BOOLEAN
        BY <1>2
      <3> QED BY <3>1, MsTypes
    <2>2. \A o \in Ops : ~Active(o, s)
      BY <1>5, AdmittedIs, CalmIs DEF Ordered
    <2>3. \A o \in Ops : job'[o][s].pc \in {"none", "queued"} /\ (job'[o][s].ok => job'[o][s].pc = "none" /\ req'[o] = "report")
      BY <1>1, <2>2, FreeCalm
    <2>4. Spawn(s, m, closing, TRUE, FALSE)
      BY <1>5
    <2> HIDE DEF closing, m
    <2> QED BY <1>1, <1>2, <2>1, <2>3, <2>4, StartCalm
  <1>6. \A answers \in LsofAnswers : (answers /\ SocketLive(s)) \in BOOLEAN
    BY DEF SocketLive, LsofAnswers
  <1> QED BY <1>3, <1>4, <1>5, <1>6, CalmIs DEF BridgeExits

(* A step of requests that attaches and detaches nothing. *)
LEMMA RequestCalm ==
  ASSUME CalmInv, UNCHANGED <<masters, bridge, on>>,
         \A s \in Sessions : doomed[s] \subseteq doomed'[s],
         \A s \in Sessions :
           \/ masters[s] = {}
           \/ s \notin listed'
           \/ s \in listed /\ ms'[s].proc = ms[s].proc /\ (ms[s].lazy => ms'[s].lazy),
         \A s \in Sessions : masters[s] # {} => ms'[s].proc = ms[s].proc,
         \A o \in Ops, s \in Sessions : (job'[o][s] = job[o][s] /\ req'[o] = req[o]) \/ CalmJob(o, s)'
  PROVE  CalmInv'
PROOF
  <1>1. ASSUME NEW s \in Sessions PROVE CalmBridge(s)'
    BY DEF CalmInv, CalmBridge
  <1>2. ASSUME NEW o \in Ops, NEW s \in Sessions PROVE CalmJob(o, s)'
    BY DEF CalmInv, CalmJob
  <1> QED BY <1>1, <1>2 DEF CalmInv

LEMMA FreshCalm ==
  ASSUME NEW o \in Ops, NEW s \in Sessions,
         job'[o][s].pc \in {"none", "queued", "scan"}, job'[o][s].ok => job'[o][s].pc = "none" /\ req'[o] = "report"
  PROVE  CalmJob(o, s)'
BY DEF CalmJob

LEMMA FreshIs ==
  /\ ~NoJob.ok /\ ~StartJob.ok /\ ~[NoJob EXCEPT !.pc = "queued"].ok
  /\ \A b \in BOOLEAN : ~[StartJob EXCEPT !.gone = b].ok
BY DEF NoJob, StartJob

LEMMA BeginsCalm ==
  ASSUME ConstantsOK, Faults = {}, TypeOK, Ordered, CalmInv, NEW o \in Ops, NEW s \in Sessions,
         RequestBegins(o, s)
  PROVE  CalmInv'
PROOF
  <1>1. PICK kind : Begin(o, kind, {s})
    BY DEF RequestBegins, StopBegins, RestartBegins, DeleteBegins, FinishBegins
  <1>2. UNCHANGED <<listed, masters, doomed, bridge, on>>
    BY <1>1 DEF Begin, osvars
  <1>3. ms' = ms \/ ms' = [ms EXCEPT ![s].lazy = TRUE]
    BY DEF RequestBegins, StopBegins, RestartBegins, DeleteBegins, FinishBegins
  <1>4. \A t \in Sessions : ms'[t].proc = ms[t].proc /\ (ms[t].lazy => ms'[t].lazy)
    BY <1>3 DEF TypeOK, DeckTypes, Ms
  <1>5. \A t \in Sessions : CalmJob(o, t)'
    BY <1>1, BeginIs, NoJobIs, FreshIs, FreshCalm
  <1>6. \A p \in Ops, t \in Sessions : (job'[p][t] = job[p][t] /\ req'[p] = req[p]) \/ CalmJob(p, t)'
    BY <1>1, <1>5, BeginIs
  <1>7. \A t \in Sessions : t \notin listed' \/ t \in listed
    BY <1>2
  <1> QED BY <1>2, <1>4, <1>6, <1>7, RequestCalm

LEMMA SweepsCalm ==
  ASSUME ConstantsOK, Faults = {}, TypeOK, Ordered, CalmInv, NEW o \in Ops,
         SweepBegins(o) \/ ReportSampled(o) \/ ReportApplied(o)
  PROVE  CalmInv'
PROOF
  <1>1. UNCHANGED <<listed, masters, doomed, bridge, on>>
    BY DEF SweepBegins, KillAllBegins, KillStaleBegins, ReclaimBegins, Begin, ReportSampled, ReportApplied,
           osvars, deckvars
  <1>2. ms \in [Sessions -> Ms] /\ req \in [Ops -> Reqs] /\ job \in [Ops -> [Sessions -> Job]]
    BY DEF TypeOK, DeckTypes, RequestTypes
  <1>3. \A t \in Sessions : ms'[t].proc = ms[t].proc /\ (ms[t].lazy => ms'[t].lazy)
    <2>1. CASE KillAllBegins(o)
      <3>1. \A t \in Sessions : ms'[t] = ms[t] \/ ms'[t] = [ms[t] EXCEPT !.lazy = TRUE]
        BY <2>1 DEF KillAllBegins
      <3>2. \A t \in Sessions : [ms[t] EXCEPT !.lazy = TRUE].lazy /\ [ms[t] EXCEPT !.lazy = TRUE].proc = ms[t].proc
        BY <1>2 DEF Ms
      <3> QED BY <3>1, <3>2
    <2>2. CASE KillStaleBegins(o)
      <3>1. \E first : ms' = [ms EXCEPT ![first].lazy = TRUE]
        BY <2>2 DEF KillStaleBegins
      <3> QED BY <1>2, <3>1 DEF Ms
    <2>3. CASE ReportApplied(o)
      <3> SUFFICES ASSUME NEW t \in Sessions
                   PROVE  ms'[t].proc = ms[t].proc /\ (ms[t].lazy => ms'[t].lazy)
        OBVIOUS
      <3>1. PICK b \in BOOLEAN : ms'[t] = ms[t] \/ ms'[t] = [ms[t] EXCEPT !.detached = b]
        BY <2>3, JobOf DEF ReportApplied, Job
      <3>2. ms[t] \in Ms
        BY <1>2
      <3> QED BY <3>1, <3>2 DEF Ms
    <2>4. CASE ms' = ms
      BY <2>4
    <2> QED BY <2>1, <2>2, <2>3, <2>4 DEF SweepBegins, ReclaimBegins, ReportSampled, deckvars
  <1>4. PICK jobs, kind : /\ job' = [job EXCEPT ![o] = jobs] /\ req' = [req EXCEPT ![o] = kind]
                          /\ \A t \in Sessions : /\ jobs[t].pc \in {"none", "queued", "scan"}
                                                 /\ jobs[t].ok => jobs[t].pc = "none" /\ kind = "report"
    <2>1. CASE KillAllBegins(o)
      <3> DEFINE targets == {s \in listed : Running(s)}
                 jobs == [s \in Sessions |-> IF s \in targets THEN StartJob ELSE NoJob]
      <3>1. job' = [job EXCEPT ![o] = jobs] /\ req' = [req EXCEPT ![o] = "killall"]
        BY <2>1 DEF KillAllBegins, Begin
      <3>2. \A t \in Sessions : jobs[t].pc \in {"none", "queued", "scan"} /\ ~jobs[t].ok
        BY NoJobIs
      <3> HIDE DEF jobs
      <3> QED BY <3>1, <3>2
    <2>2. CASE KillStaleBegins(o)
      <3>1. PICK targets \in SUBSET {s \in listed : Running(s)}, first \in Sessions :
              /\ first \in targets
              /\ \A s \in targets : Admitted(s)
              /\ req' = [req EXCEPT ![o] = "killstale"]
              /\ job' = [job EXCEPT ![o] = [s \in Sessions |->
                           IF s = first THEN StartJob
                           ELSE IF s \in targets THEN [NoJob EXCEPT !.pc = "queued"] ELSE NoJob]]
              /\ ms' = [ms EXCEPT ![first].lazy = TRUE]
        BY <2>2 DEF KillStaleBegins, TypeOK, DeckTypes
      <3> DEFINE jobs == [s \in Sessions |->
                   IF s = first THEN StartJob
                   ELSE IF s \in targets THEN [NoJob EXCEPT !.pc = "queued"] ELSE NoJob]
      <3>2. job' = [job EXCEPT ![o] = jobs] /\ req' = [req EXCEPT ![o] = "killstale"]
        BY <3>1
      <3>3. \A t \in Sessions : jobs[t].pc \in {"none", "queued", "scan"} /\ ~jobs[t].ok
        BY NoJobIs, QueuedIs, FreshIs
      <3> HIDE DEF jobs
      <3> QED BY <3>2, <3>3
    <2>3. CASE ReclaimBegins(o)
      <3> DEFINE jobs == [s \in Sessions |->
                   IF s \in {t \in Sessions : linked[t] # 0} THEN [NoJob EXCEPT !.pc = "queued"] ELSE NoJob]
      <3>1. job' = [job EXCEPT ![o] = jobs] /\ req' = [req EXCEPT ![o] = "reclaim"]
        BY <2>3 DEF ReclaimBegins
      <3>2. \A t \in Sessions : jobs[t].pc \in {"none", "queued", "scan"} /\ ~jobs[t].ok
        BY NoJobIs, QueuedIs, FreshIs
      <3> HIDE DEF jobs
      <3> QED BY <3>1, <3>2
    <2>4. CASE ReportSampled(o)
      <3>0. PICK answers \in LsofAnswers :
              job' = [job EXCEPT ![o] = [s \in Sessions |-> [NoJob EXCEPT !.ok = (answers /\ masters[s] # {})]]]
        BY <2>4 DEF ReportSampled
      <3> DEFINE jobs == [s \in Sessions |-> [NoJob EXCEPT !.ok = (answers /\ masters[s] # {})]]
      <3>1. job' = [job EXCEPT ![o] = jobs] /\ req' = [req EXCEPT ![o] = "report"]
        BY <2>4, <3>0 DEF ReportSampled
      <3>2. \A t \in Sessions : jobs[t].pc = "none"
        BY QueuedIs
      <3> HIDE DEF jobs
      <3> QED BY <3>1, <3>2
    <2>5. CASE ReportApplied(o)
      <3>1. job' = [job EXCEPT ![o] = NoJobs] /\ req' = [req EXCEPT ![o] = "idle"]
        BY <2>5 DEF ReportApplied, Finished
      <3>2. \A t \in Sessions : NoJobs[t].pc = "none" /\ ~NoJobs[t].ok
        BY NoJobIs DEF NoJobs
      <3> QED BY <3>1, <3>2
    <2> QED BY <2>1, <2>2, <2>3, <2>4, <2>5 DEF SweepBegins
  <1>5. \A p \in Ops, t \in Sessions : p # o => job'[p][t] = job[p][t] /\ req'[p] = req[p]
    BY <1>2, <1>4
  <1>6. \A t \in Sessions : CalmJob(o, t)'
    <2>1. job'[o] = jobs /\ req'[o] = kind
      BY <1>2, <1>4
    <2> QED BY <1>4, <2>1, FreshCalm
  <1>7. \A t \in Sessions : t \notin listed' \/ t \in listed
    BY <1>1
  <1> QED BY <1>1, <1>3, <1>5, <1>6, <1>7, RequestCalm

(* A step of _terminate_proc. *)
LEMMA CoroutineCalm ==
  ASSUME CalmInv, TypeOK, NEW o \in Ops, NEW s \in Sessions, NEW j, SetJob(o, s, j), req' = req,
         UNCHANGED <<listed, masters, bridge, on>>,
         \A t \in Sessions : doomed[t] \subseteq doomed'[t],
         \A t \in Sessions : ms'[t].proc = ms[t].proc /\ ms'[t].lazy = ms[t].lazy,
         j.pc = "poll" => masters[s] \subseteq doomed'[s],
         j.pc = "sweep" => masters[s] = {},
         j.pc \in {"swept", "hangup", "done"} => j.ok,
         j.ok => j.pc \in {"swept", "hangup", "done"}
  PROVE  CalmInv'
PROOF
  <1>1. \A p \in Ops, t \in Sessions : job'[p][t] = IF p = o /\ t = s THEN j ELSE job[p][t]
    BY SetJobIs
  <1>2. CalmJob(o, s)'
    BY <1>1 DEF CalmJob
  <1>3. \A p \in Ops, t \in Sessions : (job'[p][t] = job[p][t] /\ req'[p] = req[p]) \/ CalmJob(p, t)'
    BY <1>1, <1>2
  <1>4. \A t \in Sessions : t \notin listed' \/ (t \in listed /\ (ms[t].lazy => ms'[t].lazy))
    OBVIOUS
  <1> QED BY <1>3, <1>4, RequestCalm

LEMMA TerminateCalm ==
  ASSUME ConstantsOK, Faults = {}, TypeOK, Ordered, CalmInv, NEW o \in Ops, NEW s \in Sessions, TerminateSteps(o, s)
  PROVE  CalmInv'
PROOF
  <1> DEFINE j == job[o][s]
  <1>1. j \in Job /\ CalmJob(o, s)
    BY JobOf DEF CalmInv
  <1>2. req' = req /\ UNCHANGED <<listed, masters, bridge, on>>
    <2>1. CASE Scan(o, s) \/ PollGone(o, s) \/ PollsExhausted(o, s) \/ SweepSampled(o, s)
      BY <2>1 DEF Scan, PollGone, PollsExhausted, SweepSampled, deckvars, osvars
    <2>2. CASE Swept(o, s)
      BY <2>2 DEF Swept
    <2>3. CASE HangupSeen(o, s)
      BY <2>3 DEF HangupSeen, deckvars, osvars
    <2> QED BY <2>1, <2>2, <2>3 DEF TerminateSteps
  <1>3. ms \in [Sessions -> Ms] /\ doomed \in [Sessions -> SUBSET Spawns] /\ \A t \in Sessions : doomed[t] \subseteq doomed[t]
    BY DEF TypeOK, DeckTypes, WorldTypes
  <1>4. Holders(s) = {masters[s]}
    BY CalmIs, OrderlyIs
  <1>5. CASE Scan(o, s)
    <2> DEFINE k == [j EXCEPT !.pc = IF masters[s] = {} THEN "sweep" ELSE "poll"]
    <2>1. SetJob(o, s, k) /\ doomed' = [doomed EXCEPT ![s] = doomed[s] \cup masters[s]] /\ ms' = ms /\ j.pc = "scan"
      <3>1. PICK seen \in Holders(s) : /\ SetJob(o, s, [j EXCEPT !.pc = IF seen = {} THEN "sweep" ELSE "poll"])
                                       /\ doomed' = [doomed EXCEPT ![s] = doomed[s] \cup seen]
        BY <1>5 DEF Scan
      <3>2. seen = masters[s]
        BY <1>4
      <3> QED BY <1>5, <3>1, <3>2 DEF Scan, deckvars
    <2>2. ~j.ok
      BY <1>1, <2>1 DEF CalmJob
    <2>3. k.pc = (IF masters[s] = {} THEN "sweep" ELSE "poll") /\ ~k.ok
      BY <1>1, <2>2 DEF Job
    <2>4. masters[s] \subseteq doomed'[s] /\ \A t \in Sessions : doomed[t] \subseteq doomed'[t]
      BY <1>3, <2>1
    <2> HIDE DEF j, k
    <2> QED BY <1>2, <2>1, <2>3, <2>4, CoroutineCalm
  <1>6. CASE PollGone(o, s)
    <2> DEFINE k == [j EXCEPT !.pc = "sweep"]
    <2>1. SetJob(o, s, k) /\ ms' = ms /\ doomed' = doomed /\ j.pc = "poll"
      BY <1>6 DEF PollGone, deckvars, osvars
    <2>2. masters[s] = {}
      BY <1>4, <1>6 DEF PollGone
    <2>3. k.pc = "sweep" /\ ~k.ok
      BY <1>1, <2>1 DEF Job, CalmJob
    <2> HIDE DEF j, k
    <2> QED BY <1>2, <2>1, <2>2, <2>3, CoroutineCalm
  <1>7. CASE PollsExhausted(o, s)
    <2> DEFINE k == [j EXCEPT !.pc = "scan", !.sig = "kill"]
    <2>1. ms' = ms /\ doomed' = doomed /\ j.pc = "poll"
      BY <1>7 DEF PollsExhausted, deckvars, osvars
    <2>2. SetJob(o, s, k)
      BY <1>1, <1>7, <2>1, CalmIs DEF PollsExhausted, CalmJob
    <2>3. k.pc = "scan" /\ ~k.ok
      BY <1>1, <2>1 DEF Job, CalmJob
    <2> HIDE DEF j, k
    <2> QED BY <1>2, <2>1, <2>2, <2>3, CoroutineCalm
  <1>8. CASE SweepSampled(o, s)
    <2> DEFINE k == [j EXCEPT !.pc = "swept", !.ok = TRUE]
    <2>1. ms' = ms /\ doomed' = doomed /\ j.pc = "sweep"
      BY <1>8 DEF SweepSampled, deckvars, osvars
    <2>2. SetJob(o, s, k)
      <3>1. PICK seen \in Holders(s) : SetJob(o, s, [j EXCEPT !.pc = "swept", !.ok = (seen = {})])
        BY <1>8 DEF SweepSampled
      <3>2. seen = {}
        BY <1>1, <1>4, <2>1 DEF CalmJob
      <3>3. (seen = {}) = TRUE
        BY <3>2
      <3> QED BY <3>1, <3>3
    <2>3. k.pc = "swept" /\ k.ok
      BY <1>1 DEF Job
    <2> HIDE DEF j, k
    <2> QED BY <1>2, <2>1, <2>2, <2>3, CoroutineCalm
  <1>9. CASE Swept(o, s)
    <2>1. /\ doomed' = doomed /\ j.pc = "swept"
          /\ ms' = ms \/ ms' = [ms EXCEPT ![s].detached = ~j.ok]
      BY <1>9 DEF Swept
    <2>2. j.ok
      BY <1>1, <2>1 DEF CalmJob
    <2>3. \A t \in Sessions : ms'[t].proc = ms[t].proc /\ ms'[t].lazy = ms[t].lazy
      <3> HIDE DEF j
      <3> QED BY <1>3, <2>1 DEF Ms
    <2>4. PICK k : SetJob(o, s, k) /\ (k = [j EXCEPT !.pc = "done"] \/ k = [j EXCEPT !.pc = "hangup", !.proc = ms[s].proc])
      BY <1>9 DEF Swept
    <2>5. k.pc \in {"hangup", "done"} /\ k.ok
      <3> DEFINE n == ms[s].proc
      <3>1. k = [j EXCEPT !.pc = "done"] \/ k = [j EXCEPT !.pc = "hangup", !.proc = n]
        BY <2>4
      <3> HIDE DEF j, n
      <3>2. CASE k = [j EXCEPT !.pc = "done"]
        BY <1>1, <2>2, <3>2, JobStepIs
      <3>3. CASE k = [j EXCEPT !.pc = "hangup", !.proc = n]
        BY <1>1, <2>2, <3>3, JobStepIs
      <3> QED BY <3>1, <3>2, <3>3
    <2> HIDE DEF j
    <2> QED BY <1>2, <2>1, <2>3, <2>4, <2>5, CoroutineCalm
  <1>10. CASE HangupSeen(o, s)
    <2> DEFINE k == [j EXCEPT !.pc = "done"]
    <2>1. ms' = ms /\ doomed' = doomed /\ j.pc = "hangup"
      BY <1>10 DEF HangupSeen, deckvars, osvars
    <2>2. SetJob(o, s, k)
      BY <1>10, CalmIs DEF HangupSeen
    <2>3. k.pc = "done" /\ k.ok
      BY <1>1, <2>1, JobStepIs DEF CalmJob
    <2> HIDE DEF j, k
    <2> QED BY <1>2, <2>1, <2>2, <2>3, CoroutineCalm
  <1> QED BY <1>5, <1>6, <1>7, <1>8, <1>9, <1>10 DEF TerminateSteps

(* A request that ends. *)
LEMMA EndsCalm ==
  ASSUME TypeOK, CalmInv, NEW o \in Ops, Finished(o), UNCHANGED <<masters, doomed, bridge, on>>,
         \A s \in Sessions :
           \/ masters[s] = {}
           \/ s \notin listed' /\ ms'[s].proc = ms[s].proc
           \/ s \in listed /\ ms'[s].proc = ms[s].proc /\ (ms[s].lazy => ms'[s].lazy)
  PROVE  CalmInv'
PROOF
  <1>1. \A p \in Ops, t \in Sessions : p # o => job'[p][t] = job[p][t] /\ req'[p] = req[p]
    BY FinishedIs
  <1>2. \A t \in Sessions : job'[o][t] = NoJob
    BY FinishedIs
  <1>3. \A t \in Sessions : CalmJob(o, t)'
    BY <1>2, NoJobIs, FreshIs, FreshCalm
  <1>4. \A s \in Sessions : doomed[s] \subseteq doomed'[s]
    OBVIOUS
  <1>5. \A p \in Ops, t \in Sessions : (job'[p][t] = job[p][t] /\ req'[p] = req[p]) \/ CalmJob(p, t)'
    BY <1>1, <1>3
  <1> QED BY <1>4, <1>5, RequestCalm

LEMMA StopCalm ==
  ASSUME ConstantsOK, Faults = {}, TypeOK, Ordered, CalmInv, NEW o \in Ops, NEW s \in Sessions,
         StopEnds(o, s) \/ DeleteEnds(o, s) \/ FinishEnds(o, s)
  PROVE  CalmInv'
PROOF
  <1>1. PICK kind \in {"stop", "delete", "finish"} : Done(o, s, kind)
    BY DEF StopEnds, DeleteEnds, FinishEnds
  <1>2. s \in listed /\ job[o][s].ok /\ masters[s] = {}
    <2>1. job[o][s].ok
      BY <1>1 DEF Done, CalmInv, CalmJob
    <2> QED BY <1>1, <2>1, DoneIs
  <1>3. Finished(o) /\ UNCHANGED <<masters, doomed, bridge, on>>
    BY DEF StopEnds, DeleteEnds, FinishEnds, osvars
  <1>4. \A t \in Sessions \ {s} : ms'[t] = ms[t] /\ (t \in listed' <=> t \in listed)
    <2>1. CASE StopEnds(o, s)
      <3>1. listed' = listed /\ (ms' = ms \/ ms' = [ms EXCEPT ![s] = Cleared(s)])
        BY <1>2, <2>1 DEF StopEnds
      <3>2. ms \in [Sessions -> Ms]
        BY DEF TypeOK, DeckTypes
      <3> QED BY <3>1, <3>2
    <2>2. CASE DeleteEnds(o, s) \/ FinishEnds(o, s)
      BY <2>2 DEF DeleteEnds, FinishEnds
    <2> QED BY <2>1, <2>2
  <1> QED BY <1>2, <1>3, <1>4, EndsCalm

LEMMA KillAllCalm ==
  ASSUME ConstantsOK, Faults = {}, TypeOK, Ordered, CalmInv, NEW o \in Ops, KillAllEnds(o)
  PROVE  CalmInv'
PROOF
  <1>1. /\ req[o] = "killall" /\ Finished(o) /\ UNCHANGED <<listed, masters, doomed, bridge, on>>
        /\ \A s \in Sessions : ms'[s] = ms[s] \/ job[o][s].ok
    BY DEF KillAllEnds, osvars
  <1>2. \A s \in Sessions : job[o][s].ok => masters[s] = {}
    <2>1. \A s \in Sessions : job[o][s].ok => Killed(o, s)
      BY <1>1 DEF CalmInv, CalmJob, Killed
    <2> QED BY <2>1 DEF Ordered, JobsInv, Fits
  <1> QED BY <1>1, <1>2, EndsCalm

(* The second killing of a worktree's terminal. *)
LEMMA WorktreeCalm ==
  ASSUME ConstantsOK, Faults = {}, TypeOK, Ordered, CalmInv, NEW o \in Ops, NEW s \in Sessions, WorktreeChanged(o, s)
  PROVE  CalmInv'
PROOF
  <1>1. req[o] = "stopworktree" /\ UNCHANGED <<listed, ms, masters, doomed, bridge, on>>
    BY DEF WorktreeChanged, Done, deckvars, osvars
  <1>2. CASE Finished(o)
    BY <1>1, <1>2, EndsCalm
  <1>3. CASE req' = [req EXCEPT ![o] = "finish"] /\ SetJob(o, s, [StartJob EXCEPT !.gone = job[o][s].gone])
    <2>1. job[o][s].gone \in BOOLEAN
      BY JobOf DEF Job
    <2> DEFINE k == [StartJob EXCEPT !.gone = job[o][s].gone]
    <2>2. k.pc = "scan" /\ ~k.ok
      BY <2>1, FreshIs DEF StartJob, NoJob
    <2>3. SetJob(o, s, k)
      BY <1>3
    <2> HIDE DEF k
    <2>4. \A p \in Ops, t \in Sessions : job'[p][t] = IF p = o /\ t = s THEN k ELSE job[p][t]
      BY <2>3, SetJobIs
    <2>5. \A p \in Ops : p # o => req'[p] = req[p]
      BY <1>3
    <2>6. CalmJob(o, s)'
      BY <2>2, <2>4, FreshCalm
    <2>7. \A t \in Sessions \ {s} : CalmJob(o, t)'
      BY <1>1, <2>4 DEF CalmInv, CalmJob
    <2>8. \A p \in Ops, t \in Sessions : (job'[p][t] = job[p][t] /\ req'[p] = req[p]) \/ CalmJob(p, t)'
      BY <2>4, <2>5, <2>6, <2>7
    <2> QED BY <1>1, <2>8, RequestCalm
  <1> QED BY <1>2, <1>3 DEF WorktreeChanged

LEMMA StaleCalm ==
  ASSUME ConstantsOK, Faults = {}, TypeOK, Ordered, CalmInv, NEW o \in Ops, NEW s \in Sessions, StaleKilled(o, s)
  PROVE  CalmInv'
PROOF
  <1> DEFINE after == IF job[o][s].ok /\ ~job[o][s].gone THEN [ms EXCEPT ![s] = Cleared(s)] ELSE ms
  <1>1. Done(o, s, "killstale") /\ UNCHANGED <<listed, masters, doomed, bridge, on>>
    BY DEF StaleKilled, osvars
  <1>2. s \in listed /\ masters[s] = {}
    <2>1. job[o][s].ok
      BY <1>1 DEF Done, CalmInv, CalmJob
    <2> QED BY <1>1, <2>1, DoneIs
  <1>3. ms \in [Sessions -> Ms] /\ Cleared(s) \in Ms
    BY ClearedTypes DEF TypeOK, DeckTypes
  <1>4. after \in [Sessions -> Ms] /\ \A t \in Sessions \ {s} : after[t] = ms[t]
    BY <1>3
  <1>5. CASE Finished(o) /\ ms' = after
    <2> HIDE DEF after
    <2>1. \A t \in Sessions \ {s} : ms'[t] = ms[t]
      BY <1>4, <1>5
    <2> QED BY <1>1, <1>2, <1>5, <2>1, EndsCalm
  <1>6. ASSUME NEW t \in Sessions, req' = req, job[o][t].pc = "queued",
               job' = [job EXCEPT ![o][s] = NoJob, ![o][t] = [StartJob EXCEPT !.gone = job[o][t].gone]],
               ms' = after \/ ms' = [after EXCEPT ![t].lazy = TRUE]
        PROVE  CalmInv'
    <2> DEFINE k == [StartJob EXCEPT !.gone = job[o][t].gone]
    <2>1. job[o][t].gone \in BOOLEAN /\ job \in [Ops -> [Sessions -> Job]]
      BY JobOf DEF Job, TypeOK, RequestTypes
    <2>2. k.pc = "scan" /\ ~k.ok
      BY <2>1, FreshIs DEF StartJob, NoJob
    <2>3. job' = [job EXCEPT ![o][s] = NoJob, ![o][t] = k]
      BY <1>6
    <2> HIDE DEF k, after
    <2>4. \A p \in Ops, i \in Sessions :
            job'[p][i] = IF p = o /\ i = t THEN k ELSE IF p = o /\ i = s THEN NoJob ELSE job[p][i]
      BY <2>1, <2>3
    <2>5. CalmJob(o, t)'
      BY <2>2, <2>4, FreshCalm
    <2>6. s # t => CalmJob(o, s)'
      BY <2>4, NoJobIs, FreshIs, FreshCalm
    <2>7. ASSUME NEW p \in Ops, NEW i \in Sessions
          PROVE  (job'[p][i] = job[p][i] /\ req'[p] = req[p]) \/ CalmJob(p, i)'
      <3>1. CASE p = o /\ i \in {s, t}
        BY <2>5, <2>6, <3>1
      <3>2. CASE ~(p = o /\ i \in {s, t})
        <4>1. job'[p][i] = job[p][i]
          BY <2>4, <3>2
        <4>2. req'[p] = req[p]
          BY <1>6
        <4> QED BY <4>1, <4>2
      <3> QED BY <3>1, <3>2
    <2>8. \A i \in Sessions \ {s} : ms'[i].proc = ms[i].proc /\ (ms[i].lazy => ms'[i].lazy)
      BY <1>4, <1>6 DEF Ms
    <2> QED BY <1>1, <1>2, <2>7, <2>8, RequestCalm
  <1> QED BY <1>5, <1>6 DEF StaleKilled

LEMMA ReclaimCalm ==
  ASSUME ConstantsOK, Faults = {}, TypeOK, Ordered, CalmInv, NEW o \in Ops, NEW s \in Sessions,
         ReclaimNext(o, s) \/ ReclaimOne(o, s)
  PROVE  CalmInv'
PROOF
  <1>1. req' = req /\ UNCHANGED <<listed, ms, masters, doomed, bridge, on>>
    BY DEF ReclaimNext, ReclaimOne, deckvars, osvars
  <1>2. PICK k \in {NoJob, StartJob} : SetJob(o, s, k)
    BY DEF ReclaimNext, ReclaimOne
  <1>3. k.pc \in {"none", "scan"} /\ ~k.ok
    BY NoJobIs, FreshIs DEF NoJob, StartJob
  <1>4. \A p \in Ops, t \in Sessions : job'[p][t] = IF p = o /\ t = s THEN k ELSE job[p][t]
    BY <1>2, SetJobIs
  <1>5. CalmJob(o, s)'
    BY <1>3, <1>4, FreshCalm
  <1>6. \A p \in Ops, t \in Sessions : (job'[p][t] = job[p][t] /\ req'[p] = req[p]) \/ CalmJob(p, t)'
    BY <1>1, <1>4, <1>5
  <1> QED BY <1>1, <1>6, RequestCalm

LEMMA RestartCalm ==
  ASSUME ConstantsOK, Faults = {}, TypeOK, Ordered, CalmInv, NEW o \in Ops, NEW s \in Sessions, RestartEnds(o, s)
  PROVE  CalmInv'
PROOF
  <1>1. Done(o, s, "restart") /\ Finished(o) /\ listed' = listed
    BY DEF RestartEnds
  <1>2. CASE UNCHANGED <<ms, osvars>>
    <2>1. UNCHANGED <<ms, masters, doomed, bridge, on>>
      BY <1>2 DEF osvars
    <2> QED BY <1>1, <2>1, EndsCalm
  <1>3. CASE Spawn(s, ms[s], bridge, TRUE, s \in bound)
    <2>1. ms[s] \in Ms /\ bridge \in Bridges
      BY DEF TypeOK, DeckTypes, WorldTypes
    <2>2. \A p \in Ops : p # o /\ Active(p, s) => job[p][s].pc = "queued"
      BY <1>1, DoneIs
    <2>3. /\ \A p \in Ops, t \in Sessions : job'[p][t] = IF p = o THEN NoJob ELSE job[p][t]
          /\ \A p \in Ops : req'[p] = IF p = o THEN "idle" ELSE req[p]
      BY <1>1, FinishedIs
    <2>4. ASSUME NEW p \in Ops
          PROVE  job'[p][s].pc \in {"none", "queued"} /\ (job'[p][s].ok => job'[p][s].pc = "none" /\ req'[p] = "report")
      <3>1. CASE p = o
        BY <2>3, <3>1, NoJobIs, FreshIs
      <3>2. CASE p # o
        <4>1. job[p][s].pc \in {"none", "queued"}
          BY <2>2, <3>2, JobOf DEF Active, Ordered, JobsInv, Fits
        <4> QED BY <2>3, <3>2, <4>1 DEF CalmInv, CalmJob
      <3> QED BY <3>1, <3>2
    <2>5. \A p \in Ops, t \in Sessions \ {s} : (job'[p][t] = job[p][t] /\ req'[p] = req[p]) \/ job'[p][t] = NoJob
      BY <2>3
    <2> QED BY <1>1, <1>3, <2>1, <2>4, <2>5, StartCalm
  <1>4. ~job[o][s].gone
    BY <1>1, DoneIs
  <1> QED BY <1>2, <1>3, <1>4 DEF RestartEnds

(* The server comes back to a deck whose terminals are all to be opened. *)
LEMMA ServerCalm ==
  ASSUME ConstantsOK, Faults = {}, TypeOK, CalmInv, ServerStops \/ ServerStarts
  PROVE  CalmInv'
PROOF
  <1>1. CASE ServerStops
    <2>1. listed' = {} /\ ms' = [s \in Sessions |-> NewMs] /\ job' = [o \in Ops |-> NoJobs] /\ masters' = masters
      BY <1>1 DEF ServerStops
    <2>2. \A s \in Sessions : CalmBridge(s)'
      BY <2>1 DEF CalmBridge, NewMs
    <2>3. \A o \in Ops, s \in Sessions : job'[o][s] = NoJob
      BY <2>1 DEF NoJobs
    <2>4. \A o \in Ops, s \in Sessions : CalmJob(o, s)'
      BY <2>3, NoJobIs, FreshIs, FreshCalm
    <2> QED BY <2>2, <2>4 DEF CalmInv
  <1>2. CASE ServerStarts
    <2>1. listed' = disk /\ UNCHANGED <<masters, doomed, req, job>>
      BY <1>2 DEF ServerStarts, reqvars
    <2>2. ASSUME NEW s \in Sessions PROVE ms'[s].proc = NoProc /\ (s \in disk => ms'[s].lazy)
      <3>1. ASSUME NEW b \in BOOLEAN
            PROVE  /\ [NewMs EXCEPT !.lazy = TRUE, !.detached = b].proc = NoProc /\ NewMs.proc = NoProc
                   /\ [NewMs EXCEPT !.lazy = TRUE, !.detached = b].lazy
        BY DEF NewMs
      <3>2. (ms'[s] = NewMs /\ s \notin disk) \/ \E b \in BOOLEAN : ms'[s] = [NewMs EXCEPT !.lazy = TRUE, !.detached = b]
        BY <1>2 DEF ServerStarts, LsofAnswers
      <3> QED BY <3>1, <3>2
    <2>3. \A s \in Sessions : CalmBridge(s)'
      BY <2>1, <2>2 DEF CalmBridge
    <2>4. \A o \in Ops, s \in Sessions : CalmJob(o, s)'
      BY <2>1 DEF CalmInv, CalmJob
    <2> QED BY <2>3, <2>4 DEF CalmInv
  <1> QED BY <1>1, <1>2

LEMMA CalmOneStep ==
  ASSUME ConstantsOK, Faults = {}, TypeOK, HistoryInv, Ordered, CalmInv, [Next]_vars
  PROVE  CalmInv'
PROOF
  <1>1. ASSUME NEW s \in Sessions, UserSteps(s) \/ SaveSteps(s) \/ Bind(s)
        PROVE  CalmInv'
    BY <1>1, StartsCalm, UserCalm DEF UserSteps, SaveSteps
  <1>2. ASSUME NEW s \in Sessions, NEW n \in Spawns, MasterDies(s, n) \/ ClientExits(s, n) \/ BridgeExits(s, n)
        PROVE  CalmInv'
    BY <1>2, ProcessCalm, BridgeCalm
  <1>3. ASSUME NEW o \in Ops, NEW s \in Sessions, RequestBegins(o, s) \/ TerminateSteps(o, s)
        PROVE  CalmInv'
    BY <1>3, BeginsCalm, TerminateCalm
  <1>4. ASSUME NEW o \in Ops, NEW s \in Sessions, RequestEnds(o, s)
        PROVE  CalmInv'
    BY <1>4, StopCalm, RestartCalm, WorktreeCalm, StaleCalm, ReclaimCalm DEF RequestEnds
  <1>5. ASSUME NEW o \in Ops, SweepBegins(o) \/ ReportSampled(o) \/ SweepEnds(o)
        PROVE  CalmInv'
    BY <1>5, SweepsCalm, KillAllCalm DEF SweepEnds
  <1>6. CASE ServerStops \/ ServerStarts
    BY <1>6, ServerCalm
  <1>7. CASE UNCHANGED vars
    <2>1. UNCHANGED <<listed, ms, masters, doomed, bridge, on, req, job>>
      BY <1>7 DEF vars, deckvars, osvars, reqvars
    <2> QED BY <2>1, CalmQuiet
  <1> QED BY <1>1, <1>2, <1>3, <1>4, <1>5, <1>6, <1>7 DEF Next

LEMMA CalmInit == Init => CalmInv
PROOF
  <1> SUFFICES ASSUME Init PROVE CalmInv
    OBVIOUS
  <1>1. \A o \in Ops, s \in Sessions : job[o][s].pc = "none" /\ ~job[o][s].ok
    <2>1. \A o \in Ops, s \in Sessions : job[o][s] = NoJob
      BY DEF Init, NoJobs
    <2> QED BY <2>1, NoJobIs, FreshIs
  <1>2. \A s \in Sessions : masters[s] = {}
    BY DEF Init
  <1> QED BY <1>1, <1>2 DEF CalmInv, CalmJob, CalmBridge

(* In an environment without faults, whoever opens a terminal whose tree lives
   gets a bridge to it: the terminal has one, or attach_client makes one, and
   neither _handle_exit nor a stop or a sweep leaves it without. *)
THEOREM TreesAreReachable ==
  ASSUME Faults = {}
  PROVE  Spec => []Reachable
PROOF
  <1> DEFINE Inv == TypeOK /\ DiskInv /\ HistoryInv /\ Ordered
  <1>1. Init => CalmInv
    BY CalmInit
  <1>2. Inv /\ CalmInv /\ [Next]_vars => CalmInv'
    BY CalmOneStep, ConstantsOK
  <1>3. TypeOK /\ CalmInv => Reachable
    BY DEF CalmInv, CalmBridge, Reachable, TypeOK, DeckTypes
  <1>4. Spec => []Inv
    BY CalmIs, OrderedAlways
  <1> QED BY <1>1, <1>2, <1>3, <1>4, PTL DEF Spec
=============================================================================
