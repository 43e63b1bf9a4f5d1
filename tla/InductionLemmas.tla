--------------------------- MODULE InductionLemmas ---------------------------
(***************************************************************************)
(* Induction and recursion over the natural numbers, stated with sets and  *)
(* functions in place of operators, and what recursive definitions over    *)
(* sequences come to.                                                      *)
(***************************************************************************)
EXTENDS Naturals, Sequences, SequencesExt, WellFoundedInduction, TLAPS

(* A set that holds 0, and with a number the next one, holds every number. *)
LEMMA Induction ==
  ASSUME NEW S, 0 \in S, \A n \in Nat : n \in S => n + 1 \in S
  PROVE  Nat \subseteq S
PROOF
  <1> DEFINE R == {p \in Nat \X Nat : p[1] < p[2]}
             T == Nat \ S
  <1> SUFFICES ASSUME T # {} PROVE FALSE
    OBVIOUS
  <1>1. IsWellFoundedOn(R, Nat)
    BY NatLessThanWellFounded DEF OpToRel
  <1>2. PICK x \in T : \A y \in T : ~(<<y, x>> \in R)
    <2>1. T \subseteq Nat
      OBVIOUS
    <2> HIDE DEF R, T
    <2> QED BY <1>1, <2>1, WFMin
  <1>3. x \in Nat /\ x # 0
    OBVIOUS
  <1>4. x - 1 \in Nat /\ x - 1 < x /\ (x - 1) + 1 = x
    BY <1>3
  <1>5. x - 1 \in T
    BY <1>3, <1>4
  <1> QED BY <1>2, <1>3, <1>4, <1>5

(* The same between two numbers. *)
LEMMA Between ==
  ASSUME NEW m \in Nat, NEW n \in Nat, NEW S, m \in S,
         \A i \in m..n : i \in S /\ i < n => i + 1 \in S
  PROVE  m..n \subseteq S
PROOF
  <1> DEFINE T == {k \in Nat : m + k <= n => m + k \in S}
  <1>1. 0 \in T
    OBVIOUS
  <1>2. ASSUME NEW k \in Nat, k \in T PROVE k + 1 \in T
    <2> SUFFICES ASSUME m + (k + 1) <= n PROVE m + (k + 1) \in S
      BY k + 1 \in Nat
    <2>1. m + k \in m..n /\ m + k < n /\ m + (k + 1) = (m + k) + 1
      OBVIOUS
    <2>2. m + k \in S
      BY <1>2, <2>1
    <2> QED BY <2>1, <2>2
  <1> HIDE DEF T
  <1>3. Nat \subseteq T
    BY <1>1, <1>2, Induction
  <1>4. ASSUME NEW i \in m..n PROVE i \in S
    <2>1. i - m \in Nat /\ m + (i - m) = i
      OBVIOUS
    <2> QED BY <1>3, <2>1 DEF T
  <1> QED BY <1>4

(* A run of n steps, from d by F, through values of D. *)
IsRun(g, n, D, d, F) ==
  g \in [0..n -> D] /\ g[0] = d /\ \A i \in 1..n : g[i] = F[<<i, g[i - 1]>>]

IsStep(F, n, D) == F \in [(1..n) \X D -> D]

(* A value to start from and a step give a run of any length. *)
LEMMA Recursion ==
  ASSUME NEW n \in Nat, NEW D, NEW d \in D, NEW F, IsStep(F, n, D)
  PROVE  \E g : IsRun(g, n, D, d, F)
PROOF
  <1> USE DEF IsStep
  <1> DEFINE Run(g, k) == g \in [0..k -> D] /\ g[0] = d /\ \A i \in 1..k : g[i] = F[<<i, g[i - 1]>>]
             S == {k \in Nat : k <= n => \E g : Run(g, k)}
  <1>1. 0 \in S
    <2> DEFINE g == [i \in 0..0 |-> d]
    <2>1. Run(g, 0)
      OBVIOUS
    <2> QED BY <2>1
  <1>2. ASSUME NEW k \in Nat, k \in S PROVE k + 1 \in S
    <2> SUFFICES ASSUME k + 1 <= n PROVE \E g : Run(g, k + 1)
      BY k + 1 \in Nat
    <2>1. PICK g : Run(g, k)
      BY <1>2
    <2> DEFINE h == [i \in 0..(k + 1) |-> IF i <= k THEN g[i] ELSE F[<<k + 1, g[k]>>]]
    <2>2. g[k] \in D /\ k + 1 \in 1..n
      BY <2>1
    <2>3. F[<<k + 1, g[k]>>] \in D
      BY <2>2
    <2>4. h \in [0..(k + 1) -> D] /\ h[0] = d
      BY <2>1, <2>3
    <2>5. ASSUME NEW i \in 1..(k + 1) PROVE h[i] = F[<<i, h[i - 1]>>]
      <3>1. CASE i <= k
        <4>1. i \in 1..k /\ i - 1 \in 0..k /\ i - 1 \in 0..(k + 1) /\ i \in 0..(k + 1)
          BY <3>1
        <4>2. h[i] = g[i] /\ h[i - 1] = g[i - 1]
          BY <3>1, <4>1
        <4> QED BY <2>1, <4>1, <4>2
      <3>2. CASE i = k + 1
        <4>1. i - 1 = k /\ k \in 0..(k + 1) /\ i \in 0..(k + 1) /\ ~(i <= k)
          BY <3>2
        <4>2. h[i - 1] = g[k] /\ h[i] = F[<<k + 1, g[k]>>]
          BY <4>1
        <4> QED BY <3>2, <4>2
      <3> QED BY <3>1, <3>2
    <2> HIDE DEF h
    <2> QED BY <2>4, <2>5
  <1> HIDE DEF S
  <1>3. Nat \subseteq S
    BY <1>1, <1>2, Induction
  <1>4. \E g : Run(g, n)
    BY <1>3 DEF S
  <1> QED BY <1>4 DEF IsRun

(* Two runs that start alike and take the same steps are alike. *)
StepAlike(n, f, g) == f[0] = g[0] /\ \A i \in 1..n : f[i - 1] = g[i - 1] => f[i] = g[i]

LEMMA SameRun ==
  ASSUME NEW n \in Nat, NEW f, NEW g, StepAlike(n, f, g)
  PROVE  \A i \in 0..n : f[i] = g[i]
PROOF
  <1> DEFINE S == {i \in 0..n : f[i] = g[i]}
  <1>1. 0 \in S
    BY DEF StepAlike
  <1>2. ASSUME NEW i \in 0..n, i \in S, i < n PROVE i + 1 \in S
    <2>1. i + 1 \in 1..n /\ (i + 1) - 1 = i /\ i + 1 \in 0..n
      BY <1>2
    <2> QED BY <1>2, <2>1 DEF StepAlike
  <1> HIDE DEF S
  <1>3. 0..n \subseteq S
    BY <1>1, <1>2, Between
  <1> QED BY <1>3 DEF S

-----------------------------------------------------------------------------
(* FlattenSeq *)

LEMMA FlattenEmpty == FlattenSeq(<<>>) = <<>>
BY DEF FlattenSeq

(* One sequence is added after the other. *)
LEMMA FlattenSteps ==
  ASSUME NEW S, NEW seqs \in Seq(Seq(S)), seqs # <<>>
  PROVE  \E f \in [1..Len(seqs) -> Seq(S)] :
           /\ f[1] = seqs[1] /\ FlattenSeq(seqs) = f[Len(seqs)]
           /\ \A i \in 2..Len(seqs) : f[i] = f[i - 1] \o seqs[i]
PROOF
  <1> DEFINE n == Len(seqs)
             D == Seq(S)
             F == [p \in (1..(n - 1)) \X D |-> p[2] \o seqs[p[1] + 1]]
             Runs(g) == g = [i \in 1..n |-> IF i = 1 THEN seqs[i] ELSE g[i - 1] \o seqs[i]]
  <1>1. n \in Nat /\ n # 0 /\ n - 1 \in Nat /\ \A i \in 1..n : seqs[i] \in D
    OBVIOUS
  <1>2. ASSUME NEW i \in 1..(n - 1), NEW x \in D PROVE x \o seqs[i + 1] \in D
    <2>1. seqs[i + 1] \in D
      BY <1>1
    <2> QED BY <2>1
  <1> HIDE DEF n
  <1>3. IsStep(F, n - 1, D)
    BY <1>2 DEF IsStep
  <1>4. seqs[1] \in D
    BY <1>1
  <1>5. \A i \in 1..(n - 1), x \in D : F[<<i, x>>] = x \o seqs[i + 1]
    OBVIOUS
  <1> HIDE DEF D, F
  <1>6. PICK g : IsRun(g, n - 1, D, seqs[1], F)
    BY <1>1, <1>3, <1>4, Recursion
  <1> DEFINE f == [i \in 1..n |-> g[i - 1]]
  <1>7. f \in [1..n -> D] /\ f[1] = seqs[1]
    BY <1>1, <1>6 DEF IsRun
  <1>8. ASSUME NEW i \in 2..n PROVE f[i] = f[i - 1] \o seqs[i]
    <2>1. i \in 1..n /\ i - 1 \in 1..n /\ i - 1 \in 1..(n - 1) /\ (i - 1) - 1 \in 0..(n - 1) /\ (i - 1) + 1 = i
      BY <1>1
    <2>2. f[i] = g[i - 1] /\ f[i - 1] = g[(i - 1) - 1]
      BY <2>1
    <2>3. g[i - 1] = F[<<i - 1, g[(i - 1) - 1]>>] /\ g[(i - 1) - 1] \in D
      BY <1>6, <2>1 DEF IsRun
    <2> QED BY <1>5, <2>1, <2>2, <2>3
  <1>9. Runs(f)
    <2>1. \A i \in 1..n : f[i] = IF i = 1 THEN seqs[i] ELSE f[i - 1] \o seqs[i]
      <3> SUFFICES ASSUME NEW i \in 1..n PROVE f[i] = IF i = 1 THEN seqs[i] ELSE f[i - 1] \o seqs[i]
        OBVIOUS
      <3>1. CASE i = 1
        BY <1>7, <3>1
      <3>2. CASE i # 1
        <4>1. i \in 2..n
          BY <1>1, <3>2
        <4> QED BY <1>8, <3>2, <4>1
      <3> QED BY <3>1, <3>2
    <2>2. f = [i \in 1..n |-> f[i]]
      OBVIOUS
    <2> HIDE DEF f
    <2> QED BY <2>1, <2>2
  <1> HIDE DEF f
  <1> DEFINE flatten == CHOOSE h : Runs(h)
  <1>10. Runs(flatten)
    BY <1>9
  <1>11. FlattenSeq(seqs) = flatten[n]
    BY <1>1 DEF FlattenSeq, n
  <1> HIDE DEF flatten
  <1>12. \A i \in 1..n : flatten[i] = IF i = 1 THEN seqs[i] ELSE flatten[i - 1] \o seqs[i]
    BY <1>10
  <1> DEFINE Agree == {i \in 1..n : flatten[i] = f[i]}
  <1>13. 1 \in Agree
    BY <1>1, <1>7, <1>12
  <1>14. ASSUME NEW i \in 1..n, i \in Agree, i < n PROVE i + 1 \in Agree
    <2> DEFINE j == i + 1
    <2>1. j \in 1..n /\ j \in 2..n /\ j # 1 /\ j - 1 = i
      BY <1>1, <1>14
    <2>2. flatten[i] = f[i]
      BY <1>14
    <2> HIDE DEF j
    <2>3. flatten[j] = flatten[j - 1] \o seqs[j] /\ f[j] = f[j - 1] \o seqs[j]
      BY <1>8, <1>12, <2>1
    <2> QED BY <2>1, <2>2, <2>3 DEF j
  <1> HIDE DEF Agree
  <1>15. 1..n \subseteq Agree
    BY <1>1, <1>13, <1>14, Between
  <1>16. flatten[n] = f[n]
    BY <1>1, <1>15 DEF Agree
  <1> QED BY <1>7, <1>8, <1>11, <1>16 DEF n, D

LEMMA FlattenTypes ==
  ASSUME NEW S, NEW seqs \in Seq(Seq(S))
  PROVE  FlattenSeq(seqs) \in Seq(S)
PROOF
  <1>1. CASE seqs = <<>>
    <2>1. FlattenSeq(seqs) = <<>>
      BY <1>1, FlattenEmpty
    <2> QED BY <2>1
  <1>2. CASE seqs # <<>>
    <2> DEFINE n == Len(seqs)
    <2>1. PICK f \in [1..n -> Seq(S)] : FlattenSeq(seqs) = f[n]
      BY <1>2, FlattenSteps
    <2>2. n \in 1..n
      BY <1>2
    <2> HIDE DEF n
    <2> QED BY <2>1, <2>2
  <1> QED BY <1>1, <1>2

(* The ends of two sequences joined. *)
LEMMA JoinEnds ==
  ASSUME NEW S, NEW a \in Seq(S), NEW b \in Seq(S)
  PROVE  /\ a \o b \in Seq(S) /\ Len(a \o b) = Len(a) + Len(b)
         /\ a # <<>> => (a \o b)[1] = a[1]
         /\ b # <<>> => a \o b # <<>> /\ (a \o b)[Len(a \o b)] = b[Len(b)]
         /\ a \o <<>> = a /\ <<>> \o a = a
OBVIOUS

(* What is left of a sequence ends as it did. *)
LEMMA TailEnds ==
  ASSUME NEW S, NEW s \in Seq(S), s # <<>>
  PROVE  /\ Tail(s) \in Seq(S) /\ Head(s) \in S
         /\ Tail(s) = <<>> => Head(s) = s[Len(s)]
         /\ Tail(s) # <<>> => Tail(s)[Len(Tail(s))] = s[Len(s)]
         /\ Len(s) > 1 => Tail(s) # <<>>
PROOF
  <1> DEFINE t == Tail(s)
             n == Len(s)
  <1>1. /\ n \in Nat /\ n # 0 /\ Head(s) = s[1] /\ s[1] \in S
        /\ t \in Seq(S) /\ Len(t) = n - 1 /\ \A i \in 1..(n - 1) : t[i] = s[i + 1]
    OBVIOUS
  <1> HIDE DEF t, n
  <1>2. t = <<>> <=> n = 1
    BY <1>1
  <1>3. ASSUME n # 1 PROVE t[Len(t)] = s[n]
    <2>1. n - 1 \in 1..(n - 1) /\ (n - 1) + 1 = n
      BY <1>1, <1>3
    <2> QED BY <1>1, <2>1
  <1> QED BY <1>1, <1>2, <1>3 DEF t, n

(* The last element is that of the last sequence, if it has one. *)
LEMMA FlattenLast ==
  ASSUME NEW S, NEW seqs \in Seq(Seq(S)), seqs # <<>>, seqs[Len(seqs)] # <<>>
  PROVE  /\ FlattenSeq(seqs) # <<>>
         /\ FlattenSeq(seqs)[Len(FlattenSeq(seqs))] = seqs[Len(seqs)][Len(seqs[Len(seqs)])]
PROOF
  <1> DEFINE n == Len(seqs)
             last == seqs[n]
             flat == FlattenSeq(seqs)
  <1>1. PICK f \in [1..n -> Seq(S)] :
           /\ f[1] = seqs[1] /\ flat = f[n]
           /\ \A i \in 2..n : f[i] = f[i - 1] \o seqs[i]
    BY FlattenSteps
  <1>2. n \in Nat /\ n # 0 /\ last \in Seq(S) /\ last # <<>>
    OBVIOUS
  <1> SUFFICES flat # <<>> /\ flat[Len(flat)] = last[Len(last)]
    OBVIOUS
  <1>3. last = seqs[n]
    OBVIOUS
  <1> HIDE DEF n, flat, last
  <1>4. CASE n = 1
    BY <1>1, <1>2, <1>3, <1>4
  <1>5. CASE n # 1
    <2>1. n \in 2..n /\ n - 1 \in 1..n
      BY <1>2, <1>5
    <2>2. f[n - 1] \in Seq(S) /\ flat = f[n - 1] \o last
      BY <1>1, <1>3, <2>1
    <2> QED BY <1>2, <2>2, JoinEnds
  <1> QED BY <1>4, <1>5

(* The elements of two sequences joined. *)
LEMMA JoinTwo ==
  ASSUME NEW S, NEW a \in Seq(S), NEW b \in Seq(S)
  PROVE  /\ a \o b \in Seq(S) /\ Len(a \o b) = Len(a) + Len(b)
         /\ \A t \in 1..Len(a) : (a \o b)[t] = a[t]
         /\ \A t \in 1..Len(b) : (a \o b)[Len(a) + t] = b[t]
OBVIOUS

(* After the first, sequences of one element each. *)
LEMMA FlattenOnes ==
  ASSUME NEW S, NEW seqs \in Seq(Seq(S)), seqs # <<>>,
         NEW g, \A k \in 2..Len(seqs) : seqs[k] = <<g[k]>>
  PROVE  /\ Len(FlattenSeq(seqs)) = Len(seqs[1]) + (Len(seqs) - 1)
         /\ \A k \in 1..Len(seqs[1]) : FlattenSeq(seqs)[k] = seqs[1][k]
         /\ \A k \in 2..Len(seqs) : FlattenSeq(seqs)[Len(seqs[1]) + (k - 1)] = g[k]
PROOF
  <1> DEFINE n == Len(seqs)
             r == seqs[1]
             m == Len(r)
             flat == FlattenSeq(seqs)
  <1>1. PICK f \in [1..n -> Seq(S)] :
           /\ f[1] = r /\ flat = f[n]
           /\ \A i \in 2..n : f[i] = f[i - 1] \o seqs[i]
    BY FlattenSteps
  <1>2. n \in Nat /\ n # 0 /\ r \in Seq(S) /\ m \in Nat
    OBVIOUS
  <1>3. \A k \in 2..n : seqs[k] = <<g[k]>> /\ seqs[k] \in Seq(S)
    <2> SUFFICES ASSUME NEW k \in 2..n PROVE seqs[k] = <<g[k]>> /\ seqs[k] \in Seq(S)
      OBVIOUS
    <2>1. k \in 1..Len(seqs)
      OBVIOUS
    <2> QED BY <2>1
  <1> DEFINE Joined(i) == /\ Len(f[i]) = m + (i - 1)
                          /\ \A k \in 1..m : f[i][k] = r[k]
                          /\ \A k \in 2..i : f[i][m + (k - 1)] = g[k]
             T == {i \in 1..n : Joined(i)}
  <1> HIDE DEF n, r, m, flat
  <1>4. 1 \in T
    BY <1>1, <1>2 DEF m
  <1>5. ASSUME NEW i \in 1..n, i \in T, i < n PROVE i + 1 \in T
    <2> DEFINE j == i + 1
    <2>1. j \in 1..n /\ j \in 2..n /\ j - 1 = i /\ i \in Nat /\ j = i + 1
      BY <1>2, <1>5
    <2>2. Joined(i)
      BY <1>5
    <2> HIDE DEF j
    <2>3. f[j] = f[i] \o <<g[j]>> /\ f[i] \in Seq(S) /\ <<g[j]>> \in Seq(S)
      BY <1>1, <1>3, <2>1
    <2>4. /\ Len(f[j]) = Len(f[i]) + 1
          /\ \A k \in 1..Len(f[i]) : f[j][k] = f[i][k]
          /\ f[j][Len(f[i]) + 1] = g[j]
      <3> DEFINE a == f[i]
                 b == <<g[j]>>
      <3>1. a \in Seq(S) /\ b \in Seq(S)
        BY <2>3
      <3>2. Len(b) = 1 /\ b[1] = g[j] /\ f[j] = a \o b
        BY <2>3
      <3> HIDE DEF a, b
      <3>3. Len(a \o b) = Len(a) + 1 /\ (\A k \in 1..Len(a) : (a \o b)[k] = a[k]) /\ (a \o b)[Len(a) + 1] = b[1]
        <4>1. 1 \in 1..Len(b)
          BY <3>2
        <4>2. /\ Len(a \o b) = Len(a) + Len(b)
              /\ \A t \in 1..Len(a) : (a \o b)[t] = a[t]
              /\ \A t \in 1..Len(b) : (a \o b)[Len(a) + t] = b[t]
          BY ONLY <3>1, JoinTwo
        <4> QED BY ONLY <3>2, <4>1, <4>2
      <3> QED BY <3>2, <3>3 DEF a
    <2>5. Len(f[j]) = m + (j - 1)
      BY <1>2, <2>1, <2>2, <2>4
    <2>6. ASSUME NEW k \in 1..m PROVE f[j][k] = r[k]
      <3>1. k \in 1..Len(f[i])
        BY <1>2, <2>1, <2>2
      <3> QED BY <2>2, <2>4, <3>1
    <2>7. ASSUME NEW k \in 2..j PROVE f[j][m + (k - 1)] = g[k]
      <3>1. CASE k = j
        BY <1>2, <2>1, <2>2, <2>4, <3>1
      <3>2. CASE k # j
        <4>1. k \in 2..i /\ m + (k - 1) \in 1..Len(f[i])
          BY <1>2, <2>1, <2>2, <3>2
        <4> QED BY <2>2, <2>4, <4>1
      <3> QED BY <3>1, <3>2
    <2> QED BY <2>1, <2>5, <2>6, <2>7 DEF j
  <1> HIDE DEF T
  <1>6. 1..n \subseteq T
    BY <1>2, <1>4, <1>5, Between
  <1>7. Joined(n)
    BY <1>2, <1>6 DEF T
  <1> QED BY <1>1, <1>7 DEF n, m, r, flat

=============================================================================
