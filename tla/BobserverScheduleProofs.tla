---------------------- MODULE BobserverScheduleProofs ----------------------
(***************************************************************************)
(* The bobservers, for every number of them, every history of approvals,   *)
(* exceptions and blocks, and every vote in a header: the producers are    *)
(* counted, a new schedule is complete, and a hardfork has a majority and  *)
(* comes at the time that the majority voted for.                          *)
(***************************************************************************)
EXTENDS BobserverSchedule, NumberFacts, FiniteSetTheorems, SequenceTheorems, TLAPS

\* What headers may vote for: any version and any time.
Ballot == Nat \X Nat

VotesInv == \A w \in DOMAIN bob : bob[w].vote \in Ballot

\* Only with nobody to schedule is the empty name in the schedule, and then
\* there is no block.
ScheduleInv ==
    /\ sched \in Seq(DOMAIN bob) \/ sched = <<NoOne>>
    /\ \A i, j \in 1 .. Len(sched) : sched[i] = sched[j] => i = j

\* The block being applied has a slot, and is by the bobserver of that slot.
BlockInv ==
    phase = "txs" => /\ sched \in Seq(DOMAIN bob)
                     /\ dgp.time < block.at
                     /\ SlotAt(block.at) > 0
                     /\ block.by = Scheduled(SlotAt(block.at))

\* Who signed since the schedule was made had a slot of it.
RoundInv ==
    /\ round.slot <= dgp.aslot
    /\ \A k \in 1 .. Len(round.by) :
          \E s \in round.slot + 1 .. dgp.aslot : round.by[k] = sched[(s % Len(sched)) + 1]

Filled(f) == {i \in 1 .. Window : f[i] = 1}
WindowInv == dgp.count = Cardinality(Filled(dgp.filled))

\* A hardfork to come has its majority.
HardforkInv == hf.next > hf.last => Backed

Inv ==
    /\ TypeOK
    /\ IsFiniteSet(DOMAIN bob)
    /\ VotesInv
    /\ ScheduleInv
    /\ BlockInv
    /\ RoundInv
    /\ WindowInv
    /\ ProducersCounted
    /\ HardforkInv

-----------------------------------------------------------------------------
(* Sequences that name each element of a set once.                         *)

Arrangement(S, n) ==
    {q \in [1 .. n -> S] : /\ \A i, j \in 1 .. n : q[i] = q[j] => i = j
                           /\ \A x \in S : \E i \in 1 .. n : q[i] = x}

LEMMA ArrangementFacts ==
    ASSUME NEW S, NEW n \in Nat, NEW q \in Arrangement(S, n)
    PROVE  /\ q \in Seq(S) /\ Len(q) = n /\ DOMAIN q = 1 .. n
           /\ \A i, j \in 1 .. n : q[i] = q[j] => i = j
           /\ ToSet(q) = S
<1>1. /\ q \in [1 .. n -> S]
      /\ \A i, j \in 1 .. n : q[i] = q[j] => i = j
      /\ \A x \in S : \E i \in 1 .. n : q[i] = x
  BY DEF Arrangement
<1>2. q \in Seq(S) /\ Len(q) = n /\ DOMAIN q = 1 .. n
  BY <1>1
<1>3. ToSet(q) = S
  <2>1. \A x \in ToSet(q) : x \in S
    BY <1>1, <1>2 DEF ToSet
  <2>2. \A x \in S : x \in ToSet(q)
    BY <1>1, <1>2 DEF ToSet
  <2> QED BY <2>1, <2>2
<1> QED BY <1>1, <1>2, <1>3

\* The order in which an index lists the objects of a set.
LEMMA SetToSeqFacts ==
    ASSUME NEW S, IsFiniteSet(S)
    PROVE  SetToSeq(S) \in Arrangement(S, Cardinality(S)) /\ Cardinality(S) \in Nat
<1> DEFINE n == Cardinality(S)
           f == SetToSeq(S)
<1>1. n \in Nat /\ ExistsBijection(1 .. n, S)
  BY FS_CardinalityType
<1>2. \E g \in [1 .. n -> S] : IsInjective(g)
  BY <1>1, Zenon DEF ExistsBijection, Bijection, Injection
<1>3. f \in [1 .. n -> S] /\ IsInjective(f)
  BY <1>2, Zenon DEF SetToSeq
<1> HIDE DEF f, n
<1>4. \A i, j \in 1 .. n : f[i] = f[j] => i = j
  BY <1>3 DEF IsInjective
<1>5. IsFiniteSet(1 .. n) /\ Cardinality(1 .. n) = n
  BY <1>1, UpTo
<1>6. f \in Injection(1 .. n, S)
  BY <1>3 DEF Injection
<1>7. f \in Surjection(1 .. n, S)
  BY <1>5, <1>6, FS_Injection, Zenon DEF n
<1>8. \A x \in S : \E i \in 1 .. n : f[i] = x
  BY <1>7, Zenon DEF Surjection
<1> QED BY <1>1, <1>3, <1>4, <1>8 DEF Arrangement, f, n

\* A swap of two places keeps everybody in.
LEMMA SwappedFacts ==
    ASSUME NEW S, NEW n \in Nat, NEW q \in Arrangement(S, n), NEW a \in 1 .. n, NEW b \in 1 .. n
    PROVE  Swapped(q, a, b) \in Arrangement(S, n)
<1> DEFINE t == Swapped(q, a, b)
           Back(i) == IF i = a THEN b ELSE IF i = b THEN a ELSE i
<1>1. q \in [1 .. n -> S] /\ DOMAIN q = 1 .. n
  BY DEF Arrangement
<1>2. t = [i \in 1 .. n |-> q[Back(i)]]
  BY <1>1 DEF Swapped
<1>3. \A i \in 1 .. n : Back(i) \in 1 .. n /\ Back(Back(i)) = i
  OBVIOUS
<1>4. \A i \in 1 .. n : t[i] = q[Back(i)]
  BY <1>2
<1>5. t \in [1 .. n -> S]
  BY <1>1, <1>2, <1>3
<1> HIDE DEF t, Back
<1>6. ASSUME NEW i \in 1 .. n, NEW j \in 1 .. n, t[i] = t[j]
      PROVE  i = j
  <2>1. Back(i) = Back(j)
    BY <1>3, <1>4, <1>6 DEF Arrangement
  <2> QED BY <1>3, <2>1
<1>7. ASSUME NEW x \in S
      PROVE  \E i \in 1 .. n : t[i] = x
  <2>1. PICK i \in 1 .. n : q[i] = x
    BY DEF Arrangement
  <2>2. Back(i) \in 1 .. n /\ t[Back(i)] = x
    BY <1>3, <1>4, <2>1
  <2> QED BY <2>2
<1>8. t \in Arrangement(S, n)
  BY <1>5, <1>6, <1>7 DEF Arrangement
<1> QED BY <1>8 DEF t

\* The shuffle keeps everybody in, whatever the random generator gives.
LEMMA ShuffledFacts ==
    ASSUME NEW S, NEW n \in Nat, NEW s \in Arrangement(S, n), NEW d \in Draws(n)
    PROVE  Shuffled(s, d) \in Arrangement(S, n)
<1> DEFINE A == Arrangement(S, n)
           Solves(r) == r = [i \in 0 .. Len(s) |-> IF i = 0 THEN s ELSE Swapped(r[i - 1], i, d[i])]
           R == CHOOSE r : Solves(r)
           F == [i \in 1 .. n |-> [q \in A |-> Swapped(q, i, d[i])]]
<1>1. Len(s) = n
  BY ArrangementFacts
<1>2. Shuffled(s, d) = R[n]
  BY <1>1 DEF Shuffled
<1>3. \A i \in 1 .. n : d[i] \in 1 .. n
  BY DEF Draws
<1>4. \A q \in A, i \in 1 .. n : Swapped(q, i, d[i]) \in A
  BY <1>3, SwappedFacts
<1> HIDE DEF A
<1>5. F \in [1 .. n -> [A -> A]] /\ s \in A
  BY <1>4 DEF A
<1>6. PICK g \in [0 .. n -> A] : g[0] = s /\ \A i \in 1 .. n : g[i] = F[i][g[i - 1]]
  <2> HIDE DEF F
  <2>1. \E g \in [0 .. n -> A] : Follows(g, s, F, n)
    BY <1>5, Recursion
  <2> QED BY <2>1 DEF Follows
<1>7. \A i \in 0 .. n : i # 0 => i \in 1 .. n /\ i - 1 \in 0 .. n
  OBVIOUS
<1>8. \A i \in 0 .. n : g[i] = IF i = 0 THEN s ELSE Swapped(g[i - 1], i, d[i])
  <2> SUFFICES ASSUME NEW i \in 0 .. n, i # 0
               PROVE  g[i] = Swapped(g[i - 1], i, d[i])
    BY <1>6
  <2>1. i \in 1 .. n /\ g[i - 1] \in A
    BY <1>6, <1>7
  <2>2. F[i][g[i - 1]] = Swapped(g[i - 1], i, d[i])
    BY <2>1
  <2> QED BY <1>6, <2>1, <2>2
<1>9. Solves(g)
  <2>1. g = [i \in 0 .. n |-> g[i]]
    BY <1>6
  <2> QED BY <1>1, <1>8, <2>1
<1>10. Solves(R)
  <2> HIDE DEF Solves
  <2> QED BY <1>9
<1> HIDE DEF R, F
<1>11. R[0] = s /\ \A i \in 1 .. n : R[i] = Swapped(R[i - 1], i, d[i])
  <2>1. \A i \in 0 .. n : R[i] = IF i = 0 THEN s ELSE Swapped(R[i - 1], i, d[i])
    BY <1>1, <1>10
  <2>2. 0 \in 0 .. n /\ \A i \in 1 .. n : i \in 0 .. n /\ i # 0
    OBVIOUS
  <2> HIDE DEF Solves
  <2> QED BY <2>1, <2>2
<1> HIDE DEF Solves
<1>12. \A i \in 0 .. n : R[i] \in A
  <2>1. \A i \in 1 .. n : R[i - 1] \in A => R[i] \in A
    BY <1>4, <1>11
  <2>2. R[0] \in A
    BY <1>5, <1>11
  <2> QED BY <2>1, <2>2, Along
<1>13. n \in 0 .. n
  OBVIOUS
<1> QED BY <1>2, <1>12, <1>13 DEF A

LEMMA ConcatFacts ==
    ASSUME NEW S, NEW T, S \cap T = {}, NEW m \in Nat, NEW n \in Nat,
           NEW p \in Arrangement(S, m), NEW q \in Arrangement(T, n)
    PROVE  p \o q \in Arrangement(S \cup T, m + n)
<1> DEFINE c == p \o q
<1>1. /\ p \in Seq(S) /\ Len(p) = m /\ q \in Seq(T) /\ Len(q) = n
      /\ p \in [1 .. m -> S] /\ q \in [1 .. n -> T]
  BY ArrangementFacts DEF Arrangement
<1>2. c = [i \in 1 .. m + n |-> IF i <= m THEN p[i] ELSE q[i - m]]
  <2>1. /\ c \in Seq(S \cup T) /\ Len(c) = m + n
        /\ \A i \in 1 .. m + n : c[i] = IF i <= m THEN p[i] ELSE q[i - m]
    BY <1>1
  <2> HIDE DEF c
  <2> QED BY <2>1
<1>3. \A i \in 1 .. m + n : IF i <= m THEN i \in 1 .. m ELSE i - m \in 1 .. n
  OBVIOUS
<1>4. \A i \in 1 .. m + n : IF i <= m THEN c[i] = p[i] /\ c[i] \in S ELSE c[i] = q[i - m] /\ c[i] \in T
  BY <1>1, <1>2, <1>3
<1>5. c \in [1 .. m + n -> S \cup T]
  BY <1>2, <1>4
<1>6. \A i \in 1 .. m : i \in 1 .. m + n /\ c[i] = p[i]
  BY <1>2
<1>7. \A i \in 1 .. n : m + i \in 1 .. m + n /\ c[m + i] = q[i]
  BY <1>2
<1> HIDE DEF c
<1>8. ASSUME NEW i \in 1 .. m + n, NEW j \in 1 .. m + n, c[i] = c[j]
      PROVE  i = j
  <2>1. CASE i <= m /\ j <= m
    <3>1. p[i] = p[j] /\ i \in 1 .. m /\ j \in 1 .. m
      BY <1>3, <1>4, <1>8, <2>1
    <3> QED BY <3>1 DEF Arrangement
  <2>2. CASE ~(i <= m) /\ ~(j <= m)
    <3>1. q[i - m] = q[j - m] /\ i - m \in 1 .. n /\ j - m \in 1 .. n
      BY <1>3, <1>4, <1>8, <2>2
    <3>2. i - m = j - m
      BY <3>1 DEF Arrangement
    <3> QED BY <3>2
  <2>3. CASE (i <= m) # (j <= m)
    BY <1>4, <1>8, <2>3
  <2> QED BY <2>1, <2>2, <2>3
<1>9. ASSUME NEW x \in S \cup T
      PROVE  \E i \in 1 .. m + n : c[i] = x
  <2>1. CASE x \in S
    <3>1. PICK i \in 1 .. m : p[i] = x
      BY <2>1 DEF Arrangement
    <3> QED BY <1>6, <3>1
  <2>2. CASE x \in T
    <3>1. PICK i \in 1 .. n : q[i] = x
      BY <2>2 DEF Arrangement
    <3> QED BY <1>7, <3>1
  <2> QED BY <2>1, <2>2
<1> QED BY <1>5, <1>8, <1>9 DEF Arrangement, c

LEMMA CutFacts ==
    ASSUME NEW S, NEW n \in Nat, NEW q \in Arrangement(S, n), NEW k \in 0 .. n
    PROVE  \E T \in SUBSET S : SubSeq(q, 1, k) \in Arrangement(T, k)
<1> DEFINE c == SubSeq(q, 1, k)
           T == {c[i] : i \in 1 .. k}
<1>1. q \in Seq(S) /\ Len(q) = n /\ k \in Nat /\ k <= n /\ q \in [1 .. n -> S]
  BY ArrangementFacts DEF Arrangement
<1>2. c = [i \in 1 .. k |-> q[i]]
  BY <1>1
<1>3. \A i \in 1 .. k : i \in 1 .. n /\ c[i] = q[i] /\ q[i] \in S
  BY <1>1, <1>2
<1>4. \A i \in 1 .. k : c[i] \in T /\ c[i] \in S
  BY <1>3
<1>5. c \in [1 .. k -> T]
  BY <1>2, <1>4
<1>6. T \in SUBSET S
  BY <1>4
<1>7. \A x \in T : \E i \in 1 .. k : c[i] = x
  OBVIOUS
<1>8. \A i, j \in 1 .. k : c[i] = c[j] => i = j
  BY <1>3 DEF Arrangement
<1> HIDE DEF c, T
<1>9. c \in Arrangement(T, k)
  BY <1>5, <1>7, <1>8 DEF Arrangement
<1> QED BY <1>6, <1>9 DEF c

-----------------------------------------------------------------------------
(* A new schedule.                                                         *)

\* What update_bobserver_schedule4() has to produce from the bobservers b.
Complete(b, q) ==
    \E S \in SUBSET Keyed(b) : \E n \in 0 .. NumBobservers :
        /\ q \in Arrangement(S, n)
        /\ Producers(b) \cap Keyed(b) \subseteq S
        /\ n = NumBobservers \/ S = Keyed(b)

\* What makes bobservers fit to be scheduled from.
Fit(b) ==
    /\ IsFiniteSet(DOMAIN b)
    /\ Cardinality(Producers(b)) <= MaxVoted

LEMMA ScheduleConstants ==
    /\ NumBobservers \in Nat /\ NumBobservers > 0
    /\ MaxVoted \in Nat /\ MaxVoted <= NumBobservers
  BY ScheduleAssumption

\* With the producers counted, every one that has a key gets a place.
LEMMA VotedFacts ==
    ASSUME NEW b, Fit(b)
    PROVE  /\ IsFiniteSet(Keyed(b)) /\ IsFiniteSet(Producers(b) \cap Keyed(b))
           /\ Cardinality(Producers(b) \cap Keyed(b)) \in 0 .. MaxVoted
           /\ Voted(b) \in Arrangement(Producers(b) \cap Keyed(b),
                                       Cardinality(Producers(b) \cap Keyed(b)))
<1> DEFINE P == Producers(b) \cap Keyed(b)
           p == Cardinality(P)
           s == SetToSeq(P)
<1>1. Keyed(b) \in SUBSET DOMAIN b /\ Producers(b) \in SUBSET DOMAIN b
  BY DEF Keyed, Producers
<1>2. IsFiniteSet(Keyed(b)) /\ IsFiniteSet(Producers(b))
  BY <1>1, FS_Subset DEF Fit
<1>3. P \in SUBSET Producers(b)
  OBVIOUS
<1>4. IsFiniteSet(P) /\ p <= Cardinality(Producers(b))
  BY <1>2, <1>3, FS_Subset
<1>5. p \in Nat /\ Cardinality(Producers(b)) \in Nat
  BY <1>2, <1>4, FS_CardinalityType
<1>6. s \in Arrangement(P, p)
  BY <1>4, SetToSeqFacts
<1>7. Len(s) = p
  BY <1>5, <1>6, ArrangementFacts
<1>8. Cardinality(Producers(b)) <= MaxVoted
  BY DEF Fit
<1> HIDE DEF p
<1>9. p \in 0 .. MaxVoted /\ ~(p > MaxVoted)
  BY <1>4, <1>5, <1>8, ScheduleConstants
<1>10. Voted(b) = s
  BY <1>7, <1>9 DEF Voted
<1> QED BY <1>2, <1>4, <1>6, <1>9, <1>10 DEF p

LEMMA ActiveFacts ==
    ASSUME NEW b, Fit(b), NEW d \in Draws(Len(Available(b)))
    PROVE  Complete(b, Active(b, d))
<1> DEFINE K == Keyed(b)
           P == Producers(b) \cap K
           p == Cardinality(P)
           R == K \ P
           r == Cardinality(R)
           a == Shuffled(Available(b), d)
           places == NumBobservers - p
           rest == IF Len(a) > places THEN SubSeq(a, 1, places) ELSE a
<1>1. /\ IsFiniteSet(K) /\ IsFiniteSet(P) /\ p \in 0 .. MaxVoted
      /\ Voted(b) \in Arrangement(P, p)
  BY VotedFacts
<1>2. p \in Nat /\ places \in Nat /\ places + p = NumBobservers
  BY <1>1, ScheduleConstants
<1>3. Len(Voted(b)) = p /\ ToSet(Voted(b)) = P
  BY <1>1, <1>2, ArrangementFacts
<1>4. IsFiniteSet(R) /\ r \in Nat
  <2>1. R \in SUBSET K
    OBVIOUS
  <2>2. IsFiniteSet(R)
    BY <1>1, <2>1, FS_Subset
  <2> QED BY <2>2, FS_CardinalityType
<1>5. Available(b) \in Arrangement(R, r) /\ Len(Available(b)) = r
  <2>1. Available(b) = SetToSeq(R)
    BY <1>3 DEF Available
  <2>2. Available(b) \in Arrangement(R, r)
    BY <1>4, <2>1, SetToSeqFacts
  <2> QED BY <1>4, <2>2, ArrangementFacts
<1>6. a \in Arrangement(R, r) /\ Len(a) = r
  <2>1. a \in Arrangement(R, r)
    BY <1>4, <1>5, ShuffledFacts
  <2> QED BY <1>4, <2>1, ArrangementFacts
<1>7. Active(b, d) = Voted(b) \o rest
  BY <1>3 DEF Active
<1>8. P \cap R = {} /\ P \cup R = K /\ P \in SUBSET K /\ R \in SUBSET K
  OBVIOUS
<1> HIDE DEF K, P, p, R, r, a, places, rest
<1>9. CASE r > places
  <2>1. rest = SubSeq(a, 1, places) /\ places \in 0 .. r
    BY <1>2, <1>4, <1>6, <1>9 DEF rest
  <2>2. PICK T \in SUBSET R : rest \in Arrangement(T, places)
    BY <1>4, <1>6, <2>1, CutFacts
  <2>3. P \cap T = {} /\ P \cup T \in SUBSET K
    BY <1>8
  <2>4. Voted(b) \o rest \in Arrangement(P \cup T, p + places)
    BY <1>1, <1>2, <2>2, <2>3, ConcatFacts
  <2>5. p + places = NumBobservers /\ NumBobservers \in 0 .. NumBobservers
    BY <1>2, ScheduleConstants
  <2>6. Voted(b) \o rest \in Arrangement(P \cup T, NumBobservers)
    BY <2>4, <2>5
  <2>7. P \subseteq P \cup T
    OBVIOUS
  <2> QED BY <1>7, <2>3, <2>5, <2>6, <2>7 DEF Complete, K, P
<1>10. CASE ~(r > places)
  <2>1. rest = a
    BY <1>6, <1>10 DEF rest
  <2>2. Voted(b) \o rest \in Arrangement(K, p + r)
    BY <1>1, <1>2, <1>4, <1>6, <1>8, <2>1, ConcatFacts
  <2>3. p + r \in 0 .. NumBobservers
    BY <1>2, <1>4, <1>10
  <2> QED BY <1>7, <1>8, <2>2, <2>3 DEF Complete, K, P
<1> QED BY <1>9, <1>10

LEMMA ShuffleCompletes ==
    ASSUME NEW b, NEW q, Complete(b, q), NEW d \in Draws(Len(q))
    PROVE  Complete(b, Shuffled(q, d)) /\ Len(Shuffled(q, d)) = Len(q)
<1>1. PICK S \in SUBSET Keyed(b), n \in 0 .. NumBobservers :
         /\ q \in Arrangement(S, n)
         /\ Producers(b) \cap Keyed(b) \subseteq S
         /\ n = NumBobservers \/ S = Keyed(b)
  BY DEF Complete
<1>2. n \in Nat
  BY ScheduleConstants
<1>3. Len(q) = n
  BY <1>1, <1>2, ArrangementFacts
<1>4. Shuffled(q, d) \in Arrangement(S, n)
  BY <1>1, <1>2, <1>3, ShuffledFacts
<1>5. Len(Shuffled(q, d)) = n
  BY <1>2, <1>4, ArrangementFacts
<1> QED BY <1>1, <1>3, <1>4, <1>5 DEF Complete

LEMMA CompleteFacts ==
    ASSUME NEW b, NEW q, Complete(b, q)
    PROVE  /\ q \in Seq(Keyed(b)) /\ Len(q) \in 0 .. NumBobservers /\ DOMAIN q = 1 .. Len(q)
           /\ \A i, j \in 1 .. Len(q) : q[i] = q[j] => i = j
           /\ ToSet(q) \subseteq Keyed(b)
           /\ Producers(b) \cap Keyed(b) \subseteq ToSet(q)
           /\ Len(q) = NumBobservers \/ ToSet(q) = Keyed(b)
<1>1. PICK S \in SUBSET Keyed(b), n \in 0 .. NumBobservers :
         /\ q \in Arrangement(S, n)
         /\ Producers(b) \cap Keyed(b) \subseteq S
         /\ n = NumBobservers \/ S = Keyed(b)
  BY DEF Complete
<1>2. n \in Nat
  BY ScheduleConstants
<1>3. /\ q \in Seq(S) /\ Len(q) = n /\ DOMAIN q = 1 .. n /\ ToSet(q) = S
      /\ \A i, j \in 1 .. n : q[i] = q[j] => i = j
  BY <1>1, <1>2, ArrangementFacts
<1>4. q \in Seq(Keyed(b))
  <2>1. \A i \in 1 .. n : q[i] \in Keyed(b)
    BY <1>1, <1>3
  <2> QED BY <1>3, <2>1
<1> QED BY <1>1, <1>3, <1>4

-----------------------------------------------------------------------------
(* Slots.                                                                  *)

LEMMA IntervalFacts ==
    Interval \in Nat /\ Interval > 0 /\ GenesisTime \in Nat /\ Window \in Nat /\ Window > 0
  BY ScheduleAssumption

LEMMA DivFacts ==
    ASSUME NEW a \in Nat, NEW n \in Nat, n > 0
    PROVE  /\ a \div n \in Nat /\ a % n \in 0 .. n - 1
           /\ a = n * (a \div n) + (a % n)
  OBVIOUS

\* There is one way to cut a number into intervals and a rest.
LEMMA DivUnique ==
    ASSUME NEW n \in Nat, n > 0, NEW p \in Int, NEW q \in Int,
           NEW r \in 0 .. n - 1, NEW s \in 0 .. n - 1, n * p + r = n * q + s
    PROVE  p = q /\ r = s
<1>1. n * (p - q) = s - r
  OBVIOUS
<1>2. s - r < n /\ s - r > 0 - n
  OBVIOUS
<1>3. CASE p - q >= 1
  <2>1. n * (p - q) >= n
    BY <1>3
  <2> QED BY <1>1, <1>2, <2>1
<1>4. CASE p - q <= 0 - 1
  <2>1. n * (p - q) <= 0 - n
    BY <1>4
  <2> QED BY <1>1, <1>2, <2>1
<1>5. CASE p = q
  BY <1>1, <1>5
<1> QED BY <1>3, <1>4, <1>5

\* Slots that are less than a round apart have different places in it.
LEMMA PlacesDiffer ==
    ASSUME NEW a \in Nat, NEW b \in Nat, NEW n \in Nat, n > 0, a < b, b < a + n
    PROVE  a % n # b % n
<1> DEFINE p == a \div n
           q == b \div n
           r == a % n
           s == b % n
<1>1. p \in Nat /\ r \in 0 .. n - 1 /\ a = n * p + r
  BY DivFacts
<1>2. q \in Nat /\ s \in 0 .. n - 1 /\ b = n * q + s
  BY DivFacts
<1> HIDE DEF p, q, r, s
<1>3. ASSUME r = s
      PROVE  FALSE
  <2>1. n * (q - p) = b - a
    BY <1>1, <1>2, <1>3
  <2>2. CASE q - p >= 1
    <3>1. n * (q - p) >= n
      BY <1>1, <1>2, <2>2
    <3> QED BY <2>1, <3>1
  <2>3. CASE q - p <= 0
    <3>1. n * (q - p) <= 0
      BY <1>1, <1>2, <2>3
    <3> QED BY <2>1, <3>1
  <2> QED BY <1>1, <1>2, <2>2, <2>3
<1> QED BY <1>3 DEF r, s

\* k intervals earlier is k slots earlier.
LEMMA DivShift ==
    ASSUME NEW a \in Nat, NEW k \in Nat, NEW n \in Nat, n > 0, n * k <= a
    PROVE  (a - n * k) \div n = (a \div n) - k
<1> DEFINE q == a \div n
           r == a % n
           c == a - n * k
           p == c \div n
           s == c % n
<1>1. q \in Nat /\ r \in 0 .. n - 1 /\ a = n * q + r
  BY DivFacts
<1>2. c \in Nat
  OBVIOUS
<1>3. p \in Nat /\ s \in 0 .. n - 1 /\ c = n * p + s
  <2> HIDE DEF c
  <2> QED BY <1>2, DivFacts
<1>4. c = a - n * k
  OBVIOUS
<1> HIDE DEF p, q, r, s, c
<1>5. n * (q - k) + r = n * p + s
  <2>1. n * (q - k) = n * q - n * k
    BY <1>1
  <2> QED BY <1>1, <1>3, <1>4, <2>1
<1>6. q - k \in Int
  BY <1>1
<1>7. q - k = p
  BY <1>1, <1>3, <1>5, <1>6, DivUnique
<1> QED BY <1>7 DEF p, q, c

LEMMA SlotFacts ==
    ASSUME dgp \in GlobalProperties, NEW t \in Nat
    PROVE  /\ SlotAt(t) \in Nat
           /\ dgp.num > 0 /\ SlotAt(t) > 0 =>
                 SlotAt(t) = t \div Interval - dgp.time \div Interval
<1> DEFINE I == Interval
           T == dgp.time
           q == T \div I
           F == FirstSlotTime
<1>1. T \in Nat /\ dgp.num \in Nat
  BY DEF GlobalProperties
<1>2. I \in Nat /\ I > 0
  BY IntervalFacts
<1>3. q \in Nat
  <2> HIDE DEF I, T
  <2> QED BY <1>1, <1>2, DivFacts
<1>4. F = IF dgp.num = 0 THEN T + I ELSE q * I + I
  BY DEF FirstSlotTime
<1>5. SlotAt(t) = IF t < F THEN 0 ELSE (t - F) \div I + 1
  BY DEF SlotAt
<1>6. t \div I \in Nat
  <2> HIDE DEF I
  <2> QED BY <1>2, DivFacts
<1> HIDE DEF I, T, q, F
<1>7. F \in Nat
  BY <1>1, <1>2, <1>3, <1>4
<1>8. CASE t < F
  BY <1>5, <1>8
<1>9. CASE ~(t < F)
  <2>1. t - F \in Nat
    BY <1>7, <1>9
  <2>2. (t - F) \div I \in Nat
    BY <1>2, <2>1, DivFacts
  <2>3. SlotAt(t) = (t - F) \div I + 1
    BY <1>5, <1>9
  <2>4. ASSUME dgp.num > 0
        PROVE  SlotAt(t) = t \div I - q
    <3>1. F = I * (q + 1)
      <4>1. F = q * I + I
        BY <1>1, <1>4, <2>4
      <4> QED BY <1>2, <1>3, <4>1
    <3>2. q + 1 \in Nat /\ I * (q + 1) <= t
      BY <1>3, <1>7, <1>9, <3>1
    <3>3. (t - I * (q + 1)) \div I = (t \div I) - (q + 1)
      BY <1>2, <3>2, DivShift
    <3>4. SlotAt(t) = (t \div I) - (q + 1) + 1
      BY <2>3, <3>1, <3>3
    <3> QED BY <1>3, <1>6, <3>4
  <2> QED BY <2>2, <2>3, <2>4 DEF I, q, T
<1> QED BY <1>8, <1>9

\* The window with one more slot: the count goes with the bits.
LEMMA WindowShift ==
    ASSUME NEW f \in [1 .. Window -> {0, 1}], NEW bit \in {0, 1}
    PROVE  /\ Append(Tail(f), bit) \in [1 .. Window -> {0, 1}]
           /\ Cardinality(Filled(f)) \in Nat
           /\ Cardinality(Filled(Append(Tail(f), bit))) = Cardinality(Filled(f)) - f[1] + bit
<1> DEFINE W == Window
           g == Append(Tail(f), bit)
           A == Filled(f) \ {1}
           B == Filled(g) \ {W}
           sh == [i \in A |-> i - 1]
<1>1. W \in Nat /\ W > 0
  BY IntervalFacts
<1>2. f \in Seq({0, 1}) /\ Len(f) = W /\ f # << >>
  BY <1>1
<1>3. Tail(f) \in Seq({0, 1}) /\ Len(Tail(f)) = W - 1 /\ \A i \in 1 .. W - 1 : Tail(f)[i] = f[i + 1]
  BY <1>1, <1>2
<1>4. /\ g \in Seq({0, 1}) /\ Len(g) = W /\ g[W] = bit
      /\ \A i \in 1 .. W - 1 : g[i] = f[i + 1]
  <2> DEFINE tl == Tail(f)
  <2> HIDE DEF tl
  <2>1. tl \in Seq({0, 1}) /\ Len(tl) = W - 1 /\ \A i \in 1 .. W - 1 : tl[i] = f[i + 1]
    BY <1>3 DEF tl
  <2>2. /\ Append(tl, bit) \in Seq({0, 1}) /\ Len(Append(tl, bit)) = W /\ Append(tl, bit)[W] = bit
        /\ \A i \in 1 .. W - 1 : Append(tl, bit)[i] = f[i + 1]
    BY <1>1, <2>1
  <2> QED BY <2>2 DEF tl
<1> HIDE DEF g
<1>5. g \in [1 .. W -> {0, 1}]
  BY <1>1, <1>4
<1>6. /\ \A i \in Filled(f) : i \in 1 .. W /\ f[i] = 1
      /\ \A i \in 1 .. W : f[i] = 1 => i \in Filled(f)
      /\ \A i \in Filled(g) : i \in 1 .. W /\ g[i] = 1
      /\ \A i \in 1 .. W : g[i] = 1 => i \in Filled(g)
  BY DEF Filled
<1> HIDE DEF W
<1>7. /\ IsFiniteSet(1 .. W)
      /\ Filled(f) \in SUBSET (1 .. W) /\ Filled(g) \in SUBSET (1 .. W)
  BY <1>1, <1>6, UpTo
<1>8. /\ IsFiniteSet(Filled(f)) /\ IsFiniteSet(Filled(g)) /\ IsFiniteSet(A) /\ IsFiniteSet(B)
      /\ Cardinality(A) = IF 1 \in Filled(f) THEN Cardinality(Filled(f)) - 1 ELSE Cardinality(Filled(f))
      /\ Cardinality(B) = IF W \in Filled(g) THEN Cardinality(Filled(g)) - 1 ELSE Cardinality(Filled(g))
  <2>1. IsFiniteSet(Filled(f)) /\ IsFiniteSet(Filled(g))
    BY <1>7, FS_Subset
  <2> QED BY <2>1, FS_RemoveElement
<1>9. \A i \in A : i \in 2 .. W /\ i - 1 \in B
  <2> SUFFICES ASSUME NEW i \in A
               PROVE  i \in 2 .. W /\ i - 1 \in B
    OBVIOUS
  <2>1. i \in 1 .. W /\ f[i] = 1 /\ i # 1
    BY <1>6
  <2>2. i \in 2 .. W /\ i - 1 \in 1 .. W - 1 /\ i - 1 \in 1 .. W /\ i - 1 # W /\ (i - 1) + 1 = i
    BY <1>1, <2>1
  <2>3. g[i - 1] = 1
    BY <1>4, <2>1, <2>2
  <2> QED BY <1>6, <2>2, <2>3
<1>10. \A j \in B : j \in 1 .. W /\ j + 1 \in A
  <2> SUFFICES ASSUME NEW j \in B
               PROVE  j \in 1 .. W /\ j + 1 \in A
    OBVIOUS
  <2>1. j \in 1 .. W /\ g[j] = 1 /\ j # W
    BY <1>6
  <2>2. j \in 1 .. W - 1 /\ j + 1 \in 1 .. W /\ j + 1 # 1
    BY <1>1, <2>1
  <2>3. f[j + 1] = 1
    BY <1>4, <2>1, <2>2
  <2> QED BY <1>6, <2>1, <2>2, <2>3
<1> HIDE DEF A, B
<1>11. ExistsBijection(A, B)
  <2>1. sh \in [A -> B]
    BY <1>9
  <2>2. \A i, j \in A : sh[i] = sh[j] => i = j
    BY <1>9
  <2>3. \A j \in B : \E i \in A : sh[i] = j
    <3> SUFFICES ASSUME NEW j \in B
                 PROVE  sh[j + 1] = j /\ j + 1 \in A
      BY Zenon
    <3> QED BY <1>1, <1>10
  <2> HIDE DEF sh
  <2>4. sh \in Injection(A, B) /\ sh \in Surjection(A, B)
    BY <2>1, <2>2, <2>3 DEF Injection, Surjection, IsInjective
  <2> QED BY <2>4 DEF ExistsBijection, Bijection
<1>12. Cardinality(B) = Cardinality(A)
  BY <1>8, <1>11, FS_Bijection
<1>13. Cardinality(Filled(f)) \in Nat /\ Cardinality(Filled(g)) \in Nat
  BY <1>8, FS_CardinalityType
<1>14. f[1] \in {0, 1} /\ (1 \in Filled(f) <=> f[1] = 1) /\ (W \in Filled(g) <=> bit = 1)
  <2>1. 1 \in 1 .. W /\ W \in 1 .. W
    BY <1>1
  <2> QED BY <1>4, <1>6, <2>1 DEF W
<1> DEFINE cf == Cardinality(Filled(f))
           cg == Cardinality(Filled(g))
           x == f[1]
<1>15. /\ cf \in Nat /\ cg \in Nat /\ x \in {0, 1}
       /\ (IF bit = 1 THEN cg - 1 ELSE cg) = (IF x = 1 THEN cf - 1 ELSE cf)
  BY <1>8, <1>12, <1>13, <1>14
<1> HIDE DEF cf, cg, x
<1>16. cg = cf - x + bit
  BY <1>15
<1> QED BY <1>5, <1>13, <1>16 DEF cf, cg, x, g, W

\* The slots that pass change the window, and the count with it.
LEMMA ShiftedFacts ==
    ASSUME NEW d \in GlobalProperties, d.count = Cardinality(Filled(d.filled)), NEW m \in Nat
    PROVE  /\ Shifted(d, m) \in GlobalProperties
           /\ Shifted(d, m).num = d.num /\ Shifted(d, m).aslot = d.aslot
           /\ Shifted(d, m).count = Cardinality(Filled(Shifted(d, m).filled))
<1> DEFINE G == {g \in GlobalProperties : /\ g.num = d.num /\ g.aslot = d.aslot
                                          /\ g.count = Cardinality(Filled(g.filled))}
           bit(i) == IF i = 1 THEN 1 ELSE 0
           One(g, i) == [g EXCEPT !.count = @ - g.filled[1] + bit(i),
                                  !.filled = Append(Tail(@), bit(i))]
           Solves(r) == r = [i \in 0 .. m + 1 |-> IF i = 0 THEN d ELSE One(r[i - 1], i)]
           R == CHOOSE r : Solves(r)
           F == [i \in 1 .. m + 1 |-> [g \in G |-> One(g, i)]]
<1>1. Shifted(d, m) = R[m + 1]
  BY DEF Shifted
<1>2. ASSUME NEW g \in G, NEW i \in 1 .. m + 1
      PROVE  One(g, i) \in G
  <2> DEFINE b == bit(i)
             f == g.filled
             c == g.count
             h == Append(Tail(f), b)
             n == c - f[1] + b
  <2>1. /\ g \in GlobalProperties /\ g.num = d.num /\ g.aslot = d.aslot
        /\ c = Cardinality(Filled(f))
    OBVIOUS
  <2>2. f \in [1 .. Window -> {0, 1}] /\ b \in {0, 1}
    BY <2>1 DEF GlobalProperties
  <2> HIDE DEF G, b, f, c
  <2>3. h \in [1 .. Window -> {0, 1}] /\ c \in Nat /\ Cardinality(Filled(h)) = n
    BY <2>1, <2>2, WindowShift
  <2>4. f[1] \in {0, 1}
    <3>1. 1 \in 1 .. Window
      BY IntervalFacts
    <3> QED BY <2>2, <3>1
  <2>5. n \in Int
    BY <2>2, <2>3, <2>4
  <2> HIDE DEF h, n
  <2>6. One(g, i) = [g EXCEPT !.count = n, !.filled = h]
    BY DEF n, h, b, f, c
  <2> HIDE DEF One
  <2>7. /\ One(g, i) \in GlobalProperties /\ One(g, i).num = g.num /\ One(g, i).aslot = g.aslot
        /\ One(g, i).count = n /\ One(g, i).filled = h
    BY <2>1, <2>3, <2>5, <2>6 DEF GlobalProperties
  <2> QED BY <2>1, <2>3, <2>7 DEF G
<1> HIDE DEF G, One
<1>3. F \in [1 .. m + 1 -> [G -> G]] /\ d \in G /\ m + 1 \in Nat
  BY <1>2 DEF G
<1>4. PICK g \in [0 .. m + 1 -> G] : g[0] = d /\ \A i \in 1 .. m + 1 : g[i] = F[i][g[i - 1]]
  <2> HIDE DEF F
  <2>1. \E g \in [0 .. m + 1 -> G] : Follows(g, d, F, m + 1)
    BY <1>3, Recursion
  <2> QED BY <2>1 DEF Follows
<1>5. \A i \in 0 .. m + 1 : i # 0 => i \in 1 .. m + 1 /\ i - 1 \in 0 .. m + 1
  OBVIOUS
<1>6. \A i \in 0 .. m + 1 : g[i] = IF i = 0 THEN d ELSE One(g[i - 1], i)
  <2> SUFFICES ASSUME NEW i \in 0 .. m + 1, i # 0
               PROVE  g[i] = One(g[i - 1], i)
    BY <1>4
  <2>1. i \in 1 .. m + 1 /\ g[i - 1] \in G
    BY <1>4, <1>5
  <2>2. F[i][g[i - 1]] = One(g[i - 1], i)
    BY <2>1
  <2> QED BY <1>4, <2>1, <2>2
<1>7. Solves(g)
  <2>1. g = [i \in 0 .. m + 1 |-> g[i]]
    BY <1>4
  <2> QED BY <1>6, <2>1
<1>8. Solves(R)
  <2> HIDE DEF Solves
  <2> QED BY <1>7
<1> HIDE DEF R, F
<1>9. R[0] = d /\ \A i \in 1 .. m + 1 : R[i] = One(R[i - 1], i)
  <2>1. \A i \in 0 .. m + 1 : R[i] = IF i = 0 THEN d ELSE One(R[i - 1], i)
    BY <1>8
  <2>2. 0 \in 0 .. m + 1 /\ \A i \in 1 .. m + 1 : i \in 0 .. m + 1 /\ i # 0
    OBVIOUS
  <2> HIDE DEF Solves
  <2> QED BY <2>1, <2>2
<1> HIDE DEF Solves
<1>10. \A i \in 0 .. m + 1 : R[i] \in G
  <2>1. \A i \in 1 .. m + 1 : R[i - 1] \in G => R[i] \in G
    BY <1>2, <1>9
  <2>2. R[0] \in G
    BY <1>3, <1>9
  <2> QED BY <1>3, <2>1, <2>2, Along
<1>11. R[m + 1] \in G
  BY <1>10
<1> QED BY <1>1, <1>11 DEF G

LEMMA DynamicDataFacts ==
    ASSUME dgp \in GlobalProperties, WindowInv, NEW t \in Nat, SlotAt(t) > 0
    PROVE  /\ DynamicData(t) \in GlobalProperties
           /\ DynamicData(t).num = dgp.num + 1 /\ DynamicData(t).time = t
           /\ DynamicData(t).aslot = dgp.aslot + SlotAt(t)
           /\ DynamicData(t).count = Cardinality(Filled(DynamicData(t).filled))
<1> DEFINE k == SlotAt(t)
           s == Shifted(dgp, k - 1)
<1>1. k \in Nat /\ k - 1 \in Nat
  BY SlotFacts
<1>2. /\ s \in GlobalProperties /\ s.num = dgp.num /\ s.aslot = dgp.aslot
      /\ s.count = Cardinality(Filled(s.filled))
  <2> HIDE DEF k
  <2> QED BY <1>1, ShiftedFacts DEF WindowInv
<1>3. DynamicData(t) = [s EXCEPT !.num = @ + 1, !.time = t, !.aslot = @ + k]
  BY DEF DynamicData
<1> HIDE DEF s, k
<1>4. s.num + 1 \in Nat /\ s.aslot + k \in Nat
  BY <1>1, <1>2 DEF GlobalProperties
<1>5. /\ DynamicData(t) \in GlobalProperties
      /\ DynamicData(t).num = s.num + 1 /\ DynamicData(t).time = t
      /\ DynamicData(t).aslot = s.aslot + k
      /\ DynamicData(t).count = s.count /\ DynamicData(t).filled = s.filled
  BY <1>2, <1>3, <1>4 DEF GlobalProperties
<1> QED BY <1>2, <1>5 DEF k

-----------------------------------------------------------------------------
(* Votes.                                                                  *)

LEMMA HardforkConstants ==
    /\ NumHardforks \in Nat /\ NumHardforks > 0 /\ FirstHardforkTime \in Nat
    /\ \A v \in Vote : v \in Ballot
BY ScheduleAssumption DEF Ballot

LEMMA BallotFacts ==
    /\ NoVote \in Ballot
    /\ \A x \in Ballot : /\ x \in Nat \X Nat /\ x = <<x[1], x[2]>>
                         /\ x[1] \in Nat /\ x[2] \in Nat
<1>1. GenesisTime \in Nat
  BY ScheduleAssumption
<1> QED BY <1>1 DEF NoVote, Ballot

LEMMA InitInv ==
    Init => Inv
<1> SUFFICES ASSUME Init
             PROVE  Inv
  OBVIOUS
<1>1. /\ bob = [w \in InitMiners |-> NewBobserver(TRUE)] /\ bpCount = 0 /\ sched = <<FirstMiner>>
      /\ phase = "idle" /\ block = NoBlock /\ ops = 0
      /\ round = [by |-> << >>, slot |-> 0]
      /\ hf = [last |-> 0, next |-> 0, nextTime |-> 0]
  BY DEF Init
<1>2. NewBobserver(TRUE) \in BobserverObject /\ NewBobserver(TRUE).vote \in Ballot
      /\ NewBobserver(TRUE).bp = FALSE
  <2>1. NoVote \in Nat \X Nat /\ NoVote \in Ballot
    BY BallotFacts
  <2> HIDE DEF NoVote
  <2> QED BY <2>1 DEF NewBobserver, BobserverObject
<1> HIDE DEF NewBobserver
<1>3. /\ DOMAIN bob = InitMiners /\ bob \in [DOMAIN bob -> BobserverObject]
      /\ \A w \in DOMAIN bob : bob[w] = NewBobserver(TRUE)
  BY <1>1, <1>2
<1>4. /\ InitMiners \subseteq Bobserver /\ IsFiniteSet(InitMiners) /\ FirstMiner \in InitMiners
      /\ MaxOps \in Nat
  BY ScheduleAssumption
<1>5. sched \in Seq(DOMAIN bob) /\ sched \in Seq(DOMAIN bob \cup {NoOne}) /\ Len(sched) = 1
      /\ \A i \in 1 .. Len(sched) : i = 1
  BY <1>1, <1>3, <1>4
<1>6. dgp \in GlobalProperties /\ dgp.count = Window /\ dgp.filled = [i \in 1 .. Window |-> 1]
  BY IntervalFacts DEF Init, GlobalProperties
<1>7. hf \in HardforkProperties /\ hf.last = 0 /\ hf.next = 0
  BY <1>1, HardforkConstants DEF HardforkProperties
<1>8. block \in [by : DOMAIN bob \cup {NoOne}, at : Nat]
  BY <1>1 DEF NoBlock
<1>9. round \in [by : Seq(Bobserver), slot : Nat] /\ round.by = << >>
  <2>1. << >> \in Seq(Bobserver)
    OBVIOUS
  <2> QED BY <1>1, <2>1
<1>10. TypeOK
  <2>1. /\ bpCount \in Nat /\ Len(sched) \in 1 .. NumBobservers /\ ops \in 0 .. MaxOps
        /\ phase \in {"idle", "txs", "stopped"} /\ DOMAIN bob \subseteq Bobserver
    BY <1>1, <1>3, <1>4, <1>5, ScheduleConstants
  <2> QED BY <1>3, <1>5, <1>6, <1>7, <1>8, <1>9, <2>1, Zenon DEF TypeOK
<1>11. VotesInv
  BY <1>2, <1>3 DEF VotesInv
<1>12. ScheduleInv
  BY <1>5 DEF ScheduleInv
<1>13. BlockInv /\ RoundInv
  <2>1. round.slot = 0 /\ dgp.aslot = 0
    BY <1>1 DEF Init
  <2> QED BY <1>1, <1>9, <2>1 DEF BlockInv, RoundInv
<1>14. WindowInv
  <2>1. Filled(dgp.filled) = 1 .. Window
    BY <1>6 DEF Filled
  <2> QED BY <1>6, <2>1, IntervalFacts, UpTo DEF WindowInv
<1>15. ProducersCounted
  <2>1. Producers(bob) = {}
    BY <1>2, <1>3 DEF Producers
  <2>2. Cardinality(Producers(bob)) = 0
    BY <2>1, FS_EmptySet
  <2>3. bpCount = 0 /\ 0 <= MaxVoted
    BY <1>1, ScheduleConstants
  <2> QED BY <2>1, <2>2, <2>3 DEF ProducersCounted
<1>16. HardforkInv
  BY <1>7 DEF HardforkInv, Backed
<1> QED BY <1>3, <1>4, <1>10, <1>11, <1>12, <1>13, <1>14, <1>15, <1>16 DEF Inv

\* A step inside a block, or before one, that changes the bobservers only.
LEMMA BobsChange ==
    ASSUME Inv, UNCHANGED <<sched, dgp, hf, phase, block, tally, round>>, ops' \in 0 .. MaxOps,
           DOMAIN bob \subseteq DOMAIN bob', DOMAIN bob' \subseteq Bobserver, IsFiniteSet(DOMAIN bob'),
           bob' \in [DOMAIN bob' -> BobserverObject], VotesInv', bpCount' \in Nat, ProducersCounted'
    PROVE  Inv'
<1>1. TypeOK
  BY DEF Inv
<1>2. \A S : sched \in Seq(S) /\ S \subseteq DOMAIN bob' => sched \in Seq(DOMAIN bob')
  OBVIOUS
<1>3. sched \in Seq(DOMAIN bob' \cup {NoOne})
  <2>1. DOMAIN bob \cup {NoOne} \subseteq DOMAIN bob' \cup {NoOne}
    OBVIOUS
  <2> QED BY <1>1, <2>1 DEF TypeOK
<1>4. block \in [by : DOMAIN bob' \cup {NoOne}, at : Nat]
  BY <1>1 DEF TypeOK
<1>5. TypeOK'
  BY <1>1, <1>3, <1>4 DEF TypeOK
<1>6. ScheduleInv'
  BY <1>2 DEF Inv, ScheduleInv
<1>7. BlockInv'
  BY <1>2 DEF Inv, BlockInv, SlotAt, FirstSlotTime, Scheduled
<1>8. RoundInv' /\ WindowInv' /\ HardforkInv'
  BY DEF Inv, RoundInv, WindowInv, HardforkInv, Backed
<1> QED BY <1>5, <1>6, <1>7, <1>8 DEF Inv

LEMMA NewFacts ==
    ASSUME NEW k \in BOOLEAN
    PROVE  /\ NewBobserver(k) \in BobserverObject /\ NewBobserver(k).vote \in Ballot
           /\ ~NewBobserver(k).bp
<1>1. NoVote \in Nat \X Nat /\ NoVote \in Ballot
  BY BallotFacts
<1> HIDE DEF NoVote
<1> QED BY <1>1 DEF NewBobserver, BobserverObject

LEMMA ProducersFinite ==
    ASSUME NEW b, IsFiniteSet(DOMAIN b)
    PROVE  IsFiniteSet(Producers(b))
<1>1. Producers(b) \in SUBSET DOMAIN b
  BY DEF Producers
<1> QED BY <1>1, FS_Subset

LEMMA BobserverUpdateInv ==
    ASSUME Inv, NEW w \in Bobserver, NEW k \in BOOLEAN, BobserverUpdate(w, k)
    PROVE  Inv'
<1> DEFINE D == DOMAIN bob
           old == [bob[w] EXCEPT !.key = k, !.excepted = FALSE]
<1>1. /\ D \subseteq Bobserver /\ bob \in [D -> BobserverObject] /\ ops \in Nat /\ ops < MaxOps
      /\ ops' = ops + 1 /\ MaxOps \in Nat /\ bpCount' = bpCount /\ bpCount \in Nat
      /\ IsFiniteSet(D) /\ ProducersCounted /\ VotesInv
      /\ UNCHANGED <<sched, dgp, hf, phase, block, tally, round>>
  <2>1. Operation /\ bpCount' = bpCount
    BY DEF BobserverUpdate
  <2>2. /\ ops < MaxOps /\ ops' = ops + 1
        /\ UNCHANGED <<sched, dgp, hf, phase, block, tally, round>>
    BY <2>1 DEF Operation
  <2>3. TypeOK /\ IsFiniteSet(D) /\ ProducersCounted /\ VotesInv
    BY DEF Inv
  <2>4. D \subseteq Bobserver /\ bob \in [D -> BobserverObject] /\ bpCount \in Nat /\ ops \in 0 .. MaxOps
    BY <2>3 DEF TypeOK
  <2>5. MaxOps \in Nat
    BY ScheduleAssumption
  <2>6. ops \in Nat
    BY <2>4, <2>5
  <2> QED BY <2>1, <2>2, <2>3, <2>4, <2>5, <2>6
<1>2. bob' = [x \in D \cup {w} |-> IF x # w THEN bob[x] ELSE IF w \in D THEN old ELSE NewBobserver(k)]
  BY DEF BobserverUpdate
<1>3. w \in D => /\ old \in BobserverObject /\ old.vote = bob[w].vote
                 /\ old.bp = bob[w].bp /\ ~old.excepted
  BY <1>1 DEF BobserverObject
<1> HIDE DEF old
<1>4. DOMAIN bob' = D \cup {w}
  BY <1>2
<1>5. /\ \A x \in D : x # w => bob'[x] = bob[x]
      /\ w \in D => bob'[w] = old
      /\ w \notin D => bob'[w] = NewBobserver(k)
  BY <1>2
<1>6. \A x \in D \cup {w} : bob'[x] \in BobserverObject
  <2>1. \A x \in D : bob[x] \in BobserverObject
    BY <1>1
  <2> QED BY <1>3, <1>5, <2>1, NewFacts, Zenon
<1>7. bob' \in [DOMAIN bob' -> BobserverObject]
  BY <1>2, <1>4, <1>6
<1>8. VotesInv'
  <2>1. \A x \in D \cup {w} : bob'[x].vote \in Ballot
    BY <1>1, <1>3, <1>5, NewFacts, Zenon DEF VotesInv
  <2> QED BY <1>4, <2>1 DEF VotesInv
<1>9. Producers(bob') = Producers(bob)
  <2>1. \A x \in Producers(bob') : x \in Producers(bob)
    BY <1>3, <1>4, <1>5, NewFacts, Zenon DEF Producers
  <2>2. \A x \in Producers(bob) : x \in Producers(bob')
    BY <1>3, <1>4, <1>5, NewFacts, Zenon DEF Producers
  <2> QED BY <2>1, <2>2
<1>10. ProducersCounted'
  <2>1. \A x \in Producers(bob) : ~bob'[x].excepted
    BY <1>1, <1>3, <1>5, Zenon DEF ProducersCounted, Producers
  <2> QED BY <1>1, <1>9, <2>1 DEF ProducersCounted
<1>11. IsFiniteSet(DOMAIN bob') /\ DOMAIN bob' \subseteq Bobserver /\ D \subseteq DOMAIN bob'
  BY <1>1, <1>4, FS_AddElement
<1>12. ops' \in 0 .. MaxOps
  BY <1>1
<1> QED BY <1>1, <1>7, <1>8, <1>10, <1>11, <1>12, BobsChange

\* A bobserver's object changes, and nobody comes or goes.
LEMMA OneChanges ==
    ASSUME Inv, NEW w \in DOMAIN bob, NEW o \in BobserverObject, o.vote \in Ballot,
           bob' = [bob EXCEPT ![w] = o]
    PROVE  /\ DOMAIN bob' = DOMAIN bob /\ bob' \in [DOMAIN bob' -> BobserverObject] /\ VotesInv'
           /\ bob'[w] = o /\ \A x \in DOMAIN bob : x # w => bob'[x] = bob[x]
           /\ IsFiniteSet(DOMAIN bob') /\ DOMAIN bob' \subseteq Bobserver
<1>1. /\ DOMAIN bob \subseteq Bobserver /\ bob \in [DOMAIN bob -> BobserverObject]
      /\ IsFiniteSet(DOMAIN bob) /\ VotesInv
  BY DEF Inv, TypeOK
<1>2. /\ DOMAIN bob' = DOMAIN bob /\ bob' \in [DOMAIN bob -> BobserverObject]
      /\ bob'[w] = o /\ \A x \in DOMAIN bob : x # w => bob'[x] = bob[x]
  BY <1>1
<1>3. \A x \in DOMAIN bob : bob'[x].vote \in Ballot
  BY <1>1, <1>2, Zenon DEF VotesInv
<1> QED BY <1>1, <1>2, <1>3 DEF VotesInv

LEMMA UpdateBproducerInv ==
    ASSUME Inv, NEW w \in Bobserver, NEW approve \in BOOLEAN, UpdateBproducer(w, approve)
    PROVE  Inv'
<1> DEFINE o == [bob[w] EXCEPT !.bp = approve]
           P == Producers(bob)
<1>1. /\ bob \in [DOMAIN bob -> BobserverObject] /\ ops \in Nat /\ ops < MaxOps
      /\ ops' = ops + 1 /\ MaxOps \in Nat /\ bpCount \in Nat
      /\ IsFiniteSet(DOMAIN bob) /\ VotesInv
      /\ bpCount = Cardinality(P) /\ bpCount <= MaxVoted
      /\ \A x \in P : ~bob[x].excepted
      /\ UNCHANGED <<sched, dgp, hf, phase, block, tally, round>>
  <2>1. Operation
    BY DEF UpdateBproducer
  <2>2. ops < MaxOps /\ ops' = ops + 1 /\ UNCHANGED <<sched, dgp, hf, phase, block, tally, round>>
    BY <2>1 DEF Operation
  <2>3. /\ bob \in [DOMAIN bob -> BobserverObject] /\ ops \in 0 .. MaxOps /\ bpCount \in Nat
        /\ IsFiniteSet(DOMAIN bob) /\ VotesInv /\ ProducersCounted
    BY DEF Inv, TypeOK
  <2>4. MaxOps \in Nat
    BY ScheduleAssumption
  <2>5. ops \in Nat
    BY <2>3, <2>4
  <2> QED BY <2>2, <2>3, <2>4, <2>5 DEF ProducersCounted
<1>2. /\ w \in DOMAIN bob /\ ~bob[w].excepted
      /\ approve => MaxVoted > bpCount
      /\ bob' = [bob EXCEPT ![w] = o]
      /\ bpCount' = IF approve = bob[w].bp THEN bpCount
                    ELSE IF approve THEN bpCount + 1 ELSE bpCount - 1
  BY <1>1 DEF UpdateBproducer
<1>3. bob[w] \in BobserverObject
  BY <1>1, <1>2
<1>4. /\ o \in BobserverObject /\ o.vote = bob[w].vote /\ o.bp = approve
      /\ ~o.excepted /\ bob[w].bp \in BOOLEAN
  BY <1>2, <1>3 DEF BobserverObject
<1>5. o.vote \in Ballot
  BY <1>1, <1>2, <1>4 DEF VotesInv
<1> HIDE DEF o
<1>6. /\ DOMAIN bob' = DOMAIN bob /\ bob' \in [DOMAIN bob' -> BobserverObject] /\ VotesInv'
      /\ bob'[w] = o /\ \A x \in DOMAIN bob : x # w => bob'[x] = bob[x]
      /\ IsFiniteSet(DOMAIN bob') /\ DOMAIN bob' \subseteq Bobserver
  BY <1>2, <1>4, <1>5, OneChanges
<1>7. \A x \in DOMAIN bob : x # w => (x \in Producers(bob') <=> x \in P)
  BY <1>6, Zenon DEF Producers
<1>8. (w \in Producers(bob') <=> approve) /\ (w \in P <=> bob[w].bp)
  BY <1>2, <1>4, <1>6, Zenon DEF Producers
<1>9. (\A x \in P : x \in DOMAIN bob) /\ (\A x \in Producers(bob') : x \in DOMAIN bob)
  BY <1>6 DEF Producers
<1> DEFINE Q == Producers(bob')
<1> HIDE DEF P, Q
<1>10. Q = IF approve THEN P \cup {w} ELSE P \ {w}
  <2>1. CASE approve
    <3>1. \A x : x \in Q <=> x \in P \cup {w}
      BY <1>2, <1>7, <1>8, <1>9, <2>1, Zenon DEF Q
    <3> QED BY <2>1, <3>1
  <2>2. CASE ~approve
    <3>1. \A x : x \in Q <=> x \in P \ {w}
      BY <1>2, <1>7, <1>8, <1>9, <2>2, Zenon DEF Q
    <3> QED BY <2>2, <3>1
  <2> QED BY <2>1, <2>2
<1>11. IsFiniteSet(P)
  BY <1>1, ProducersFinite DEF P
<1>12. bpCount' = Cardinality(Q) /\ bpCount' \in Nat /\ bpCount' <= MaxVoted
  <2>1. CASE approve
    <3>1. Cardinality(Q) = IF w \in P THEN Cardinality(P) ELSE Cardinality(P) + 1
      BY <1>10, <1>11, <2>1, FS_AddElement
    <3>2. bpCount' = IF w \in P THEN bpCount ELSE bpCount + 1
      BY <1>2, <1>4, <1>8, <2>1
    <3>3. MaxVoted > bpCount
      BY <1>2, <2>1
    <3>4. bpCount \in Nat /\ bpCount = Cardinality(P) /\ MaxVoted \in Nat
      BY <1>1, ScheduleConstants
    <3> QED BY <3>1, <3>2, <3>3, <3>4
  <2>2. CASE ~approve
    <3>1. Cardinality(Q) = IF w \in P THEN Cardinality(P) - 1 ELSE Cardinality(P)
      BY <1>10, <1>11, <2>2, FS_RemoveElement
    <3>2. bpCount' = IF w \in P THEN bpCount - 1 ELSE bpCount
      BY <1>2, <1>4, <1>8, <2>2
    <3>3. w \in P => Cardinality(P) # 0
      BY <1>11, FS_EmptySet
    <3> QED BY <1>1, <3>1, <3>2, <3>3, ScheduleConstants
  <2> QED BY <2>1, <2>2
<1>13. \A x \in Q : ~bob'[x].excepted
  <2>1. \A x \in Q : x = w \/ x \in P
    BY <1>7, <1>9 DEF Q
  <2> QED BY <1>1, <1>4, <1>6, <1>9, <2>1, Zenon DEF Q
<1>14. ProducersCounted'
  BY <1>12, <1>13 DEF ProducersCounted, Q
<1>15. ops' \in 0 .. MaxOps
  BY <1>1
<1> QED BY <1>1, <1>6, <1>12, <1>14, <1>15, BobsChange

\* A step that changes neither who produces nor, but for others, who is excepted.
LEMMA SameProducers ==
    ASSUME Inv, NEW w \in DOMAIN bob, NEW o \in BobserverObject, o.vote \in Ballot,
           bob' = [bob EXCEPT ![w] = o], bpCount' = bpCount, o.bp = bob[w].bp,
           o.bp => o.excepted = bob[w].excepted
    PROVE  ProducersCounted'
<1>1. /\ DOMAIN bob' = DOMAIN bob
      /\ bob'[w] = o /\ \A x \in DOMAIN bob : x # w => bob'[x] = bob[x]
  BY OneChanges
<1>2. ProducersCounted
  BY DEF Inv
<1>3. Producers(bob') = Producers(bob)
  <2>1. \A x : x \in Producers(bob') <=> x \in Producers(bob)
    BY <1>1, Zenon DEF Producers
  <2> QED BY <2>1
<1>4. \A x \in Producers(bob) : ~bob'[x].excepted
  <2> SUFFICES ASSUME NEW x \in Producers(bob)
               PROVE  ~bob'[x].excepted
    BY Zenon
  <2>1. x \in DOMAIN bob /\ bob[x].bp /\ ~bob[x].excepted
    BY <1>2 DEF Producers, ProducersCounted
  <2>2. CASE x = w
    BY <1>1, <2>1, <2>2
  <2>3. CASE x # w
    BY <1>1, <2>1, <2>3
  <2> QED BY <2>2, <2>3
<1> QED BY <1>2, <1>3, <1>4 DEF ProducersCounted

LEMMA ExceptBobserverInv ==
    ASSUME Inv, NEW w \in Bobserver, ExceptBobserver(w)
    PROVE  Inv'
<1> DEFINE o == [bob[w] EXCEPT !.excepted = TRUE]
<1>1. /\ bob \in [DOMAIN bob -> BobserverObject] /\ ops \in Nat /\ ops < MaxOps
      /\ ops' = ops + 1 /\ MaxOps \in Nat /\ bpCount' = bpCount /\ bpCount \in Nat /\ VotesInv
      /\ w \in DOMAIN bob /\ ~bob[w].bp
      /\ UNCHANGED <<sched, dgp, hf, phase, block, tally, round>>
  BY ScheduleAssumption DEF Inv, TypeOK, ExceptBobserver, Operation
<1>2. bob' = [bob EXCEPT ![w] = o]
  BY <1>1 DEF ExceptBobserver
<1>3. o \in BobserverObject /\ o.vote = bob[w].vote /\ o.bp = bob[w].bp
  BY <1>1 DEF BobserverObject
<1>4. o.vote \in Ballot
  BY <1>1, <1>3 DEF VotesInv
<1> HIDE DEF o
<1>5. ProducersCounted'
  BY <1>1, <1>2, <1>3, <1>4, SameProducers
<1>6. ops' \in 0 .. MaxOps /\ DOMAIN bob \subseteq DOMAIN bob
  BY <1>1
<1> QED BY <1>1, <1>2, <1>3, <1>4, <1>5, <1>6, OneChanges, BobsChange

\* The bobserver of a slot is one of the schedule.
LEMMA ScheduledFacts ==
    ASSUME Inv, NEW k \in Nat
    PROVE  /\ ((dgp.aslot + k) % Len(sched)) + 1 \in 1 .. Len(sched)
           /\ sched \in Seq(DOMAIN bob) => Scheduled(k) \in DOMAIN bob
           /\ sched = <<NoOne>> => Scheduled(k) = NoOne
<1> DEFINE L == Len(sched)
           a == dgp.aslot
           i == ((a + k) % L) + 1
<1>1. L \in Nat /\ L > 0 /\ a \in Nat
  BY ScheduleConstants DEF Inv, TypeOK, GlobalProperties
<1>2. (a + k) % L \in 0 .. L - 1
  <2> HIDE DEF L, a
  <2> QED BY <1>1, DivFacts
<1>3. Scheduled(k) = sched[i]
  BY DEF Scheduled
<1>4. i \in 1 .. L
  <2> HIDE DEF L, a
  <2> QED BY <1>1, <1>2
<1>5. sched = <<NoOne>> => L = 1 /\ sched[1] = NoOne
  OBVIOUS
<1> HIDE DEF i
<1>6. L = 1 => i = 1
  BY <1>1, <1>4
<1>7. sched \in Seq(DOMAIN bob) => sched[i] \in DOMAIN bob
  BY <1>4
<1> QED BY <1>3, <1>4, <1>5, <1>6, <1>7 DEF i

\* The vote of a bobserver after its block: the one it had, or the header's.
HeaderVote(w, v) == IF v = NoExtension THEN bob[w].vote ELSE v

LEMMA HeaderVoteFacts ==
    ASSUME Inv, NEW w \in DOMAIN bob, NEW v \in Vote \cup {NoExtension}
    PROVE  HeaderVote(w, v) \in Ballot
BY HardforkConstants DEF HeaderVote, Inv, VotesInv

LEMMA BeginBlockInv ==
    ASSUME Inv, NEW w \in Bobserver, NEW t \in dgp.time + 1 .. dgp.time + MaxGap,
           NEW v \in Vote \cup {NoExtension}, BeginBlock(w, t, v)
    PROVE  Inv'
<1> DEFINE o == [bob[w] EXCEPT !.vote = HeaderVote(w, v)]
<1>1. /\ phase = "idle" /\ dgp.time < t /\ SlotAt(t) > 0 /\ w = Scheduled(SlotAt(t))
      /\ w \in DOMAIN bob /\ phase' = "txs" /\ block' = [by |-> w, at |-> t]
      /\ UNCHANGED <<bpCount, sched, dgp, hf, ops, tally, round>>
  BY DEF BeginBlock, Keyed
<1>2. /\ TypeOK /\ ScheduleInv /\ RoundInv /\ WindowInv /\ HardforkInv
      /\ bob \in [DOMAIN bob -> BobserverObject] /\ dgp \in GlobalProperties /\ VotesInv
  BY DEF Inv, TypeOK
<1>3. bob' = [bob EXCEPT ![w] = o]
  <2>1. CASE v = NoExtension
    <3>1. bob' = bob
      BY <2>1 DEF BeginBlock, ProcessHeaderExtensions
    <3>2. o = [bob[w] EXCEPT !.vote = bob[w].vote]
      BY <2>1 DEF HeaderVote
    <3>3. bob[w] \in BobserverObject
      BY <1>1, <1>2
    <3>4. o = bob[w]
      BY <3>2, <3>3 DEF BobserverObject
    <3> HIDE DEF o
    <3>5. [bob EXCEPT ![w] = o] = bob
      BY <1>1, <1>2, <3>4
    <3> QED BY <3>1, <3>5
  <2>2. CASE v # NoExtension
    BY <1>1, <1>2, <2>2 DEF BeginBlock, ProcessHeaderExtensions, HeaderVote
  <2> QED BY <2>1, <2>2
<1>4. HeaderVote(w, v) \in Ballot /\ HeaderVote(w, v) \in Nat \X Nat
  BY <1>1, HeaderVoteFacts, BallotFacts
<1>5. /\ o \in BobserverObject /\ o.vote = HeaderVote(w, v)
      /\ o.bp = bob[w].bp /\ o.excepted = bob[w].excepted
  BY <1>1, <1>2, <1>4 DEF BobserverObject
<1> HIDE DEF o
<1>6. /\ DOMAIN bob' = DOMAIN bob /\ bob' \in [DOMAIN bob' -> BobserverObject] /\ VotesInv'
      /\ IsFiniteSet(DOMAIN bob') /\ DOMAIN bob' \subseteq Bobserver
  BY <1>1, <1>3, <1>4, <1>5, OneChanges
<1>7. ProducersCounted'
  BY <1>1, <1>3, <1>4, <1>5, SameProducers
<1>8. t \in Nat
  <2>1. dgp.time \in Nat /\ MaxGap \in Nat
    BY <1>2, ScheduleAssumption DEF GlobalProperties
  <2> QED BY <2>1
<1>9. SlotAt(t) \in Nat
  BY <1>2, <1>8, SlotFacts
<1>10. sched \in Seq(DOMAIN bob)
  <2>1. sched # <<NoOne>>
    BY <1>1, <1>9, ScheduledFacts, ScheduleAssumption
  <2> QED BY <1>2, <2>1 DEF ScheduleInv
<1>11. block' \in [by : DOMAIN bob' \cup {NoOne}, at : Nat] /\ block'.at = t /\ block'.by = w
  BY <1>1, <1>6, <1>8
<1>12. TypeOK'
  BY <1>1, <1>2, <1>6, <1>11 DEF TypeOK
<1>13. ScheduleInv'
  BY <1>1, <1>6, <1>2 DEF ScheduleInv
<1>14. BlockInv'
  <2>1. SlotAt(block.at)' = SlotAt(t) /\ Scheduled(SlotAt(block.at))' = Scheduled(SlotAt(t))
    BY <1>1, <1>11 DEF SlotAt, FirstSlotTime, Scheduled
  <2> QED BY <1>1, <1>6, <1>10, <1>11, <2>1 DEF BlockInv
<1>15. RoundInv' /\ WindowInv' /\ HardforkInv'
  BY <1>1, <1>2 DEF RoundInv, WindowInv, HardforkInv, Backed
<1> QED BY <1>6, <1>7, <1>12, <1>13, <1>14, <1>15 DEF Inv

LEMMA StopAtHardforkInv ==
    ASSUME Inv, StopAtHardfork
    PROVE  Inv'
<1>1. phase' = "stopped" /\ UNCHANGED <<bob, bpCount, sched, dgp, hf, block, ops, tally, round>>
  BY DEF StopAtHardfork
<1>2. TypeOK'
  BY <1>1 DEF Inv, TypeOK
<1>3. ScheduleInv' /\ BlockInv' /\ VotesInv' /\ ProducersCounted' /\ IsFiniteSet(DOMAIN bob')
  BY <1>1 DEF Inv, ScheduleInv, BlockInv, VotesInv, ProducersCounted
<1>4. RoundInv' /\ WindowInv' /\ HardforkInv'
  BY <1>1 DEF Inv, RoundInv, WindowInv, HardforkInv, Backed
<1> QED BY <1>2, <1>3, <1>4 DEF Inv

-----------------------------------------------------------------------------
(* The end of a block.                                                     *)

\* What the votes announce: a vote of the scheduled bobservers that has the
\* majority, or nothing.
LEMMA CountedFacts ==
    ASSUME Inv, phase = "txs", NEW n,
           tally' = IF n % NumBobservers = 0 THEN Votes ELSE tally
    PROVE  /\ Counted(n) \in HardforkProperties /\ Counted(n).last = hf.last
           /\ Counted(n).next > hf.last =>
                 Cardinality({w \in DOMAIN tally' :
                                tally'[w] = <<Counted(n).next, Counted(n).nextTime>>}) >= Required
<1>1. hf \in HardforkProperties /\ sched \in Seq(DOMAIN bob) /\ VotesInv
  BY DEF Inv, TypeOK, BlockInv
<1>2. CASE n % NumBobservers # 0
  <2>1. Counted(n) = hf /\ tally' = tally
    BY <1>2 DEF Counted
  <2> QED BY <1>1, <2>1 DEF Inv, HardforkInv, Backed
<1>3. CASE n % NumBobservers = 0
  <2> DEFINE votes == Votes
             h == Announced(votes)
  <2>1. Counted(n) = h /\ tally' = votes
    BY <1>3 DEF Counted
  <2>2. \A w \in DOMAIN votes : votes[w] \in Ballot
    <3>1. votes = [w \in ToSet(sched) |-> bob[w].vote]
      BY DEF Votes
    <3>2. \A w \in ToSet(sched) : w \in DOMAIN bob
      BY <1>1 DEF ToSet
    <3> HIDE DEF votes
    <3> QED BY <1>1, <3>1, <3>2 DEF VotesInv
  <2> HIDE DEF votes
  <2>3. CASE Majority(votes) = {}
    <3>1. h = [hf EXCEPT !.next = hf.last]
      BY <2>3 DEF Announced
    <3>2. hf.last \in 0 .. NumHardforks /\ hf.last \in Nat
      BY <1>1, HardforkConstants DEF HardforkProperties
    <3>3. h \in HardforkProperties /\ h.last = hf.last /\ h.next = hf.last
      BY <1>1, <3>1, <3>2 DEF HardforkProperties
    <3> QED BY <2>1, <3>2, <3>3
  <2>4. CASE Majority(votes) # {}
    <3> DEFINE v == CHOOSE v \in Majority(votes) : TRUE
    <3>1. h = [hf EXCEPT !.next = v[1], !.nextTime = v[2]]
      BY <2>4 DEF Announced
    <3>2. v \in Majority(votes)
      BY <2>4
    <3> HIDE DEF v
    <3>3. /\ v \in {votes[w] : w \in DOMAIN votes}
          /\ Cardinality({w \in DOMAIN votes : votes[w] = v}) >= Required
      BY <3>2 DEF Majority
    <3>4. v \in Ballot
      BY <2>2, <3>3
    <3>5. v[1] \in Nat /\ v[2] \in Nat /\ v = <<v[1], v[2]>>
      BY <3>4, BallotFacts
    <3>6. h \in HardforkProperties /\ h.last = hf.last /\ h.next = v[1] /\ h.nextTime = v[2]
      BY <1>1, <3>1, <3>5 DEF HardforkProperties
    <3> HIDE DEF h
    <3>7. <<h.next, h.nextTime>> = v
      BY <3>5, <3>6
    <3> QED BY <2>1, <3>3, <3>4, <3>6, <3>7
  <2> QED BY <2>3, <2>4
<1> QED BY <1>2, <1>3

\* Announced hardforks have their majority, and one that is applied after the
\* first has it as well.
Applies ==
    hf.last >= 1 /\ hf'.last # hf.last =>
       hf'.last > hf.last /\ hf'.last = hf'.next /\ hf'.nextTime <= dgp'.time /\ Backed'

LEMMA HardforkStep ==
    ASSUME Inv, phase = "txs", NEW n, ~Unknown(Counted(n), block.at),
           tally' = IF n % NumBobservers = 0 THEN Votes ELSE tally,
           hf' = Processed(Counted(n), block.at), dgp'.time = block.at
    PROVE  hf' \in HardforkProperties /\ HardforkInv' /\ Applies
<1> DEFINE h == Counted(n)
           t == block.at
           Has(g) == Cardinality({w \in DOMAIN tally' : tally'[w] = <<g.next, g.nextTime>>}) >= Required
<1>1. /\ h \in HardforkProperties /\ h.last = hf.last
      /\ h.next > hf.last => Has(h)
  BY CountedFacts
<1> HIDE DEF h, t, Has
<1>3. /\ h.last \in 0 .. NumHardforks /\ h.last \in Nat /\ h.next \in Nat /\ h.nextTime \in Nat
  BY <1>1, HardforkConstants DEF HardforkProperties
<1>4. hf' = Processed(h, t) /\ dgp'.time = t /\ ~Unknown(h, t)
  BY DEF h, t
<1>5. SUFFICES /\ hf' \in HardforkProperties
               /\ hf'.next > hf'.last => Has(hf')
               /\ h.last >= 1 /\ hf'.last # h.last =>
                     hf'.last > h.last /\ hf'.last = hf'.next /\ hf'.nextTime <= t /\ Has(hf')
  BY <1>1, <1>4 DEF HardforkInv, Backed, Applies, Has
<1>6. CASE ~Voting(h) /\ FirstHardforkTime <= t
  <2>1. hf' = [h EXCEPT !.last = 1] /\ h.last = 0
    BY <1>3, <1>4, <1>6 DEF Processed, Voting
  <2>2. 1 \in 0 .. NumHardforks
    BY HardforkConstants
  <2>3. /\ hf' \in HardforkProperties /\ hf'.last = 1 /\ hf'.next = h.next
        /\ hf'.nextTime = h.nextTime
    BY <1>1, <2>1, <2>2 DEF HardforkProperties
  <2>4. hf'.next > hf'.last => h.next > h.last
    BY <1>3, <2>1, <2>3
  <2>5. Has(h) => Has(hf')
    BY <2>3 DEF Has
  <2> QED BY <1>1, <2>1, <2>3, <2>4, <2>5
<1>7. CASE Voting(h) /\ Due(h, t)
  <2>1. hf' = [h EXCEPT !.last = h.next] /\ h.next > h.last /\ h.nextTime <= t /\ h.next <= NumHardforks
    <3>1. hf' = [h EXCEPT !.last = h.next]
      BY <1>4, <1>7, Zenon DEF Processed
    <3>2. h.next > h.last /\ h.nextTime <= t /\ ~(h.next > NumHardforks)
      BY <1>4, <1>7, Zenon DEF Unknown, Due
    <3> QED BY <1>3, <3>1, <3>2, HardforkConstants
  <2>2. h.next \in 0 .. NumHardforks
    BY <1>3, <2>1, HardforkConstants
  <2>3. /\ hf' \in HardforkProperties /\ hf'.last = h.next /\ hf'.next = h.next
        /\ hf'.nextTime = h.nextTime
    BY <1>1, <2>1, <2>2 DEF HardforkProperties
  <2>4. ~(hf'.next > hf'.last)
    BY <1>3, <2>3
  <2>5. Has(hf')
    BY <1>1, <2>1, <2>3 DEF Has
  <2> QED BY <2>1, <2>3, <2>4, <2>5
<1>8. CASE /\ ~(~Voting(h) /\ FirstHardforkTime <= t)
           /\ ~(Voting(h) /\ Due(h, t))
  <2>1. hf' = h
    BY <1>4, <1>8 DEF Processed
  <2> QED BY <1>1, <2>1
<1> QED BY <1>6, <1>7, <1>8

\* The excepted bobservers lose their keys and nothing else.
LEMMA ShutDownFacts ==
    ASSUME Inv
    PROVE  /\ DOMAIN ShutDown = DOMAIN bob /\ ShutDown \in [DOMAIN bob -> BobserverObject]
           /\ \A w \in DOMAIN bob : /\ ShutDown[w].vote = bob[w].vote
                                    /\ ShutDown[w].bp = bob[w].bp
                                    /\ ShutDown[w].excepted = bob[w].excepted
           /\ Producers(ShutDown) = Producers(bob)
           /\ Fit(ShutDown)
<1> DEFINE o(w) == [bob[w] EXCEPT !.key = @ /\ ~bob[w].excepted]
<1>1. bob \in [DOMAIN bob -> BobserverObject] /\ IsFiniteSet(DOMAIN bob) /\ ProducersCounted
  BY DEF Inv, TypeOK
<1>2. ShutDown = [w \in DOMAIN bob |-> o(w)]
  BY DEF ShutDown
<1>3. \A w \in DOMAIN bob : /\ o(w) \in BobserverObject /\ o(w).vote = bob[w].vote
                            /\ o(w).bp = bob[w].bp /\ o(w).excepted = bob[w].excepted
  <2> SUFFICES ASSUME NEW w \in DOMAIN bob
               PROVE  /\ o(w) \in BobserverObject /\ o(w).vote = bob[w].vote
                      /\ o(w).bp = bob[w].bp /\ o(w).excepted = bob[w].excepted
    OBVIOUS
  <2>1. bob[w] \in BobserverObject
    BY <1>1
  <2> DEFINE x == bob[w]
             k == x.key /\ ~x.excepted
  <2>2. k \in BOOLEAN
    OBVIOUS
  <2>3. o(w) = [x EXCEPT !.key = k]
    OBVIOUS
  <2> HIDE DEF x, k, o
  <2>4. x \in BobserverObject
    BY <2>1 DEF x
  <2> QED BY <2>2, <2>3, <2>4 DEF BobserverObject, x
<1> HIDE DEF o
<1>4. /\ DOMAIN ShutDown = DOMAIN bob /\ ShutDown \in [DOMAIN bob -> BobserverObject]
      /\ \A w \in DOMAIN bob : ShutDown[w] = o(w)
  BY <1>2, <1>3
<1> HIDE DEF ShutDown
<1>5. \A w \in DOMAIN bob : /\ ShutDown[w].vote = bob[w].vote
                            /\ ShutDown[w].bp = bob[w].bp
                            /\ ShutDown[w].excepted = bob[w].excepted
  BY <1>3, <1>4, Zenon
<1>6. Producers(ShutDown) = Producers(bob)
  <2>1. \A w : w \in Producers(ShutDown) <=> w \in Producers(bob)
    BY <1>4, <1>5, Zenon DEF Producers
  <2> QED BY <2>1
<1>7. Fit(ShutDown)
  BY <1>1, <1>4, <1>6 DEF Fit, ProducersCounted
<1> QED BY <1>4, <1>5, <1>6, <1>7

\* update_bobserver_schedule4() schedules nobody only when nobody has a key.
LEMMA NewSchedule ==
    ASSUME Inv, NEW n, n % NumBobservers = 0, UpdateSchedule(n)
    PROVE  /\ bob' = ShutDown
           /\ \/ sched' = <<NoOne>> /\ Keyed(ShutDown) = {}
              \/ Complete(ShutDown, sched') /\ Len(sched') > 0
<1> DEFINE b == ShutDown
<1>1. bob' = b /\ \E pick \in Draws(Len(Available(b))) :
                     LET a == Active(b, pick)
                     IN  IF a = << >> THEN sched' = <<NoOne>>
                         ELSE \E d \in Draws(Len(a)) : sched' = Shuffled(a, d)
  BY DEF UpdateSchedule
<1> HIDE DEF b
<1>2. PICK pick \in Draws(Len(Available(b))) :
         LET a == Active(b, pick)
         IN  IF a = << >> THEN sched' = <<NoOne>>
             ELSE \E d \in Draws(Len(a)) : sched' = Shuffled(a, d)
  BY <1>1
<1> DEFINE a == Active(b, pick)
<1>3. Complete(b, a)
  BY ShutDownFacts, ActiveFacts DEF b
<1>4. IF a = << >> THEN sched' = <<NoOne>> ELSE \E d \in Draws(Len(a)) : sched' = Shuffled(a, d)
  BY <1>2
<1> HIDE DEF a
<1>5. a \in Seq(Keyed(b)) /\ (Len(a) = NumBobservers \/ ToSet(a) = Keyed(b))
  BY <1>3, CompleteFacts
<1>6. CASE a = << >>
  <2>1. Len(a) = 0 /\ ToSet(a) = {}
    BY <1>6 DEF ToSet
  <2>2. Keyed(b) = {}
    BY <1>5, <2>1, ScheduleConstants
  <2> QED BY <1>1, <1>4, <1>6, <2>2 DEF b
<1>7. CASE a # << >>
  <2>1. PICK d \in Draws(Len(a)) : sched' = Shuffled(a, d)
    BY <1>4, <1>7
  <2>2. Complete(b, sched') /\ Len(sched') = Len(a)
    BY <1>3, <2>1, ShuffleCompletes
  <2>3. Len(a) > 0
    BY <1>3, <1>7, CompleteFacts
  <2> QED BY <1>1, <2>2, <2>3 DEF b
<1> QED BY <1>6, <1>7

LEMMA EndBlockInv ==
    ASSUME Inv, EndBlock
    PROVE  Inv'
<1> DEFINE n == dgp.num + 1
           t == block.at
           k == SlotAt(t)
<1>1. /\ phase = "txs" /\ ~Unknown(Counted(n), t) /\ dgp' = DynamicData(t)
      /\ UpdateSchedule(n) /\ hf' = Processed(Counted(n), t)
      /\ phase' = "idle" /\ block' = NoBlock /\ UNCHANGED <<bpCount, ops>>
  BY DEF EndBlock
<1>2. /\ DOMAIN bob \subseteq Bobserver /\ bob \in [DOMAIN bob -> BobserverObject]
      /\ bpCount \in Nat /\ ops \in 0 .. MaxOps /\ dgp \in GlobalProperties /\ WindowInv
      /\ round \in [by : Seq(Bobserver), slot : Nat] /\ IsFiniteSet(DOMAIN bob)
      /\ VotesInv /\ ProducersCounted /\ RoundInv /\ ScheduleInv
      /\ sched \in Seq(DOMAIN bob \cup {NoOne}) /\ Len(sched) \in 1 .. NumBobservers
  BY DEF Inv, TypeOK
<1>3. /\ sched \in Seq(DOMAIN bob) /\ t \in Nat /\ dgp.time < t /\ k > 0
      /\ block.by = Scheduled(k)
  BY <1>1 DEF Inv, TypeOK, BlockInv
<1>4. k \in Nat
  BY <1>2, <1>3, SlotFacts
<1>5. /\ dgp' \in GlobalProperties /\ dgp'.time = t /\ dgp'.aslot = dgp.aslot + k
      /\ dgp'.count = Cardinality(Filled(dgp'.filled))
  BY <1>1, <1>2, <1>3, DynamicDataFacts
<1>6. dgp.aslot \in Nat /\ round.slot \in Nat /\ round.by \in Seq(Bobserver)
  BY <1>2 DEF GlobalProperties
<1>7. tally' = IF n % NumBobservers = 0 THEN Votes ELSE tally
  BY <1>1 DEF UpdateSchedule
<1>8. hf' \in HardforkProperties /\ HardforkInv'
  BY <1>1, <1>5, <1>7, HardforkStep
<1>9. WindowInv'
  BY <1>5 DEF WindowInv, Filled
<1>10. BlockInv' /\ block' \in [by : DOMAIN bob' \cup {NoOne}, at : Nat]
  BY <1>1 DEF BlockInv, NoBlock
<1> HIDE DEF n, t, k
<1>11. CASE n % NumBobservers = 0
  <2>1. /\ bob' = ShutDown
        /\ \/ sched' = <<NoOne>> /\ Keyed(ShutDown) = {}
           \/ Complete(ShutDown, sched') /\ Len(sched') > 0
    BY <1>1, <1>11, NewSchedule
  <2>2. /\ DOMAIN bob' = DOMAIN bob /\ bob' \in [DOMAIN bob' -> BobserverObject]
        /\ \A w \in DOMAIN bob : /\ bob'[w].vote = bob[w].vote
                                 /\ bob'[w].bp = bob[w].bp
                                 /\ bob'[w].excepted = bob[w].excepted
        /\ Producers(bob') = Producers(bob)
    BY <2>1, ShutDownFacts
  <2>3. VotesInv'
    BY <1>2, <2>2 DEF VotesInv
  <2>4. ProducersCounted'
    <3>1. \A w \in Producers(bob) : w \in DOMAIN bob /\ ~bob[w].excepted
      BY <1>2 DEF ProducersCounted, Producers
    <3>2. \A w \in Producers(bob) : ~bob'[w].excepted
      BY <2>2, <3>1
    <3> QED BY <1>1, <1>2, <2>2, <3>2 DEF ProducersCounted
  <2>5. /\ sched' \in Seq(DOMAIN bob' \cup {NoOne}) /\ Len(sched') \in 1 .. NumBobservers
        /\ sched' \in Seq(DOMAIN bob') \/ sched' = <<NoOne>>
        /\ \A i, j \in 1 .. Len(sched') : sched'[i] = sched'[j] => i = j
    <3>1. CASE sched' = <<NoOne>>
      BY <3>1, ScheduleConstants
    <3>2. CASE Complete(ShutDown, sched') /\ Len(sched') > 0
      <4>1. /\ sched' \in Seq(Keyed(ShutDown)) /\ Len(sched') \in 0 .. NumBobservers
            /\ \A i, j \in 1 .. Len(sched') : sched'[i] = sched'[j] => i = j
        BY <3>2, CompleteFacts
      <4>2. Keyed(ShutDown) \subseteq DOMAIN bob'
        BY <2>1 DEF Keyed
      <4>3. sched' \in Seq(DOMAIN bob') /\ sched' \in Seq(DOMAIN bob' \cup {NoOne})
        <5>1. \A i \in 1 .. Len(sched') : sched'[i] \in DOMAIN bob'
          BY <4>1, <4>2
        <5> QED BY <4>1, <5>1
      <4> QED BY <3>2, <4>1, <4>3, ScheduleConstants
    <3> QED BY <2>1, <3>1, <3>2
  <2>6. round' = [by |-> << >>, slot |-> dgp'.aslot]
    BY <1>1, <1>11 DEF UpdateSchedule
  <2>7. dgp'.aslot \in Nat
    BY <1>5 DEF GlobalProperties
  <2>8. round' \in [by : Seq(Bobserver), slot : Nat] /\ round'.by = << >> /\ round'.slot = dgp'.aslot
    <3>1. << >> \in Seq(Bobserver)
      OBVIOUS
    <3> QED BY <2>6, <2>7, <3>1
  <2>9. RoundInv'
    BY <2>7, <2>8 DEF RoundInv
  <2>10. TypeOK'
    BY <1>1, <1>2, <1>5, <1>8, <1>10, <2>2, <2>5, <2>8 DEF TypeOK
  <2>11. ScheduleInv'
    BY <2>5 DEF ScheduleInv
  <2>12. IsFiniteSet(DOMAIN bob')
    BY <1>2, <2>2
  <2> QED BY <1>8, <1>9, <1>10, <2>3, <2>4, <2>9, <2>10, <2>11, <2>12 DEF Inv
<1>12. CASE n % NumBobservers # 0
  <2>1. round' = [round EXCEPT !.by = Append(@, block.by)] /\ UNCHANGED <<bob, sched, tally>>
    BY <1>1, <1>12 DEF UpdateSchedule
  <2>2. block.by \in Bobserver
    BY <1>2, <1>3, <1>4, ScheduledFacts
  <2>3. /\ round' \in [by : Seq(Bobserver), slot : Nat] /\ round'.slot = round.slot
        /\ round'.by = Append(round.by, block.by)
    <3> DEFINE A == Append(round.by, block.by)
    <3>1. round \in [by : Seq(Bobserver), slot : Nat]
      BY <1>2 DEF TypeOK
    <3>2. A \in Seq(Bobserver)
      BY <2>2, <3>1
    <3>3. round' = [round EXCEPT !.by = A]
      BY <2>1
    <3>4. /\ round' \in [by : Seq(Bobserver), slot : Nat] /\ round'.slot = round.slot
          /\ round'.by = A
      <4> HIDE DEF A
      <4> QED BY <3>1, <3>2, <3>3
    <3> QED BY <3>4
  <2>4. RoundInv'
    <3> DEFINE B == round.by
               L == Len(B)
               r == round.slot
               a == dgp.aslot
    <3>1. /\ B \in Seq(Bobserver) /\ L \in Nat /\ r \in Nat /\ a \in Nat /\ r <= a /\ k > 0 /\ k \in Nat
          /\ \A j \in 1 .. L : \E s \in r + 1 .. a : B[j] = sched[(s % Len(sched)) + 1]
      BY <1>2, <1>3, <1>4, <1>6 DEF RoundInv
    <3>2. block.by = sched[((a + k) % Len(sched)) + 1]
      BY <1>3 DEF Scheduled
    <3>3. round'.by = Append(B, block.by) /\ round'.slot = r /\ dgp'.aslot = a + k /\ sched' = sched
      BY <1>5, <2>1, <2>3
    <3> HIDE DEF B, L, r, a
    <3>4. \A s \in r + 1 .. a : s \in r + 1 .. a + k
      BY <3>1
    <3>5. a + k \in r + 1 .. a + k /\ r <= a + k
      BY <3>1
    <3>6. /\ Len(Append(B, block.by)) = L + 1 /\ Append(B, block.by)[L + 1] = block.by
          /\ \A j \in 1 .. L : Append(B, block.by)[j] = B[j]
      BY <2>2, <3>1 DEF L
    <3>7. ASSUME NEW j \in 1 .. L + 1
          PROVE  \E s \in r + 1 .. a + k : Append(B, block.by)[j] = sched[(s % Len(sched)) + 1]
      <4>1. CASE j = L + 1
        BY <3>2, <3>5, <3>6, <4>1
      <4>2. CASE j \in 1 .. L
        <5>1. PICK s \in r + 1 .. a : B[j] = sched[(s % Len(sched)) + 1]
          BY <3>1, <4>2
        <5> QED BY <3>4, <3>6, <4>2, <5>1
      <4>3. j = L + 1 \/ j \in 1 .. L
        BY <3>1
      <4> QED BY <4>1, <4>2, <4>3, Zenon
    <3> QED BY <3>3, <3>5, <3>6, <3>7 DEF RoundInv
  <2>5. TypeOK'
    BY <1>1, <1>2, <1>5, <1>8, <1>10, <2>1, <2>3 DEF TypeOK
  <2>6. ScheduleInv' /\ VotesInv' /\ ProducersCounted' /\ IsFiniteSet(DOMAIN bob')
    BY <1>1, <1>2, <2>1 DEF ScheduleInv, VotesInv, ProducersCounted
  <2> QED BY <1>8, <1>9, <1>10, <2>4, <2>5, <2>6 DEF Inv
<1> QED BY <1>11, <1>12


-----------------------------------------------------------------------------
(* The specification.                                                      *)

LEMMA NextInv ==
    ASSUME Inv, [Next]_vars
    PROVE  Inv'
<1>1. ASSUME NEW w \in Bobserver, NEW t \in dgp.time + 1 .. dgp.time + MaxGap,
             NEW v \in Vote \cup {NoExtension}, BeginBlock(w, t, v)
      PROVE  Inv'
  BY <1>1, BeginBlockInv
<1>2. ASSUME NEW w \in Bobserver, NEW k \in BOOLEAN, BobserverUpdate(w, k)
      PROVE  Inv'
  BY <1>2, BobserverUpdateInv
<1>3. ASSUME NEW w \in Bobserver, NEW approve \in BOOLEAN, UpdateBproducer(w, approve)
      PROVE  Inv'
  BY <1>3, UpdateBproducerInv
<1>4. ASSUME NEW w \in Bobserver, ExceptBobserver(w)
      PROVE  Inv'
  BY <1>4, ExceptBobserverInv
<1>5. CASE EndBlock
  BY <1>5, EndBlockInv
<1>6. CASE StopAtHardfork
  BY <1>6, StopAtHardforkInv
<1>7. CASE UNCHANGED vars
  <2>1. UNCHANGED <<bob, bpCount, sched, dgp, hf, phase, block, ops, tally, round>>
    BY <1>7 DEF vars
  <2>2. TypeOK'
    BY <2>1 DEF Inv, TypeOK
  <2>3. ScheduleInv' /\ BlockInv' /\ VotesInv' /\ ProducersCounted' /\ IsFiniteSet(DOMAIN bob')
    BY <2>1 DEF Inv, ScheduleInv, BlockInv, SlotAt, FirstSlotTime, Scheduled, VotesInv,
                ProducersCounted
  <2>4. RoundInv' /\ WindowInv' /\ HardforkInv'
    BY <2>1 DEF Inv, RoundInv, WindowInv, HardforkInv, Backed
  <2> QED BY <2>2, <2>3, <2>4 DEF Inv
<1> QED BY <1>1, <1>2, <1>3, <1>4, <1>5, <1>6, <1>7 DEF Next

\* The invariant of the bobservers, for every number of them and every history.
THEOREM Safety ==
    Spec => []Inv
<1>1. Init => Inv
  BY InitInv
<1>2. Inv /\ [Next]_vars => Inv'
  BY NextInv
<1> QED BY <1>1, <1>2, PTL DEF Spec

\* Every record of the schedule keeps its type.
THEOREM TypeCorrect ==
    Spec => []TypeOK
<1>1. Inv => TypeOK
  BY DEF Inv
<1> QED BY <1>1, Safety, PTL

\* current_bproducer_count counts the producers, at most the places that can
\* be voted for, and no producer is excepted.
THEOREM ProducersAreCounted ==
    Spec => []ProducersCounted
<1>1. Inv => ProducersCounted
  BY DEF Inv
<1> QED BY <1>1, Safety, PTL

\* Only the end of a block moves the slots and the schedule, and only the
\* beginning of one names a producer.
LEMMA StepKinds ==
    ASSUME Inv, [Next]_vars
    PROVE  \/ EndBlock
           \/ /\ UNCHANGED <<dgp, sched, round, hf>>
              /\ \/ \E w \in Bobserver, t \in Nat, v \in Vote \cup {NoExtension} : BeginBlock(w, t, v)
                 \/ ~(phase = "idle" /\ phase' = "txs")
<1>0. dgp.time \in Nat /\ MaxGap \in Nat
  BY ScheduleAssumption DEF Inv, TypeOK, GlobalProperties
<1>1. ASSUME NEW w \in Bobserver, NEW t \in dgp.time + 1 .. dgp.time + MaxGap,
             NEW v \in Vote \cup {NoExtension}, BeginBlock(w, t, v)
      PROVE  /\ UNCHANGED <<dgp, sched, round, hf>>
             /\ \E x \in Bobserver, y \in Nat, z \in Vote \cup {NoExtension} : BeginBlock(x, y, z)
  <2>1. t \in Nat
    BY <1>0
  <2>2. UNCHANGED <<dgp, sched, round, hf>>
    BY <1>1 DEF BeginBlock
  <2> QED BY <1>1, <2>1, <2>2
<1>2. ASSUME Operation
      PROVE  UNCHANGED <<dgp, sched, round, hf>> /\ ~(phase = "idle" /\ phase' = "txs")
  BY <1>2 DEF Operation
<1>3. ASSUME NEW w \in Bobserver, NEW k \in BOOLEAN, BobserverUpdate(w, k)
      PROVE  Operation
  BY <1>3 DEF BobserverUpdate
<1>4. ASSUME NEW w \in Bobserver, NEW approve \in BOOLEAN, UpdateBproducer(w, approve)
      PROVE  Operation
  BY <1>4 DEF UpdateBproducer
<1>5. ASSUME NEW w \in Bobserver, ExceptBobserver(w)
      PROVE  Operation
  BY <1>5 DEF ExceptBobserver
<1>6. CASE StopAtHardfork
  BY <1>6 DEF StopAtHardfork
<1>7. CASE UNCHANGED vars
  BY <1>7 DEF vars
<1> QED BY <1>1, <1>2, <1>3, <1>4, <1>5, <1>6, <1>7 DEF Next

\* Whatever headers vote for, a hardfork to come has the votes it needs, and one
\* that comes after the first was voted for, with its time, and is due.
THEOREM HardforksHaveMajority ==
    Spec => HardforkHasMajority
<1>1. ASSUME Inv, Inv', [Next]_vars
      PROVE  /\ hf'.next > hf'.last => Backed'
             /\ Applies
  <2>1. hf'.next > hf'.last => Backed'
    BY <1>1 DEF Inv, HardforkInv
  <2>2. CASE EndBlock
    <3> DEFINE n == dgp.num + 1
    <3>1. /\ phase = "txs" /\ ~Unknown(Counted(n), block.at) /\ dgp' = DynamicData(block.at)
          /\ UpdateSchedule(n) /\ hf' = Processed(Counted(n), block.at)
      BY <2>2 DEF EndBlock
    <3>2. tally' = IF n % NumBobservers = 0 THEN Votes ELSE tally
      BY <3>1 DEF UpdateSchedule
    <3>3. dgp \in GlobalProperties /\ WindowInv /\ block.at \in Nat /\ dgp.time < block.at
          /\ SlotAt(block.at) > 0
      BY <1>1, <3>1 DEF Inv, TypeOK, BlockInv
    <3>4. dgp'.time = block.at
      BY <3>1, <3>3, DynamicDataFacts
    <3> HIDE DEF n
    <3> QED BY <1>1, <2>1, <3>1, <3>2, <3>4, HardforkStep
  <2>3. CASE ~EndBlock
    <3>1. hf' = hf
      BY <1>1, <2>3, StepKinds
    <3> QED BY <2>1, <3>1 DEF Applies
  <2> QED BY <2>2, <2>3
<1>2. ASSUME Inv, Inv', [Next]_vars
      PROVE  [/\ hf'.next > hf'.last => Backed'
              /\ hf.last >= 1 /\ hf'.last # hf.last =>
                    hf'.last > hf.last /\ hf'.last = hf'.next /\ hf'.nextTime <= dgp'.time /\ Backed']_vars
  BY <1>1, <1>2 DEF Applies
<1> QED BY <1>2, Safety, PTL DEF Spec, HardforkHasMajority

\* What update_bobserver_schedule4() makes of the bobservers, for every draw of
\* the random generator: everybody once, only such as can sign, every producer
\* that can, and no empty place that somebody could fill.
THEOREM SchedulesAreComplete ==
    Spec => ScheduleComplete
<1>1. ASSUME Inv, [Next]_vars, round'.slot # round.slot
      PROVE  \/ sched' = <<NoOne>> /\ Keyed(bob') = {}
             \/ /\ \A i, j \in DOMAIN sched' : sched'[i] = sched'[j] => i = j
                /\ ToSet(sched') \subseteq Keyed(bob')
                /\ Producers(bob') \cap Keyed(bob') \subseteq ToSet(sched')
                /\ Len(sched') = NumBobservers \/ ToSet(sched') = Keyed(bob')
  <2> DEFINE n == dgp.num + 1
  <2>1. EndBlock
    BY <1>1, StepKinds
  <2>2. UpdateSchedule(n)
    BY <2>1 DEF EndBlock
  <2>3. round \in [by : Seq(Bobserver), slot : Nat]
    BY <1>1 DEF Inv, TypeOK
  <2> HIDE DEF n
  <2>4. n % NumBobservers = 0
    <3>1. CASE n % NumBobservers # 0
      <4>1. round' = [round EXCEPT !.by = Append(@, block.by)]
        BY <2>2, <3>1 DEF UpdateSchedule
      <4>2. round'.slot = round.slot
        BY <2>3, <4>1
      <4> QED BY <1>1, <4>2
    <3> QED BY <3>1
  <2>5. /\ bob' = ShutDown
        /\ \/ sched' = <<NoOne>> /\ Keyed(ShutDown) = {}
           \/ Complete(ShutDown, sched') /\ Len(sched') > 0
    BY <1>1, <2>2, <2>4, NewSchedule
  <2>6. CASE Complete(ShutDown, sched')
    <3> DEFINE b == ShutDown
               q == sched'
    <3> HIDE DEF b, q
    <3>1. /\ DOMAIN q = 1 .. Len(q) /\ \A i, j \in 1 .. Len(q) : q[i] = q[j] => i = j
          /\ ToSet(q) \subseteq Keyed(b) /\ Producers(b) \cap Keyed(b) \subseteq ToSet(q)
          /\ Len(q) = NumBobservers \/ ToSet(q) = Keyed(b)
      BY <2>6, CompleteFacts DEF b, q
    <3>2. \A i, j \in DOMAIN q : q[i] = q[j] => i = j
      BY <3>1
    <3> QED BY <2>5, <3>1, <3>2, Zenon DEF b, q
  <2> QED BY <2>5, <2>6
<1>2. Inv /\ [Next]_vars =>
         [round'.slot # round.slot =>
            \/ sched' = <<NoOne>> /\ Keyed(bob') = {}
            \/ /\ \A i, j \in DOMAIN sched' : sched'[i] = sched'[j] => i = j
               /\ ToSet(sched') \subseteq Keyed(bob')
               /\ Producers(bob') \cap Keyed(bob') \subseteq ToSet(sched')
               /\ Len(sched') = NumBobservers \/ ToSet(sched') = Keyed(bob')]_vars
  BY <1>1
<1> QED BY <1>2, Safety, PTL DEF Spec, ScheduleComplete

\* A block takes a later slot, the one its time says, and the window counts
\* the slots that were filled, whatever number was missed.
THEOREM SlotsAreTimes ==
    Spec => SlotsFollowTime
<1>1. ASSUME Inv, [Next]_vars, dgp'.num # dgp.num
      PROVE  /\ dgp'.aslot > dgp.aslot
             /\ dgp.num > 0 => dgp'.aslot - dgp.aslot = dgp'.time \div Interval - dgp.time \div Interval
             /\ dgp'.count = Cardinality({i \in 1 .. Window : dgp'.filled[i] = 1})
  <2> DEFINE t == block.at
             k == SlotAt(t)
  <2>1. EndBlock
    BY <1>1, StepKinds
  <2>2. /\ dgp' = DynamicData(t) /\ t \in Nat /\ k > 0 /\ dgp \in GlobalProperties /\ WindowInv
    BY <1>1, <2>1 DEF EndBlock, Inv, TypeOK, BlockInv
  <2>3. k \in Nat /\ (dgp.num > 0 => k = t \div Interval - dgp.time \div Interval)
    BY <2>2, SlotFacts
  <2>4. dgp'.time = t /\ dgp'.aslot = dgp.aslot + k /\ dgp'.count = Cardinality(Filled(dgp'.filled))
    BY <2>2, DynamicDataFacts
  <2>5. dgp.aslot \in Nat
    BY <2>2 DEF GlobalProperties
  <2> DEFINE a == dgp.aslot
             a1 == dgp'.aslot
  <2> HIDE DEF t, k
  <2>6. a \in Nat /\ a1 = a + k
    BY <2>4, <2>5
  <2> HIDE DEF a, a1
  <2>7. a1 > a /\ a1 - a = k
    BY <2>2, <2>3, <2>6
  <2> QED BY <2>3, <2>4, <2>7 DEF a, a1, Filled
<1>2. Inv /\ [Next]_vars =>
         [dgp'.num # dgp.num =>
            /\ dgp'.aslot > dgp.aslot
            /\ dgp.num > 0 => dgp'.aslot - dgp.aslot = dgp'.time \div Interval - dgp.time \div Interval
            /\ dgp'.count = Cardinality({i \in 1 .. Window : dgp'.filled[i] = 1})]_vars
  BY <1>1
<1> QED BY <1>2, Safety, PTL DEF Spec, SlotsFollowTime


\* Nobody signs a second time before everybody of a full schedule had a slot,
\* wherever in the schedule the round began and whatever slots were missed.
THEOREM RoundsAreFair ==
    Spec => RoundRobin
<1>1. ASSUME Inv, [Next]_vars, phase = "idle", phase' = "txs", Len(sched) = NumBobservers,
             dgp.aslot + SlotAt(block'.at) <= round.slot + NumBobservers
      PROVE  block'.by \notin ToSet(round.by)
  <2>1. ~EndBlock
    BY <1>1 DEF EndBlock
  <2>2. PICK w \in Bobserver, t \in Nat, v \in Vote \cup {NoExtension} : BeginBlock(w, t, v)
    BY <1>1, <2>1, StepKinds
  <2> DEFINE k == SlotAt(t)
             a == dgp.aslot
             r == round.slot
             B == round.by
             N == NumBobservers
  <2>3. /\ block' = [by |-> w, at |-> t] /\ k > 0 /\ w = Scheduled(k)
    BY <2>2 DEF BeginBlock
  <2>4. block'.by = w /\ block'.at = t
    BY <2>3
  <2>5. /\ dgp \in GlobalProperties /\ round \in [by : Seq(Bobserver), slot : Nat]
        /\ ScheduleInv /\ RoundInv
    BY <1>1 DEF Inv, TypeOK
  <2>6. k \in Nat
    BY <2>5, SlotFacts
  <2>7. a \in Nat /\ r \in Nat /\ B \in Seq(Bobserver) /\ N \in Nat /\ N > 0 /\ a + k <= r + N
    BY <1>1, <2>4, <2>5, ScheduleConstants DEF GlobalProperties
  <2>8. /\ r <= a
        /\ \A i \in 1 .. Len(B) : \E s \in r + 1 .. a : B[i] = sched[(s % N) + 1]
    BY <1>1, <2>5 DEF RoundInv
  <2>9. w = sched[((a + k) % N) + 1]
    BY <1>1, <2>3 DEF Scheduled
  <2>10. \A i, j \in 1 .. N : sched[i] = sched[j] => i = j
    BY <1>1, <2>5 DEF ScheduleInv
  <2> HIDE DEF k, a, r, B, N
  <2>11. ASSUME NEW i \in 1 .. Len(B), B[i] = w
         PROVE  FALSE
    <3>1. PICK s \in r + 1 .. a : B[i] = sched[(s % N) + 1]
      BY <2>8
    <3>2. s \in Nat /\ a + k \in Nat /\ s < a + k /\ a + k < s + N
      BY <2>3, <2>6, <2>7, <3>1
    <3>3. s % N # (a + k) % N
      BY <2>7, <3>2, PlacesDiffer
    <3>4. s % N \in 0 .. N - 1 /\ (a + k) % N \in 0 .. N - 1
      BY <2>7, <3>2
    <3> DEFINE x == s % N
               y == (a + k) % N
    <3> HIDE DEF x, y
    <3>5. x + 1 \in 1 .. N /\ y + 1 \in 1 .. N /\ x + 1 # y + 1
      BY <2>7, <3>3, <3>4 DEF x, y
    <3>6. sched[x + 1] = sched[y + 1]
      BY <2>9, <2>11, <3>1 DEF x, y
    <3> QED BY <2>10, <3>5, <3>6
  <2>12. \A u \in ToSet(B) : \E i \in 1 .. Len(B) : B[i] = u
    BY <2>7 DEF ToSet
  <2> QED BY <2>4, <2>11, <2>12 DEF B
<1>2. Inv /\ [Next]_vars =>
         [/\ phase = "idle" /\ phase' = "txs"
          /\ Len(sched) = NumBobservers
          /\ dgp.aslot + SlotAt(block'.at) <= round.slot + NumBobservers
          => block'.by \notin ToSet(round.by)]_vars
  BY <1>1
<1> QED BY <1>2, Safety, PTL DEF Spec, RoundRobin
=============================================================================
