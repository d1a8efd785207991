---------------------------- MODULE NumberFacts ----------------------------
(***************************************************************************)
(* Facts about numbers, sequences and sums that the proofs of several       *)
(* modules need.  Total(f, S) is the sum of f over a finite set S, whatever *)
(* the order of summing: the folds of the community modules, which take     *)
(* the elements in an order of their own, are shown to be equal to it.      *)
(* Inductions go by a least counterexample.                                 *)
(***************************************************************************)
EXTENDS Integers, Sequences, TLAPS, WellFoundedInduction, NaturalsInduction,
        FiniteSets, FiniteSetTheorems

\* A nonempty set of numbers has a least one: a loop that stops at the first
\* element it looks for, or begin() of an ordered index, finds it.
LEMMA NatMin ==
    ASSUME NEW T, T \subseteq Nat, T # {}
    PROVE  \E x \in T : \A y \in T : x <= y
<1>1. IsWellFoundedOn(OpToRel(<, Nat), Nat)
  BY NatLessThanWellFounded, Zenon
<1>2. \E x \in T : \A y \in T : ~(<<y, x>> \in OpToRel(<, Nat))
  BY <1>1, WFMin, Zenon
<1>3. \A x, y \in Nat : y < x => <<y, x>> \in OpToRel(<, Nat)
  BY Zenon DEF OpToRel
<1>4. \E x \in T : \A y \in T : ~(y < x)
  BY <1>2, <1>3, Zenon
<1> HIDE <1>1, <1>2, <1>3
<1> QED BY <1>4

\* A nonempty set of numbers that are at most n has a greatest one.
LEMMA NatMax ==
    ASSUME NEW n \in Nat, NEW T, T \subseteq 0 .. n, T # {}
    PROVE  \E x \in T : \A y \in T : y <= x
<1> DEFINE U == {n - x : x \in T}
<1>1. \A x \in T : x \in Nat /\ x <= n /\ n - x \in Nat
  OBVIOUS
<1>2. U \subseteq Nat /\ U # {}
  BY <1>1
<1>3. PICK u \in U : \A y \in U : u <= y
  BY <1>2, NatMin
<1>4. PICK x \in T : u = n - x
  OBVIOUS
<1>5. \A y \in T : n - x <= n - y
  BY <1>3, <1>4
<1> HIDE DEF U
<1>6. \A y \in T : y <= x
  BY <1>1, <1>5
<1> QED BY <1>6

\* A part of a sequence, with the numbers its elements had.
LEMMA PartOfSeq ==
    ASSUME NEW S, NEW s \in Seq(S), NEW m \in 1 .. Len(s) + 1, NEW n \in m - 1 .. Len(s)
    PROVE  /\ SubSeq(s, m, n) \in Seq(S)
           /\ Len(SubSeq(s, m, n)) = n - m + 1
           /\ \A i \in 1 .. n - m + 1 : SubSeq(s, m, n)[i] = s[m + i - 1] /\ m + i - 1 \in 1 .. Len(s)
<1>1. Len(s) \in Nat /\ m \in Int /\ n \in Int /\ 1 <= m /\ m <= n + 1 /\ n <= Len(s)
  OBVIOUS
<1>2. \A i \in m .. n : i \in 1 .. Len(s)
  BY <1>1
<1>3. \A i \in m .. n : s[i] \in S
  BY <1>2
<1>4. \A i \in 1 .. n - m + 1 : m + i - 1 \in m .. n
  BY <1>1
<1>5. /\ SubSeq(s, m, n) \in Seq(S)
      /\ Len(SubSeq(s, m, n)) = n - m + 1
      /\ \A i \in 1 .. n - m + 1 : SubSeq(s, m, n)[i] = s[m + i - 1]
  BY <1>1, <1>3, <1>4
<1>6. \A i \in 1 .. n - m + 1 : m + i - 1 \in 1 .. Len(s)
  BY <1>1
<1> QED BY <1>5, <1>6

\* g begins with x and goes on by the steps F up to N.
Follows(g, x, F, N) == g[0] = x /\ \A n \in 1 .. N : g[n] = F[n][g[n - 1]]

\* A function defined by recursion on the numbers up to N exists and has the
\* values its steps give: F[n] is the step that makes value n.
LEMMA Recursion ==
    ASSUME NEW S, NEW N \in Nat, NEW x \in S, NEW F \in [1 .. N -> [S -> S]]
    PROVE  \E g \in [0 .. N -> S] : Follows(g, x, F, N)
<1> DEFINE Good(m) == \E g \in [0 .. m -> S] : g[0] = x /\ \A n \in 1 .. m : g[n] = F[n][g[n - 1]]
           bad == {m \in 0 .. N : ~Good(m)}
<1>1. Good(0)
  <2> DEFINE g == [n \in 0 .. 0 |-> x]
  <2>1. g \in [0 .. 0 -> S] /\ g[0] = x
    OBVIOUS
  <2>2. \A n \in 1 .. 0 : FALSE
    OBVIOUS
  <2> HIDE DEF g
  <2> QED BY <2>1, <2>2
<1>2. ASSUME NEW m \in 1 .. N, Good(m - 1)
      PROVE  Good(m)
  <2>1. PICK g \in [0 .. m - 1 -> S] : g[0] = x /\ \A n \in 1 .. m - 1 : g[n] = F[n][g[n - 1]]
    BY <1>2
  <2> DEFINE h == [n \in 0 .. m |-> IF n = m THEN F[m][g[m - 1]] ELSE g[n]]
  <2>2. m \in Nat /\ m - 1 \in 0 .. m - 1 /\ m # 0 /\ 0 \in 0 .. m - 1
    OBVIOUS
  <2>3. g[m - 1] \in S
    BY <2>2
  <2>4. F[m][g[m - 1]] \in S
    BY <2>3
  <2>5. \A n \in 0 .. m : n # m => n \in 0 .. m - 1
    BY <2>2
  <2>6. h \in [0 .. m -> S]
    BY <2>4, <2>5
  <2>7. \A n \in 0 .. m - 1 : h[n] = g[n]
    BY <2>2
  <2>8. h[m] = F[m][g[m - 1]]
    BY <2>2
  <2> HIDE DEF h
  <2>9. \A n \in 1 .. m : n - 1 \in 0 .. m - 1 /\ (n # m => n \in 1 .. m - 1 /\ n \in 0 .. m - 1)
    BY <2>2
  <2>10. \A n \in 1 .. m : h[n] = F[n][h[n - 1]]
    <3> SUFFICES ASSUME NEW n \in 1 .. m
                 PROVE  h[n] = F[n][h[n - 1]]
      OBVIOUS
    <3>1. h[n - 1] = g[n - 1]
      BY <2>7, <2>9
    <3>2. CASE n = m
      BY <2>8, <3>1, <3>2
    <3>3. CASE n # m
      BY <2>1, <2>7, <2>9, <3>1, <3>3
    <3> QED BY <3>2, <3>3
  <2>11. h[0] = x
    BY <2>1, <2>2, <2>7
  <2> QED BY <2>6, <2>10, <2>11
<1> HIDE DEF Good
<1>3. ASSUME bad # {}
      PROVE  FALSE
  <2>1. PICK m \in bad : \A y \in bad : m <= y
    <3>1. bad \subseteq Nat
      OBVIOUS
    <3> QED BY <1>3, <3>1, NatMin
  <2>2. m \in 0 .. N /\ ~Good(m) /\ m # 0
    BY <1>1
  <2>3. m \in 1 .. N /\ m - 1 \in 0 .. N /\ ~(m <= m - 1)
    BY <2>2
  <2>4. Good(m - 1)
    BY <2>1, <2>3
  <2> QED BY <1>2, <2>2, <2>3, <2>4
<1>4. Good(N)
  BY <1>3
<1> QED BY <1>4 DEF Good, Follows

\* What holds of the first value, and of each value when it holds of the one
\* before, holds of all of them.
LEMMA Along ==
    ASSUME NEW S, NEW N \in Nat, NEW h, h[0] \in S,
           \A n \in 1 .. N : h[n - 1] \in S => h[n] \in S
    PROVE  \A n \in 0 .. N : h[n] \in S
<1> DEFINE bad == {n \in 0 .. N : h[n] \notin S}
<1>1. ASSUME bad # {}
      PROVE  FALSE
  <2>1. PICK m \in bad : \A y \in bad : m <= y
    <3>1. bad \subseteq Nat
      OBVIOUS
    <3> QED BY <1>1, <3>1, NatMin
  <2>2. m \in 0 .. N /\ h[m] \notin S /\ m # 0
    OBVIOUS
  <2>3. m \in 1 .. N /\ m - 1 \in 0 .. N /\ ~(m <= m - 1)
    BY <2>2
  <2>4. h[m - 1] \in S
    BY <2>1, <2>3
  <2> QED BY <2>2, <2>3, <2>4
<1> QED BY <1>1

\* The numbers up to n are n.
LEMMA UpTo ==
    ASSUME NEW n \in Nat
    PROVE  IsFiniteSet(1 .. n) /\ Cardinality(1 .. n) = n
<1>1. 1 \in Int /\ n \in Int
  OBVIOUS
<1>2. IsFiniteSet(1 .. n) /\ Cardinality(1 .. n) = IF 1 > n THEN 0 ELSE n - 1 + 1
  BY <1>1, FS_Interval, Zenon
<1>3. (IF 1 > n THEN 0 ELSE n - 1 + 1) = n
  OBVIOUS
<1> QED BY <1>2, <1>3

-----------------------------------------------------------------------------
(* Sums over finite sets, in whatever order the elements are taken.        *)

\* Induction over the subsets of a finite set: what holds of the empty set, and
\* of a set when it holds of each set with one element less, holds of all.
LEMMA SubsetInduction ==
    ASSUME NEW S, IsFiniteSet(S), NEW Z, {} \in Z,
           \A s \in SUBSET S : s # {} /\ (\A a \in s : s \ {a} \in Z) => s \in Z
    PROVE  \A s \in SUBSET S : s \in Z
<1> DEFINE bad == {n \in Nat : \E s \in SUBSET S : s \notin Z /\ Cardinality(s) = n}
<1>1. \A s \in SUBSET S : IsFiniteSet(s) /\ Cardinality(s) \in Nat
  BY FS_Subset, FS_CardinalityType
<1>2. ASSUME bad # {}
      PROVE  FALSE
  <2>1. PICK n \in bad : \A y \in bad : n <= y
    <3>1. bad \subseteq Nat
      OBVIOUS
    <3> HIDE DEF bad
    <3> QED BY <1>2, <3>1, NatMin
  <2>2. PICK s \in SUBSET S : s \notin Z /\ Cardinality(s) = n
    OBVIOUS
  <2>3. ASSUME NEW a \in s
        PROVE  s \ {a} \in Z
    <3>1. Cardinality(s \ {a}) = n - 1 /\ s \ {a} \in SUBSET S /\ n - 1 \in Nat
      <4>1. IsFiniteSet(s)
        BY <1>1
      <4>2. Cardinality(s \ {a}) = Cardinality(s) - 1
        BY <4>1, FS_RemoveElement
      <4>3. s \ {a} \in SUBSET S
        OBVIOUS
      <4>4. Cardinality(s \ {a}) \in Nat
        BY <1>1, <4>3
      <4> QED BY <2>2, <4>2, <4>3, <4>4
    <3>2. ~(n <= n - 1)
      OBVIOUS
    <3>3. n - 1 \notin bad
      BY <2>1, <3>2
    <3> QED BY <3>1, <3>3
  <2>4. s # {}
    BY <2>2
  <2> QED BY <2>2, <2>3, <2>4
<1>3. ASSUME NEW s \in SUBSET S, s \notin Z
      PROVE  FALSE
  <2>1. Cardinality(s) \in bad
    BY <1>1, <1>3
  <2> HIDE DEF bad
  <2> QED BY <1>2, <2>1
<1> QED BY <1>3

\* g sums the values of f over each subset of S.
SumsTo(g, f, S) ==
    /\ g \in [SUBSET S -> Int]
    /\ g[{}] = 0
    /\ \A s \in SUBSET S : \A a \in s : g[s] = f[a] + g[s \ {a}]

\* The same where the elements are taken in the order in which ch picks them.
PickSum(g, f, S, ch) ==
    g = [s \in SUBSET S |-> IF s = {} THEN 0 ELSE f[ch[s]] + g[s \ {ch[s]}]]

Picks(ch, S) == \A s \in SUBSET S : s # {} => ch[s] \in s

\* The order does not matter.
LEMMA AnyOrder ==
    ASSUME NEW S, IsFiniteSet(S), NEW f, \A x \in S : f[x] \in Int,
           NEW ch, Picks(ch, S), NEW g, PickSum(g, f, S, ch)
    PROVE  SumsTo(g, f, S)
<1>1. /\ g[{}] = 0
      /\ \A s \in SUBSET S : s # {} => g[s] = f[ch[s]] + g[s \ {ch[s]}]
      /\ g = [s \in SUBSET S |-> g[s]]
  <2>1. g = [s \in SUBSET S |-> IF s = {} THEN 0 ELSE f[ch[s]] + g[s \ {ch[s]}]]
    BY DEF PickSum
  <2>2. \A s \in SUBSET S : g[s] = IF s = {} THEN 0 ELSE f[ch[s]] + g[s \ {ch[s]}]
    BY <2>1
  <2>3. {} \in SUBSET S
    OBVIOUS
  <2>4. g = [s \in SUBSET S |-> g[s]]
    BY <2>1
  <2> QED BY <2>2, <2>3, <2>4
<1>2. \A s \in SUBSET S : s # {} => ch[s] \in s /\ ch[s] \in S
  BY DEF Picks
<1> DEFINE Y == {s \in SUBSET S : g[s] \in Int}
<1>3. \A s \in SUBSET S : s \in Y
  <2>1. {} \in Y
    BY <1>1
  <2>2. ASSUME NEW s \in SUBSET S, s # {}, \A a \in s : s \ {a} \in Y
        PROVE  s \in Y
    <3>1. g[s] = f[ch[s]] + g[s \ {ch[s]}] /\ ch[s] \in s /\ f[ch[s]] \in Int
      BY <1>1, <1>2, <2>2
    <3>2. g[s \ {ch[s]}] \in Int
      BY <2>2, <3>1
    <3>3. g[s] \in Int
      BY <3>1, <3>2
    <3> QED BY <3>3
  <2> HIDE DEF Y
  <2> QED BY <2>1, <2>2, SubsetInduction
<1>4. \A s \in SUBSET S : g[s] \in Int
  BY <1>3
<1> DEFINE Z == {s \in SUBSET S : \A a \in s : g[s] = f[a] + g[s \ {a}]}
<1>5. \A s \in SUBSET S : s \in Z
  <2>1. {} \in Z
    OBVIOUS
  <2>2. ASSUME NEW s \in SUBSET S, s # {}, \A a \in s : s \ {a} \in Z
        PROVE  s \in Z
    <3> DEFINE c == ch[s]
    <3>1. c \in s /\ c \in S /\ g[s] = f[c] + g[s \ {c}]
      BY <1>1, <1>2, <2>2
    <3> HIDE DEF c
    <3>2. ASSUME NEW a \in s
          PROVE  g[s] = f[a] + g[s \ {a}]
      <4>1. CASE a = c
        BY <3>1, <4>1
      <4>2. CASE a # c
        <5>1. (s \ {c}) \ {a} = (s \ {a}) \ {c} /\ a \in s \ {c} /\ c \in s \ {a}
          BY <3>1, <4>2
        <5>2. g[s \ {c}] = f[a] + g[(s \ {c}) \ {a}]
          BY <2>2, <3>1, <5>1
        <5>3. g[s \ {a}] = f[c] + g[(s \ {a}) \ {c}]
          BY <2>2, <5>1
        <5> DEFINE r == g[(s \ {a}) \ {c}]
                   u == f[a]
                   v == f[c]
        <5>4. r \in Int /\ u \in Int /\ v \in Int
          BY <1>4, <3>1
        <5>5. g[s] = v + (u + r) /\ g[s \ {a}] = v + r
          BY <3>1, <5>1, <5>2, <5>3
        <5> HIDE DEF r, u, v
        <5>6. v + (u + r) = u + (v + r)
          BY <5>4
        <5> QED BY <5>5, <5>6 DEF u
      <4> QED BY <4>1, <4>2
    <3> QED BY <3>2
  <2> HIDE DEF Z
  <2> QED BY <2>1, <2>2, SubsetInduction
<1>6. ASSUME NEW s \in SUBSET S
      PROVE  \A a \in s : g[s] = f[a] + g[s \ {a}]
  <2>1. s \in Z
    BY <1>5, Zenon
  <2> QED BY <2>1
<1>7. g \in [SUBSET S -> Int]
  BY <1>1, <1>4
<1> QED BY <1>1, <1>6, <1>7 DEF SumsTo

\* Two sums of the same values are the same.
LEMMA SumsAgree ==
    ASSUME NEW S, NEW f, NEW g, SumsTo(g, f, S), NEW T, NEW k, NEW h, SumsTo(h, k, T),
           NEW U, IsFiniteSet(U), U \subseteq S, U \subseteq T, \A x \in U : f[x] = k[x]
    PROVE  g[U] = h[U]
<1> DEFINE Z == {s \in SUBSET U : g[s] = h[s]}
<1>1. {} \in Z
  BY DEF SumsTo
<1>2. ASSUME NEW s \in SUBSET U, s # {}, \A a \in s : s \ {a} \in Z
      PROVE  s \in Z
  <2>1. PICK a \in s : TRUE
    BY <1>2
  <2>2. g[s] = f[a] + g[s \ {a}] /\ h[s] = k[a] + h[s \ {a}]
    BY DEF SumsTo
  <2>3. f[a] = k[a] /\ g[s \ {a}] = h[s \ {a}]
    BY <1>2
  <2> QED BY <2>2, <2>3
<1>3. U \in Z
  <2> HIDE DEF Z
  <2> QED BY <1>1, <1>2, SubsetInduction
<1> QED BY <1>3

\* There is a sum.
LEMMA SumExists ==
    ASSUME NEW S, IsFiniteSet(S), NEW f, \A x \in S : f[x] \in Int, NEW ch, Picks(ch, S)
    PROVE  \E g : PickSum(g, f, S, ch)
<1> DEFINE N == Cardinality(S) + 1
           D == [SUBSET S -> Int]
           zero == [s \in SUBSET S |-> 0]
           Step(g) == [s \in SUBSET S |-> IF s = {} THEN 0 ELSE f[ch[s]] + g[s \ {ch[s]}]]
           F == [n \in 1 .. N |-> [g \in D |-> Step(g)]]
<1>1. N \in Nat /\ N - 1 = Cardinality(S) /\ N \in 1 .. N /\ N - 1 \in 0 .. N
  <2>1. Cardinality(S) \in Nat
    BY FS_CardinalityType
  <2> QED BY <2>1
<1> HIDE DEF N
<1>2. \A s \in SUBSET S : s # {} => ch[s] \in s /\ f[ch[s]] \in Int
  BY DEF Picks
<1>3. ASSUME NEW g \in D PROVE Step(g) \in D
  <2>1. ASSUME NEW s \in SUBSET S
        PROVE  (IF s = {} THEN 0 ELSE f[ch[s]] + g[s \ {ch[s]}]) \in Int
    <3>1. CASE s = {}
      BY <3>1
    <3>2. CASE s # {}
      <4>1. g[s \ {ch[s]}] \in Int
        OBVIOUS
      <4> QED BY <1>2, <3>2, <4>1
    <3> QED BY <3>1, <3>2
  <2> QED BY <2>1
<1>4. zero \in D
  OBVIOUS
<1>5. F \in [1 .. N -> [D -> D]]
  <2> HIDE DEF D, Step
  <2> QED BY <1>3
<1>6. PICK h \in [0 .. N -> D] : Follows(h, zero, F, N)
  <2> HIDE DEF D, F, zero
  <2> QED BY <1>1, <1>4, <1>5, Recursion
<1>7. h[0] = zero /\ \A n \in 1 .. N : h[n] = Step(h[n - 1])
  <2>1. h[0] = zero /\ \A n \in 1 .. N : h[n] = F[n][h[n - 1]]
    BY <1>6 DEF Follows
  <2>2. \A n \in 1 .. N : h[n - 1] \in D
    <3>1. \A n \in 1 .. N : n - 1 \in 0 .. N
      BY <1>1
    <3> HIDE DEF D
    <3> QED BY <3>1
  <2>3. \A n \in 1 .. N : \A g \in D : F[n][g] = Step(g)
    <3> HIDE DEF D, Step
    <3> QED OBVIOUS
  <2> HIDE DEF D, F, Step, zero
  <2> QED BY <2>1, <2>2, <2>3
<1> DEFINE At(n, s) == h[n][s]
<1>8. \A s \in SUBSET S : At(0, s) = 0
  BY <1>7
<1>9. \A n \in 1 .. N : At(n, {}) = 0 /\ \A s \in SUBSET S : s # {} => At(n, s) = f[ch[s]] + At(n - 1, s \ {ch[s]})
  <2> SUFFICES ASSUME NEW n \in 1 .. N
               PROVE  At(n, {}) = 0 /\ \A s \in SUBSET S : s # {} => At(n, s) = f[ch[s]] + At(n - 1, s \ {ch[s]})
    OBVIOUS
  <2>1. h[n] = Step(h[n - 1])
    BY <1>7
  <2> DEFINE g == h[n - 1]
  <2> HIDE DEF g
  <2>2. \A s \in SUBSET S : Step(g)[s] = IF s = {} THEN 0 ELSE f[ch[s]] + g[s \ {ch[s]}]
    OBVIOUS
  <2>3. {} \in SUBSET S
    OBVIOUS
  <2> HIDE DEF Step
  <2> QED BY <2>1, <2>2, <2>3 DEF g
<1> HIDE DEF At
\* Sets of at most n elements have their sum after n steps.
<1> DEFINE Z == {s \in SUBSET S : \A n \in 0 .. N - 1 : Cardinality(s) <= n => At(n + 1, s) = At(n, s)}
<1>10. \A s \in SUBSET S : s \in Z
  <2>1. {} \in Z
    <3>1. \A n \in 0 .. N - 1 : n + 1 \in 1 .. N /\ (n = 0 \/ n \in 1 .. N)
      BY <1>1
    <3>2. {} \in SUBSET S
      OBVIOUS
    <3>3. \A n \in 0 .. N - 1 : At(n + 1, {}) = 0 /\ At(n, {}) = 0
      BY <1>8, <1>9, <3>1, <3>2
    <3> QED BY <3>2, <3>3
  <2>2. ASSUME NEW s \in SUBSET S, s # {}, \A a \in s : s \ {a} \in Z
        PROVE  s \in Z
    <3> DEFINE c == ch[s]
               t == s \ {c}
    <3>1. c \in s /\ t \in Z
      BY <1>2, <2>2
    <3>2. IsFiniteSet(s)
      BY FS_Subset
    <3>3. Cardinality(s) \in Nat /\ Cardinality(t) = Cardinality(s) - 1 /\ Cardinality(t) \in Nat
      <4>1. IsFiniteSet(t) /\ Cardinality(t) = Cardinality(s) - 1
        BY <3>1, <3>2, FS_RemoveElement
      <4> QED BY <3>2, <4>1, FS_CardinalityType
    <3>4. ASSUME NEW n \in 0 .. N - 1, Cardinality(s) <= n
          PROVE  At(n + 1, s) = At(n, s)
      <4>1. n \in 1 .. N /\ n + 1 \in 1 .. N /\ (n + 1) - 1 = n /\ n - 1 \in 0 .. N - 1
            /\ (n - 1) + 1 = n /\ Cardinality(t) <= n - 1
        BY <1>1, <3>3, <3>4
      <4>2. At(n + 1, s) = f[c] + At((n + 1) - 1, t)
        BY <1>9, <2>2, <4>1
      <4>3. At(n, s) = f[c] + At(n - 1, t)
        BY <1>9, <2>2, <4>1
      <4>4. At((n - 1) + 1, t) = At(n - 1, t)
        BY <3>1, <4>1
      <4> QED BY <4>1, <4>2, <4>3, <4>4
    <3> QED BY <3>4
  <2> HIDE DEF Z
  <2> QED BY <2>1, <2>2, SubsetInduction
<1> DEFINE g == h[N - 1]
<1>11. \A s \in SUBSET S : h[N][s] = g[s]
  <2> SUFFICES ASSUME NEW s \in SUBSET S
               PROVE  h[N][s] = g[s]
    OBVIOUS
  <2>1. s \in Z
    BY <1>10, Zenon
  <2>2. Cardinality(s) <= Cardinality(S)
    BY FS_Subset
  <2>3. N - 1 \in 0 .. N - 1 /\ (N - 1) + 1 = N /\ Cardinality(s) <= N - 1
    BY <1>1, <2>2
  <2>4. At((N - 1) + 1, s) = At(N - 1, s)
    BY <2>1, <2>3
  <2> QED BY <2>3, <2>4 DEF At
<1>12. h[N] = Step(g) /\ g \in D
  <2> HIDE DEF Step, D
  <2> QED BY <1>1, <1>7
<1>13. g = [s \in SUBSET S |-> g[s]] /\ h[N] = [s \in SUBSET S |-> h[N][s]]
  BY <1>12
<1>14. g = h[N]
  <2> HIDE DEF g
  <2> QED BY <1>11, <1>13
<1>15. g = Step(g)
  <2> HIDE DEF g, Step
  <2> QED BY <1>12, <1>14
<1> HIDE DEF g
<1>16. PickSum(g, f, S, ch)
  BY <1>15 DEF PickSum
<1> QED BY <1>16

\* The sum of the values of f over S.
Total(f, S) == (CHOOSE g : SumsTo(g, f, S))[S]

Valued(f, S) == IsFiniteSet(S) /\ \A x \in S : f[x] \in Int

LEMMA TotalExists ==
    ASSUME NEW S, NEW f, Valued(f, S)
    PROVE  \E g : SumsTo(g, f, S)
<1> DEFINE ch == [s \in SUBSET S |-> CHOOSE x \in s : TRUE]
<1>1. Picks(ch, S)
  BY DEF Picks
<1> HIDE DEF ch
<1>2. PICK g : PickSum(g, f, S, ch)
  BY <1>1, SumExists DEF Valued
<1>3. SumsTo(g, f, S)
  BY <1>1, <1>2, AnyOrder DEF Valued
<1> QED BY <1>3

\* Whatever sums f over a set that holds S has the total at S.
LEMMA TotalIs ==
    ASSUME NEW S, NEW f, Valued(f, S), NEW T, S \subseteq T, NEW k, NEW h, SumsTo(h, k, T),
           \A x \in S : f[x] = k[x]
    PROVE  Total(f, S) = h[S]
<1> DEFINE g == CHOOSE g : SumsTo(g, f, S)
<1>1. SumsTo(g, f, S)
  BY TotalExists
<1>2. Total(f, S) = g[S]
  BY DEF Total
<1> HIDE DEF g
<1>3. g[S] = h[S]
  BY <1>1, SumsAgree DEF Valued
<1> QED BY <1>2, <1>3

LEMMA TotalNone ==
    ASSUME NEW f
    PROVE  Total(f, {}) = 0
<1>1. Valued(f, {})
  BY FS_EmptySet DEF Valued
<1>2. PICK g : SumsTo(g, f, {})
  BY <1>1, TotalExists
<1>3. Total(f, {}) = g[{}]
  BY <1>1, <1>2, TotalIs
<1> QED BY <1>2, <1>3 DEF SumsTo

\* One element apart from the others.
LEMMA TotalStep ==
    ASSUME NEW S, NEW f, Valued(f, S), NEW a \in S
    PROVE  /\ Total(f, S) = f[a] + Total(f, S \ {a})
           /\ Total(f, S \ {a}) \in Int /\ f[a] \in Int
<1>1. PICK g : SumsTo(g, f, S)
  BY TotalExists
<1>2. Valued(f, S \ {a})
  BY FS_RemoveElement DEF Valued
<1>3. Total(f, S) = g[S]
  BY <1>1, TotalIs
<1>4. Total(f, S \ {a}) = g[S \ {a}]
  BY <1>1, <1>2, TotalIs
<1>5. g[S] = f[a] + g[S \ {a}] /\ g[S \ {a}] \in Int
  <2>1. S \in SUBSET S /\ S \ {a} \in SUBSET S
    OBVIOUS
  <2> QED BY <1>1, <2>1 DEF SumsTo
<1> QED BY <1>3, <1>4, <1>5 DEF Valued

LEMMA TotalType ==
    ASSUME NEW S, NEW f, Valued(f, S)
    PROVE  Total(f, S) \in Int
<1>1. CASE S = {}
  BY <1>1, TotalNone
<1>2. CASE S # {}
  <2>1. PICK a \in S : TRUE
    BY <1>2
  <2>2. /\ Total(f, S) = f[a] + Total(f, S \ {a})
        /\ Total(f, S \ {a}) \in Int /\ f[a] \in Int
    BY TotalStep
  <2> QED BY <2>2
<1> QED BY <1>1, <1>2

\* The total is that of the values.
LEMMA TotalSame ==
    ASSUME NEW S, NEW f, NEW k, Valued(f, S), \A x \in S : k[x] = f[x]
    PROVE  Total(k, S) = Total(f, S) /\ Valued(k, S)
<1>1. Valued(k, S)
  BY DEF Valued
<1>2. PICK g : SumsTo(g, f, S)
  BY TotalExists
<1>3. Total(f, S) = g[S]
  BY <1>2, TotalIs
<1>4. Total(k, S) = g[S]
  BY <1>1, <1>2, TotalIs
<1> QED BY <1>1, <1>3, <1>4

\* One value changes by n.
LEMMA TotalChange ==
    ASSUME NEW S, NEW f, NEW k, Valued(f, S), NEW a \in S, NEW n \in Int,
           \A x \in S : k[x] = IF x = a THEN f[a] + n ELSE f[x]
    PROVE  Total(k, S) = Total(f, S) + n /\ Valued(k, S)
<1> DEFINE R == S \ {a}
           r == Total(f, R)
           u == f[a]
<1>1. Total(f, S) = u + r /\ r \in Int /\ u \in Int
  BY TotalStep
<1>2. Valued(f, R)
  BY FS_RemoveElement DEF Valued
<1>3. \A x \in R : k[x] = f[x]
  OBVIOUS
<1>4. Valued(k, S)
  BY DEF Valued
<1>5. Total(k, S) = k[a] + Total(k, R)
  BY <1>4, TotalStep
<1> HIDE DEF R
<1>6. Total(k, R) = r
  BY <1>2, <1>3, TotalSame
<1>7. k[a] = u + n
  OBVIOUS
<1> HIDE DEF r, u
<1>8. (u + n) + r = (u + r) + n
  BY <1>1
<1> QED BY <1>1, <1>4, <1>5, <1>6, <1>7, <1>8

\* An element comes.
LEMMA TotalMore ==
    ASSUME NEW S, NEW f, NEW k, Valued(f, S), NEW a, a \notin S, k[a] \in Int,
           \A x \in S : k[x] = f[x]
    PROVE  Total(k, S \cup {a}) = Total(f, S) + k[a] /\ Valued(k, S \cup {a})
<1> DEFINE T == S \cup {a}
<1>1. Valued(k, T)
  BY FS_AddElement DEF Valued
<1>2. T \ {a} = S /\ a \in T
  OBVIOUS
<1>3. Total(k, T) = k[a] + Total(k, T \ {a}) /\ Total(k, T \ {a}) \in Int
  <2> HIDE DEF T
  <2> QED BY <1>1, <1>2, TotalStep
<1>4. Total(k, S) = Total(f, S)
  BY TotalSame
<1>5. Total(f, S) \in Int
  BY TotalType
<1> QED BY <1>1, <1>2, <1>3, <1>4, <1>5

\* The elements get other names.
LEMMA TotalRenamed ==
    ASSUME NEW S, NEW f, Valued(f, S), NEW T, NEW k, NEW b \in [T -> S],
           \A x, y \in T : b[x] = b[y] => x = y,
           \A x \in T : k[x] = f[b[x]], IsFiniteSet(T), {b[x] : x \in T} = S
    PROVE  Total(k, T) = Total(f, S) /\ Valued(k, T)
<1>1. Valued(k, T)
  BY DEF Valued
<1>2. PICK g : SumsTo(g, f, S)
  BY TotalExists
<1>3. PICK h : SumsTo(h, k, T)
  BY <1>1, TotalExists
<1> DEFINE Z == {s \in SUBSET T : h[s] = g[{b[x] : x \in s}]}
<1>4. {} \in Z
  <2>1. {b[x] : x \in {}} = {}
    OBVIOUS
  <2> QED BY <1>2, <1>3, <2>1 DEF SumsTo
<1>5. ASSUME NEW s \in SUBSET T, s # {}, \A a \in s : s \ {a} \in Z
      PROVE  s \in Z
  <2>1. PICK a \in s : TRUE
    BY <1>5
  <2> DEFINE I == {b[x] : x \in s}
             J == {b[x] : x \in s \ {a}}
  <2>2. I \in SUBSET S /\ b[a] \in I /\ J = I \ {b[a]}
    OBVIOUS
  <2>3. h[s] = k[a] + h[s \ {a}]
    BY <1>3 DEF SumsTo
  <2>4. h[s \ {a}] = g[J]
    BY <1>5
  <2>5. k[a] = f[b[a]]
    OBVIOUS
  <2> HIDE DEF I, J
  <2>6. g[I] = f[b[a]] + g[I \ {b[a]}]
    BY <1>2, <2>2 DEF SumsTo
  <2>7. h[s] = g[I]
    BY <2>2, <2>3, <2>4, <2>5, <2>6
  <2> QED BY <2>7 DEF I
<1>6. T \in Z
  <2>1. T \in SUBSET T
    OBVIOUS
  <2> HIDE DEF Z
  <2> QED BY <1>4, <1>5, <2>1, SubsetInduction
<1>7. h[T] = g[S]
  BY <1>6
<1>8. Total(k, T) = h[T] /\ Total(f, S) = g[S]
  BY <1>1, <1>2, <1>3, TotalIs
<1> QED BY <1>1, <1>7, <1>8

\* A sum that takes its elements one by one is the total.
LEMMA TotalByPicks ==
    ASSUME NEW S, NEW f, Valued(f, S), NEW ch, Picks(ch, S)
    PROVE  /\ \E g : PickSum(g, f, S, ch)
           /\ \A g : PickSum(g, f, S, ch) => g[S] = Total(f, S)
<1>1. \E g : PickSum(g, f, S, ch)
  BY SumExists DEF Valued
<1>2. ASSUME NEW g, PickSum(g, f, S, ch)
      PROVE  g[S] = Total(f, S)
  <2>1. SumsTo(g, f, S)
    BY <1>2, AnyOrder DEF Valued
  <2> QED BY <2>1, TotalIs
<1> QED BY <1>1, <1>2

\* The same where the rest is summed before the element is added.
PickLast(g, f, S, ch) ==
    g = [s \in SUBSET S |-> IF s = {} THEN 0 ELSE g[s \ {ch[s]}] + f[ch[s]]]

LEMMA TotalByLast ==
    ASSUME NEW S, NEW f, Valued(f, S), NEW ch, Picks(ch, S)
    PROVE  /\ \E g : PickLast(g, f, S, ch)
           /\ \A g : PickLast(g, f, S, ch) => g[S] = Total(f, S)
<1>1. PICK G : SumsTo(G, f, S)
  BY TotalExists
<1>2. \A s \in SUBSET S : s # {} => ch[s] \in s /\ f[ch[s]] \in Int
  BY DEF Picks, Valued
<1>3. G \in [SUBSET S -> Int] /\ G[{}] = 0
  BY <1>1 DEF SumsTo
<1>4. ASSUME NEW s \in SUBSET S, s # {}
      PROVE  G[s] = G[s \ {ch[s]}] + f[ch[s]]
  <2> DEFINE c == ch[s]
             r == G[s \ {c}]
             u == f[c]
  <2>1. c \in s /\ u \in Int
    BY <1>2, <1>4
  <2>2. r \in Int
    BY <1>3
  <2>3. G[s] = u + r
    BY <1>1, <2>1 DEF SumsTo
  <2> HIDE DEF r, u
  <2>4. G[s] = r + u
    BY <2>1, <2>2, <2>3
  <2> QED BY <2>4 DEF r, u
<1>5. PickLast(G, f, S, ch)
  <2> DEFINE H == [s \in SUBSET S |-> IF s = {} THEN 0 ELSE G[s \ {ch[s]}] + f[ch[s]]]
  <2>1. \A s \in SUBSET S : G[s] = H[s]
    BY <1>3, <1>4
  <2>2. G = [s \in SUBSET S |-> G[s]] /\ H = [s \in SUBSET S |-> H[s]]
    BY <1>3
  <2>3. G = H
    <3> HIDE DEF H
    <3> QED BY <2>1, <2>2
  <2> QED BY <2>3 DEF PickLast
<1>6. ASSUME NEW g, PickLast(g, f, S, ch)
      PROVE  g[S] = Total(f, S)
  <2>1. g = [s \in SUBSET S |-> IF s = {} THEN 0 ELSE g[s \ {ch[s]}] + f[ch[s]]]
    BY <1>6 DEF PickLast
  <2>2. \A s \in SUBSET S : g[s] = IF s = {} THEN 0 ELSE g[s \ {ch[s]}] + f[ch[s]]
    BY <2>1
  <2> DEFINE Z == {s \in SUBSET S : g[s] = G[s]}
  <2>3. {} \in Z
    <3>1. {} \in SUBSET S
      OBVIOUS
    <3> QED BY <1>3, <2>2, <3>1
  <2>4. ASSUME NEW s \in SUBSET S, s # {}, \A a \in s : s \ {a} \in Z
        PROVE  s \in Z
    <3>1. g[s \ {ch[s]}] = G[s \ {ch[s]}]
      BY <1>2, <2>4
    <3>2. g[s] = g[s \ {ch[s]}] + f[ch[s]]
      BY <2>2, <2>4
    <3>3. g[s] = G[s]
      BY <1>4, <2>4, <3>1, <3>2
    <3> QED BY <3>3
  <2>5. S \in Z
    <3>1. S \in SUBSET S
      OBVIOUS
    <3> HIDE DEF Z
    <3> QED BY <2>3, <2>4, <3>1, SubsetInduction DEF Valued
  <2>6. Total(f, S) = G[S]
    BY <1>1, TotalIs
  <2> QED BY <2>5, <2>6
<1> QED BY <1>5, <1>6

\* The choices of the sums: any element, and the greatest number.
AnyOf(S) == [s \in SUBSET S |-> CHOOSE x \in s : TRUE]
LastOf(S) == [s \in SUBSET S |-> CHOOSE x \in s : \A y \in s : x >= y]

LEMMA ChoicesPick ==
    /\ \A S : Picks(AnyOf(S), S)
    /\ \A n \in Nat : Picks(LastOf(1 .. n), 1 .. n)
<1>1. \A S : Picks(AnyOf(S), S)
  BY DEF Picks, AnyOf
<1>2. ASSUME NEW n \in Nat, NEW s \in SUBSET (1 .. n), s # {}
      PROVE  LastOf(1 .. n)[s] \in s
  <2>1. s \subseteq 0 .. n
    OBVIOUS
  <2>2. PICK x \in s : \A y \in s : y <= x
    BY <1>2, <2>1, NatMax
  <2>3. \A y \in s : x >= y
    BY <2>1, <2>2
  <2>4. (CHOOSE z \in s : \A y \in s : z >= y) \in s
    BY <2>3
  <2>5. LastOf(1 .. n)[s] = CHOOSE z \in s : \A y \in s : z >= y
    BY DEF LastOf
  <2> QED BY <2>4, <2>5
<1> QED BY <1>1, <1>2 DEF Picks

\* A total of natural numbers is one, and none of them exceeds it.
LEMMA TotalNat ==
    ASSUME NEW S, NEW f, IsFiniteSet(S), \A x \in S : f[x] \in Nat
    PROVE  /\ Valued(f, S) /\ Total(f, S) \in Nat
           /\ \A x \in S : f[x] <= Total(f, S)
<1>1. Valued(f, S)
  BY DEF Valued
<1>2. PICK g : SumsTo(g, f, S)
  BY <1>1, TotalExists
<1> DEFINE Z == {s \in SUBSET S : g[s] \in Nat}
<1>3. {} \in Z
  BY <1>2 DEF SumsTo
<1>4. ASSUME NEW s \in SUBSET S, s # {}, \A a \in s : s \ {a} \in Z
      PROVE  s \in Z
  <2>1. PICK a \in s : TRUE
    BY <1>4
  <2>2. g[s] = f[a] + g[s \ {a}] /\ f[a] \in Nat /\ g[s \ {a}] \in Nat
    BY <1>2, <1>4 DEF SumsTo
  <2>3. g[s] \in Nat
    BY <2>2
  <2> QED BY <2>3
<1>5. \A s \in SUBSET S : s \in Z
  <2> HIDE DEF Z
  <2> QED BY <1>3, <1>4, SubsetInduction
<1>6. Total(f, S) = g[S]
  BY <1>1, <1>2, TotalIs
<1>7. ASSUME NEW x \in S
      PROVE  f[x] <= g[S]
  <2>1. g[S] = f[x] + g[S \ {x}]
    BY <1>2 DEF SumsTo
  <2>2. S \ {x} \in SUBSET S
    OBVIOUS
  <2>3. S \ {x} \in Z
    BY <1>5, <2>2, Zenon
  <2>4. g[S \ {x}] \in Nat /\ f[x] \in Nat
    BY <2>3
  <2> QED BY <2>1, <2>4
<1>8. S \in SUBSET S
  OBVIOUS
<1>9. S \in Z
  BY <1>5, <1>8, Zenon
<1> QED BY <1>1, <1>6, <1>7, <1>9

\* The elements behind the one that goes move up.
LEMMA TotalRemoved ==
    ASSUME NEW n \in Nat, NEW f, Valued(f, 1 .. n), NEW i \in 1 .. n, NEW k,
           \A j \in 1 .. n - 1 : k[j] = f[IF j < i THEN j ELSE j + 1]
    PROVE  /\ Total(f, 1 .. n) = f[i] + Total(k, 1 .. n - 1)
           /\ Valued(k, 1 .. n - 1)
<1> DEFINE S == 1 .. n
           R == S \ {i}
           T == 1 .. n - 1
           b == [j \in T |-> IF j < i THEN j ELSE j + 1]
<1>1. Total(f, S) = f[i] + Total(f, R)
  BY TotalStep
<1>2. IsFiniteSet(S)
  BY DEF Valued
<1>3. Valued(f, R)
  BY <1>2, FS_RemoveElement DEF Valued
<1>4. IsFiniteSet(T)
  <2>1. T \subseteq S
    OBVIOUS
  <2> HIDE DEF S, T
  <2> QED BY <1>2, <2>1, FS_Subset
<1>5. \A j \in T : b[j] = (IF j < i THEN j ELSE j + 1) /\ b[j] \in R
  OBVIOUS
<1>6. b \in [T -> R]
  BY <1>5
<1>7. \A x, y \in T : b[x] = b[y] => x = y
  <2> SUFFICES ASSUME NEW x \in T, NEW y \in T, b[x] = b[y]
               PROVE  x = y
    OBVIOUS
  <2>1. x \in Int /\ y \in Int /\ i \in Int
    OBVIOUS
  <2>2. (IF x < i THEN x ELSE x + 1) = (IF y < i THEN y ELSE y + 1)
    BY <1>5
  <2> QED BY <2>1, <2>2
<1>8. {b[x] : x \in T} = R
  <2>1. ASSUME NEW r \in R
        PROVE  \E x \in T : b[x] = r
    <3>1. r \in Int /\ i \in Int /\ n \in Int /\ 1 <= r /\ r <= n /\ r # i /\ 1 <= i /\ i <= n
      OBVIOUS
    <3>2. CASE r < i
      <4>1. r \in T
        BY <3>1, <3>2
      <4>2. b[r] = r
        BY <1>5, <3>2, <4>1
      <4> QED BY <4>1, <4>2
    <3>3. CASE i < r
      <4>1. r - 1 \in T /\ ~(r - 1 < i) /\ (r - 1) + 1 = r
        BY <3>1, <3>3
      <4>2. b[r - 1] = r
        BY <1>5, <4>1
      <4> QED BY <4>1, <4>2
    <3> QED BY <3>1, <3>2, <3>3
  <2> HIDE DEF b, R, T
  <2> QED BY <1>5, <2>1
<1>9. \A x \in T : k[x] = f[b[x]]
  BY <1>5
<1>10. Total(k, T) = Total(f, R) /\ Valued(k, T)
  <2> HIDE DEF b, R, T
  <2> QED BY <1>3, <1>4, <1>6, <1>7, <1>8, <1>9, TotalRenamed
<1> QED BY <1>1, <1>10

\* The elements behind the one that comes move down.
LEMMA TotalInserted ==
    ASSUME NEW n \in Nat, NEW f, Valued(f, 1 .. n), NEW i \in 1 .. n + 1, NEW k, k[i] \in Int,
           \A j \in 1 .. n : f[j] = k[IF j < i THEN j ELSE j + 1]
    PROVE  /\ Total(k, 1 .. n + 1) = k[i] + Total(f, 1 .. n)
           /\ Valued(k, 1 .. n + 1)
<1>1. ASSUME NEW j \in 1 .. n + 1
      PROVE  k[j] \in Int
  <2>1. CASE j = i
    BY <2>1
  <2>2. CASE j < i
    <3>1. j \in 1 .. n
      BY <2>2
    <3>2. f[j] = k[j] /\ f[j] \in Int
      BY <2>2, <3>1 DEF Valued
    <3> QED BY <3>2
  <2>3. CASE i < j
    <3>1. j - 1 \in 1 .. n /\ ~(j - 1 < i) /\ (j - 1) + 1 = j
      BY <2>3
    <3>2. f[j - 1] = k[j] /\ f[j - 1] \in Int
      BY <3>1 DEF Valued
    <3> QED BY <3>2
  <2> QED BY <2>1, <2>2, <2>3
<1> DEFINE m == n + 1
<1>2. m \in Nat /\ m - 1 = n
  OBVIOUS
<1>3. Valued(k, 1 .. m)
  BY <1>1, <1>2, UpTo DEF Valued
<1>4. \A j \in 1 .. m - 1 : f[j] = k[IF j < i THEN j ELSE j + 1]
  BY <1>2
<1>5. i \in 1 .. m
  OBVIOUS
<1> HIDE DEF m
<1>6. Total(k, 1 .. m) = k[i] + Total(f, 1 .. m - 1)
  BY <1>2, <1>3, <1>4, <1>5, TotalRemoved
<1> QED BY <1>2, <1>3, <1>6 DEF m

\* A sequence without its i-th element.
LEMMA RemovedSeq ==
    ASSUME NEW S, NEW s \in Seq(S), NEW i \in 1 .. Len(s)
    PROVE  LET r == SubSeq(s, 1, i - 1) \o SubSeq(s, i + 1, Len(s))
           IN  /\ r \in Seq(S) /\ Len(r) = Len(s) - 1
               /\ \A j \in 1 .. Len(s) - 1 : r[j] = s[IF j < i THEN j ELSE j + 1]
<1> DEFINE a == SubSeq(s, 1, i - 1)
           b == SubSeq(s, i + 1, Len(s))
           r == a \o b
           n == Len(s)
<1>1. n \in Nat /\ i \in Nat /\ 1 <= i /\ i <= n
  OBVIOUS
<1>2. /\ a \in Seq(S) /\ Len(a) = (i - 1) - 1 + 1
      /\ \A j \in 1 .. (i - 1) - 1 + 1 : a[j] = s[1 + j - 1]
  <2>1. 1 \in 1 .. Len(s) + 1 /\ i - 1 \in 1 - 1 .. Len(s)
    OBVIOUS
  <2> HIDE DEF a
  <2> QED BY <2>1, PartOfSeq DEF a
<1>3. /\ b \in Seq(S) /\ Len(b) = n - (i + 1) + 1
      /\ \A j \in 1 .. n - (i + 1) + 1 : b[j] = s[(i + 1) + j - 1]
  <2>1. i + 1 \in 1 .. Len(s) + 1 /\ Len(s) \in (i + 1) - 1 .. Len(s)
    OBVIOUS
  <2> HIDE DEF b
  <2> QED BY <2>1, PartOfSeq DEF b
<1> HIDE DEF a, b, n
<1>4. Len(a) = i - 1 /\ Len(b) = n - i
  BY <1>1, <1>2, <1>3
<1>5. r \in Seq(S) /\ Len(r) = n - 1
  BY <1>1, <1>2, <1>3, <1>4
<1>6. ASSUME NEW j \in 1 .. n - 1
      PROVE  r[j] = s[IF j < i THEN j ELSE j + 1]
  <2>1. CASE j < i
    <3>1. j \in 1 .. Len(a) /\ j \in 1 .. (i - 1) - 1 + 1 /\ 1 + j - 1 = j
      BY <1>1, <1>4, <2>1
    <3>2. r[j] = a[j]
      BY <1>2, <1>3, <3>1
    <3> QED BY <1>2, <2>1, <3>1, <3>2
  <2>2. CASE ~(j < i)
    <3> DEFINE q == j - (i - 1)
    <3>1. q \in 1 .. Len(b) /\ q \in 1 .. n - (i + 1) + 1 /\ (i + 1) + q - 1 = j + 1
          /\ j \in Len(a) + 1 .. Len(a) + Len(b) /\ q = j - Len(a)
      BY <1>1, <1>4, <2>2
    <3>2. r[j] = b[j - Len(a)]
      BY <1>2, <1>3, <3>1
    <3> HIDE DEF q
    <3> QED BY <1>3, <2>2, <3>1, <3>2
  <2> QED BY <2>1, <2>2
<1> QED BY <1>5, <1>6 DEF a, b, n


\* A sum of those elements that are in W, taken one after the other.
PickLastIn(g, f, W, S, ch) ==
    g = [s \in SUBSET S |-> IF s = {} THEN 0
                            ELSE IF ch[s] \in W THEN g[s \ {ch[s]}] + f[ch[s]]
                                                ELSE g[s \ {ch[s]}]]

Only(f, W, S) == [x \in S |-> IF x \in W THEN f[x] ELSE 0]

LEMMA TotalOnly ==
    ASSUME NEW S, NEW f, Valued(f, S), NEW ch, Picks(ch, S), NEW W
    PROVE  /\ Valued(Only(f, W, S), S)
           /\ \E g : PickLastIn(g, f, W, S, ch)
           /\ \A g : PickLastIn(g, f, W, S, ch) => g[S] = Total(Only(f, W, S), S)
<1> DEFINE k == Only(f, W, S)
<1>1. \A x \in S : k[x] \in Int /\ (x \in W => k[x] = f[x]) /\ (x \notin W => k[x] = 0)
  BY DEF Valued, Only
<1>2. Valued(k, S)
  BY <1>1 DEF Valued
<1> HIDE DEF k
<1>3. PICK G : SumsTo(G, k, S)
  BY <1>2, TotalExists
<1>4. G \in [SUBSET S -> Int] /\ G[{}] = 0
  BY <1>3 DEF SumsTo
<1>5. \A s \in SUBSET S : s # {} => ch[s] \in s
  BY DEF Picks
<1>6. ASSUME NEW s \in SUBSET S, s # {}
      PROVE  G[s] = IF ch[s] \in W THEN G[s \ {ch[s]}] + f[ch[s]] ELSE G[s \ {ch[s]}]
  <2> DEFINE c == ch[s]
             r == G[s \ {c}]
             u == k[c]
  <2>1. c \in s /\ c \in S
    BY <1>5, <1>6
  <2>2. r \in Int /\ u \in Int
    BY <1>1, <1>4, <2>1
  <2>3. G[s] = u + r
    BY <1>3, <2>1 DEF SumsTo
  <2>4. (c \in W => u = f[c]) /\ (c \notin W => u = 0)
    BY <1>1, <2>1
  <2> HIDE DEF r, u, c
  <2>5. G[s] = r + u
    BY <2>2, <2>3
  <2>6. CASE c \in W
    BY <2>4, <2>5, <2>6 DEF c, r
  <2>7. CASE c \notin W
    <3>1. G[s] = r
      BY <2>2, <2>4, <2>5, <2>7
    <3> QED BY <2>7, <3>1 DEF c, r
  <2> QED BY <2>6, <2>7
<1>7. PickLastIn(G, f, W, S, ch)
  <2> DEFINE H == [s \in SUBSET S |-> IF s = {} THEN 0
                                      ELSE IF ch[s] \in W THEN G[s \ {ch[s]}] + f[ch[s]]
                                                          ELSE G[s \ {ch[s]}]]
  <2>1. \A s \in SUBSET S : G[s] = H[s]
    BY <1>4, <1>6
  <2>2. G = [s \in SUBSET S |-> G[s]] /\ H = [s \in SUBSET S |-> H[s]]
    BY <1>4
  <2>3. G = H
    <3> HIDE DEF H
    <3> QED BY <2>1, <2>2
  <2> QED BY <2>3 DEF PickLastIn
<1>8. ASSUME NEW g, PickLastIn(g, f, W, S, ch)
      PROVE  g[S] = Total(k, S)
  <2>1. g = [s \in SUBSET S |-> IF s = {} THEN 0
                                ELSE IF ch[s] \in W THEN g[s \ {ch[s]}] + f[ch[s]]
                                                    ELSE g[s \ {ch[s]}]]
    BY <1>8 DEF PickLastIn
  <2>2. \A s \in SUBSET S : g[s] = IF s = {} THEN 0
                                   ELSE IF ch[s] \in W THEN g[s \ {ch[s]}] + f[ch[s]]
                                                       ELSE g[s \ {ch[s]}]
    BY <2>1
  <2> DEFINE Z == {s \in SUBSET S : g[s] = G[s]}
  <2>3. {} \in Z
    <3>1. {} \in SUBSET S
      OBVIOUS
    <3> QED BY <1>4, <2>2, <3>1
  <2>4. ASSUME NEW s \in SUBSET S, s # {}, \A a \in s : s \ {a} \in Z
        PROVE  s \in Z
    <3>1. g[s \ {ch[s]}] = G[s \ {ch[s]}]
      BY <1>5, <2>4
    <3>2. g[s] = IF ch[s] \in W THEN g[s \ {ch[s]}] + f[ch[s]] ELSE g[s \ {ch[s]}]
      BY <2>2, <2>4
    <3>3. g[s] = G[s]
      BY <1>6, <2>4, <3>1, <3>2
    <3> QED BY <3>3
  <2>5. S \in Z
    <3>1. S \in SUBSET S
      OBVIOUS
    <3> HIDE DEF Z
    <3> QED BY <2>3, <2>4, <3>1, SubsetInduction DEF Valued
  <2>6. Total(k, S) = G[S]
    BY <1>2, <1>3, TotalIs
  <2> QED BY <2>5, <2>6
<1> QED BY <1>2, <1>7, <1>8 DEF k

\* A sequence with e before its i-th element, or behind the last one.
Spliced(s, i, e) == SubSeq(s, 1, i - 1) \o <<e>> \o SubSeq(s, i, Len(s))

LEMMA InsertedSeq ==
    ASSUME NEW S, NEW s \in Seq(S), NEW i \in 1 .. Len(s) + 1, NEW e \in S
    PROVE  /\ Spliced(s, i, e) \in Seq(S) /\ Len(Spliced(s, i, e)) = Len(s) + 1
           /\ Spliced(s, i, e)[i] = e
           /\ \A j \in 1 .. Len(s) : s[j] = Spliced(s, i, e)[IF j < i THEN j ELSE j + 1]
<1> DEFINE a == SubSeq(s, 1, i - 1)
           b == SubSeq(s, i, Len(s))
           c == a \o <<e>>
           r == c \o b
           n == Len(s)
<1>1. n \in Nat /\ i \in Nat /\ 1 <= i /\ i <= n + 1
  OBVIOUS
<1>2. /\ a \in Seq(S) /\ Len(a) = (i - 1) - 1 + 1
      /\ \A j \in 1 .. (i - 1) - 1 + 1 : a[j] = s[1 + j - 1]
  <2>1. 1 \in 1 .. Len(s) + 1 /\ i - 1 \in 1 - 1 .. Len(s)
    OBVIOUS
  <2> HIDE DEF a
  <2> QED BY <2>1, PartOfSeq DEF a
<1>3. /\ b \in Seq(S) /\ Len(b) = n - i + 1
      /\ \A j \in 1 .. n - i + 1 : b[j] = s[i + j - 1]
  <2>1. i \in 1 .. Len(s) + 1 /\ Len(s) \in i - 1 .. Len(s)
    OBVIOUS
  <2> HIDE DEF b
  <2> QED BY <2>1, PartOfSeq DEF b
<1> HIDE DEF a, b, n
<1>4. Len(a) = i - 1
  BY <1>1, <1>2
<1>5. /\ c \in Seq(S) /\ Len(c) = i /\ c[i] = e
      /\ \A j \in 1 .. i - 1 : c[j] = a[j]
  BY <1>1, <1>2, <1>4
<1> HIDE DEF c
<1>6. /\ r \in Seq(S) /\ Len(r) = n + 1
      /\ \A j \in 1 .. i : r[j] = c[j]
      /\ \A j \in i + 1 .. n + 1 : r[j] = b[j - i]
  BY <1>1, <1>3, <1>5
<1> HIDE DEF r
<1>7. r[i] = e
  BY <1>1, <1>5, <1>6
<1>8. ASSUME NEW j \in 1 .. n
      PROVE  s[j] = r[IF j < i THEN j ELSE j + 1]
  <2>1. CASE j < i
    <3>1. j \in 1 .. i /\ j \in 1 .. i - 1 /\ j \in 1 .. (i - 1) - 1 + 1 /\ 1 + j - 1 = j
      BY <1>1, <2>1
    <3>2. r[j] = a[j] /\ a[j] = s[j]
      BY <1>2, <1>5, <1>6, <3>1
    <3> QED BY <2>1, <3>2
  <2>2. CASE ~(j < i)
    <3> DEFINE q == j + 1 - i
    <3>1. q \in 1 .. n - i + 1 /\ i + q - 1 = j /\ j + 1 \in i + 1 .. n + 1 /\ q = (j + 1) - i
      BY <1>1, <2>2
    <3>2. r[j + 1] = b[(j + 1) - i]
      BY <1>6, <3>1
    <3> HIDE DEF q
    <3>3. b[q] = s[j]
      BY <1>3, <3>1
    <3> QED BY <2>2, <3>1, <3>2, <3>3
  <2> QED BY <2>1, <2>2
<1>9. Spliced(s, i, e) = r
  BY DEF a, b, c, r, Spliced
<1> QED BY <1>6, <1>7, <1>8, <1>9 DEF n

\* A share of t, rounded down, that is not the last one is no more than what
\* the shares before it left.
LEMMA ShareFits ==
    ASSUME NEW t \in Nat, NEW m \in Nat \ {0}, NEW o \in 1 .. m, NEW a \in Int,
           a = t - (o - 1) * (t \div m)
    PROVE  t \div m \in Nat /\ t \div m <= a
<1> DEFINE q == t \div m
<1>1. q \in Nat /\ m * q <= t
  OBVIOUS
<1> HIDE DEF q
<1>2. (m - o) * q \in Nat
  <2>1. m - o \in Nat
    OBVIOUS
  <2> DEFINE d == m - o
  <2> HIDE DEF d
  <2>2. d * q \in Nat
    BY <1>1, <2>1 DEF d
  <2> QED BY <2>2 DEF d
<1>3. m * q = (m - o) * q + o * q
  BY <1>1
<1>4. o * q = (o - 1) * q + q
  BY <1>1
<1> DEFINE x == (m - o) * q
           y == (o - 1) * q
           z == m * q
           u == o * q
<1>5. x \in Nat /\ y \in Int /\ z \in Int /\ u \in Int /\ z = x + u /\ u = y + q /\ z <= t
  BY <1>1, <1>2, <1>3, <1>4
<1>6. a = t - y
  BY DEF q
<1> HIDE DEF x, y, z, u
<1>7. q <= a
  BY <1>1, <1>5, <1>6
<1> QED BY <1>1, <1>7 DEF q


-----------------------------------------------------------------------------
(* Sums along a sequence of what v says of its elements.                   *)

Values(s, v) == [i \in DOMAIN s |-> v[s[i]]]
SeqSum(s, v) == Total(Values(s, v), DOMAIN s)

LEMMA ValuesFacts ==
    ASSUME NEW S, NEW s \in Seq(S), NEW v \in [S -> Int]
    PROVE  /\ SeqSum(s, v) = Total(Values(s, v), 1 .. Len(s)) /\ SeqSum(s, v) \in Int
           /\ Valued(Values(s, v), 1 .. Len(s))
           /\ \A i \in 1 .. Len(s) : Values(s, v)[i] = v[s[i]] /\ s[i] \in S
<1> DEFINE n == Len(s)
           f == Values(s, v)
<1>1. n \in Nat /\ DOMAIN s = 1 .. n /\ IsFiniteSet(1 .. n)
  BY UpTo
<1>2. \A i \in 1 .. n : s[i] \in S
  OBVIOUS
<1>3. \A i \in 1 .. n : f[i] = v[s[i]] /\ f[i] \in Int
  BY <1>1, <1>2 DEF Values
<1> HIDE DEF n, f
<1>4. Valued(f, 1 .. n)
  BY <1>1, <1>3 DEF Valued
<1>5. Total(f, 1 .. n) \in Int
  BY <1>4, TotalType
<1>6. SeqSum(s, v) = Total(f, 1 .. n)
  BY <1>1 DEF SeqSum, f
<1> QED BY <1>2, <1>3, <1>4, <1>5, <1>6 DEF n, f

\* r is s without its i-th element.
Without(r, s, i) ==
    Len(r) = Len(s) - 1 /\ \A j \in 1 .. Len(s) - 1 : r[j] = s[IF j < i THEN j ELSE j + 1]

SumWithout(s, r, i, v) == SeqSum(s, v) = v[s[i]] + SeqSum(r, v)

LEMMA SeqSumWithout ==
    ASSUME NEW S, NEW s \in Seq(S), NEW r \in Seq(S), NEW v \in [S -> Int],
           NEW i \in 1 .. Len(s), Without(r, s, i)
    PROVE  SumWithout(s, r, i, v)
<1> DEFINE n == Len(s)
           f == Values(s, v)
           k == Values(r, v)
<1>1. /\ n \in Nat /\ i \in 1 .. n
      /\ SeqSum(s, v) = Total(f, 1 .. n) /\ Valued(f, 1 .. n)
      /\ \A j \in 1 .. n : f[j] = v[s[j]]
  BY ValuesFacts
<1>2. /\ SeqSum(r, v) = Total(k, 1 .. n - 1)
      /\ \A j \in 1 .. n - 1 : k[j] = v[r[j]]
  <2>1. Len(r) = n - 1
    BY DEF Without
  <2>2. SeqSum(r, v) = Total(k, 1 .. Len(r)) /\ \A j \in 1 .. Len(r) : k[j] = v[r[j]]
    BY ValuesFacts
  <2> HIDE DEF n, k
  <2> QED BY <2>1, <2>2
<1>3. \A j \in 1 .. n - 1 : r[j] = s[IF j < i THEN j ELSE j + 1]
  BY DEF Without
<1> HIDE DEF n, f, k
<1>4. \A j \in 1 .. n - 1 : (IF j < i THEN j ELSE j + 1) \in 1 .. n
  BY <1>1
<1>5. \A j \in 1 .. n - 1 : k[j] = f[IF j < i THEN j ELSE j + 1]
  BY <1>1, <1>2, <1>3, <1>4
<1>6. Total(f, 1 .. n) = f[i] + Total(k, 1 .. n - 1)
  BY <1>1, <1>5, TotalRemoved
<1> QED BY <1>1, <1>2, <1>6 DEF SumWithout

LEMMA SeqSumReplaced ==
    ASSUME NEW S, NEW s \in Seq(S), NEW r \in Seq(S), NEW v \in [S -> Int], NEW i \in 1 .. Len(s),
           Len(r) = Len(s), \A j \in 1 .. Len(s) : j # i => r[j] = s[j]
    PROVE  SeqSum(r, v) + v[s[i]] = SeqSum(s, v) + v[r[i]]
<1> DEFINE n == Len(s)
           f == Values(s, v)
           k == Values(r, v)
           x == v[s[i]]
           y == v[r[i]]
<1>1. /\ SeqSum(s, v) = Total(f, 1 .. n) /\ Valued(f, 1 .. n) /\ SeqSum(s, v) \in Int
      /\ \A j \in 1 .. n : f[j] = v[s[j]]
  BY ValuesFacts
<1>2. SeqSum(r, v) = Total(k, 1 .. n) /\ \A j \in 1 .. n : k[j] = v[r[j]]
  BY ValuesFacts
<1>3. i \in 1 .. n /\ f[i] = x /\ k[i] = y /\ x \in Int /\ y \in Int
  <2>1. s[i] \in S /\ r[i] \in S
    OBVIOUS
  <2> QED BY <1>1, <1>2, <2>1
<1>4. \A j \in 1 .. n : j # i => k[j] = f[j]
  <2> SUFFICES ASSUME NEW j \in 1 .. n, j # i PROVE k[j] = f[j]
    OBVIOUS
  <2> HIDE DEF f, k
  <2>1. k[j] = v[r[j]] /\ f[j] = v[s[j]]
    BY <1>1, <1>2
  <2>2. r[j] = s[j]
    OBVIOUS
  <2> QED BY <2>1, <2>2
<1> HIDE DEF n, f, k, x, y
<1>5. y - x \in Int /\ x + (y - x) = y
  BY <1>3
<1>6. \A j \in 1 .. n : k[j] = IF j = i THEN f[i] + (y - x) ELSE f[j]
  BY <1>3, <1>4, <1>5
<1>7. Total(k, 1 .. n) = Total(f, 1 .. n) + (y - x)
  <2> DEFINE D == 1 .. n
             d == y - x
  <2>1. Valued(f, D) /\ i \in D /\ d \in Int /\ \A j \in D : k[j] = IF j = i THEN f[i] + d ELSE f[j]
    BY <1>1, <1>3, <1>5, <1>6
  <2> HIDE DEF D, d
  <2>2. Total(k, D) = Total(f, D) + d
    BY <2>1, TotalChange
  <2> QED BY <2>2 DEF D, d
<1> DEFINE A == SeqSum(s, v)
<1>8. SeqSum(r, v) = A + (y - x) /\ A \in Int
  BY <1>1, <1>2, <1>7
<1> HIDE DEF A
<1>9. SeqSum(r, v) + x = A + y
  BY <1>3, <1>8
<1> QED BY <1>9 DEF A, x, y

LEMMA SeqSumNat ==
    ASSUME NEW S, NEW s \in Seq(S), NEW v \in [S -> Nat]
    PROVE  SeqSum(s, v) \in Nat /\ \A i \in 1 .. Len(s) : v[s[i]] <= SeqSum(s, v)
<1> DEFINE n == Len(s)
           f == Values(s, v)
<1>1. /\ SeqSum(s, v) = Total(f, 1 .. n) /\ n \in Nat
      /\ \A i \in 1 .. n : f[i] = v[s[i]] /\ s[i] \in S
  <2>1. v \in [S -> Int]
    OBVIOUS
  <2> QED BY <2>1, ValuesFacts
<1>2. \A i \in 1 .. n : f[i] \in Nat
  BY <1>1
<1>3. IsFiniteSet(1 .. n)
  BY <1>1, UpTo
<1> HIDE DEF n, f
<1>4. Total(f, 1 .. n) \in Nat /\ \A i \in 1 .. n : f[i] <= Total(f, 1 .. n)
  BY <1>2, <1>3, TotalNat
<1>5. \A i \in 1 .. n : v[s[i]] <= SeqSum(s, v)
  BY <1>1, <1>4
<1> QED BY <1>1, <1>4, <1>5 DEF n


\* A total of zeros.
LEMMA TotalZero ==
    ASSUME NEW S, NEW f, Valued(f, S), \A x \in S : f[x] = 0
    PROVE  Total(f, S) = 0
<1>1. PICK g : SumsTo(g, f, S)
  BY TotalExists
<1> DEFINE Z == {s \in SUBSET S : g[s] = 0}
<1>2. {} \in Z
  BY <1>1 DEF SumsTo
<1>3. ASSUME NEW s \in SUBSET S, s # {}, \A b \in s : s \ {b} \in Z
      PROVE  s \in Z
  <2>1. PICK b \in s : TRUE
    BY <1>3
  <2>2. g[s] = f[b] + g[s \ {b}] /\ g[s \ {b}] = 0 /\ f[b] = 0
    BY <1>1, <1>3 DEF SumsTo
  <2> QED BY <2>2
<1>4. S \in Z
  <2>1. S \in SUBSET S
    OBVIOUS
  <2> HIDE DEF Z
  <2> QED BY <1>2, <1>3, <2>1, SubsetInduction DEF Valued
<1>5. Total(f, S) = g[S]
  BY <1>1, TotalIs
<1> QED BY <1>4, <1>5


-----------------------------------------------------------------------------
(* Folds over a sequence.  The community modules define FoldLeft on the set *)
(* of the indices, from the largest one down.                               *)

\* The largest number of a set.
LargestOf(t) == CHOOSE x \in t : \A y \in t : x >= y

LEMMA LargestIs ==
    ASSUME NEW n \in Nat, NEW t \in SUBSET (1 .. n), t # {}
    PROVE  LargestOf(t) \in t /\ \A y \in t : y <= LargestOf(t)
<1>1. t \subseteq 0 .. n
  OBVIOUS
<1>2. \E x \in t : \A y \in t : y <= x
  BY <1>1, NatMax
<1>3. \A x, y \in 1 .. n : y <= x <=> x >= y
  OBVIOUS
<1>4. \E x \in t : \A y \in t : x >= y
  BY <1>2, <1>3
<1>5. LargestOf(t) \in t /\ \A y \in t : LargestOf(t) >= y
  BY <1>4 DEF LargestOf
<1> QED BY <1>3, <1>5

LEMMA LargestUpTo ==
    ASSUME NEW n \in Nat, n # 0
    PROVE  1 .. n # {} /\ LargestOf(1 .. n) = n /\ (1 .. n) \ {n} = 1 .. n - 1
<1>1. n \in 1 .. n /\ 1 .. n # {}
  OBVIOUS
<1>2. LargestOf(1 .. n) \in 1 .. n /\ n <= LargestOf(1 .. n)
  BY <1>1, LargestIs
<1>3. LargestOf(1 .. n) = n
  BY <1>2
<1>4. (1 .. n) \ {n} = 1 .. n - 1
  OBVIOUS
<1> QED BY <1>1, <1>3, <1>4

\* Two ways to go on that differ in one step agree before it.
LEMMA AgreeBefore ==
    ASSUME NEW S, NEW N \in Nat, NEW x \in S, NEW m \in 1 .. N,
           NEW F, NEW G, \A n \in 1 .. N : n < m => F[n] = G[n],
           NEW h, NEW k, Follows(h, x, F, N), Follows(k, x, G, N)
    PROVE  h[m - 1] = k[m - 1]
<1> DEFINE bad == {n \in 0 .. m - 1 : h[n] # k[n]}
<1>1. ASSUME bad # {}
      PROVE  FALSE
  <2>1. PICK n \in bad : \A y \in bad : n <= y
    <3>1. bad \subseteq Nat
      OBVIOUS
    <3> QED BY <1>1, <3>1, NatMin
  <2>2. n \in 0 .. m - 1 /\ h[n] # k[n] /\ n # 0
    BY DEF Follows
  <2>3. n \in 1 .. N /\ n - 1 \in 0 .. m - 1 /\ ~(n <= n - 1) /\ n < m
    BY <2>2
  <2>4. h[n - 1] = k[n - 1]
    BY <2>1, <2>3
  <2>5. h[n] = F[n][h[n - 1]] /\ k[n] = G[n][k[n - 1]]
    BY <2>3 DEF Follows
  <2> QED BY <2>2, <2>3, <2>4, <2>5
<1>2. m - 1 \in 0 .. m - 1
  OBVIOUS
<1> QED BY <1>1, <1>2

\* Steps that change nothing from m on.
LEMMA StaysFrom ==
    ASSUME NEW S, NEW N \in Nat, NEW x, NEW m \in 0 .. N, NEW F,
           NEW h \in [0 .. N -> S], Follows(h, x, F, N),
           \A n \in 1 .. N : n > m => F[n] = [y \in S |-> y]
    PROVE  h[N] = h[m]
<1> DEFINE bad == {n \in m .. N : h[n] # h[m]}
<1>1. ASSUME bad # {}
      PROVE  FALSE
  <2>1. PICK n \in bad : \A y \in bad : n <= y
    <3>1. bad \subseteq Nat
      OBVIOUS
    <3> QED BY <1>1, <3>1, NatMin
  <2>2. n \in m .. N /\ h[n] # h[m] /\ n # m
    OBVIOUS
  <2>3. n \in 1 .. N /\ n - 1 \in m .. N /\ ~(n <= n - 1) /\ n > m /\ n - 1 \in 0 .. N
    BY <2>2
  <2>4. h[n - 1] = h[m] /\ h[n - 1] \in S
    BY <2>1, <2>3
  <2>5. h[n] = F[n][h[n - 1]] /\ F[n] = [y \in S |-> y]
    BY <2>3 DEF Follows
  <2> QED BY <2>2, <2>4, <2>5
<1>2. N \in m .. N
  OBVIOUS
<1> QED BY <1>1, <1>2

\* g is the function on the sets of indices that a fold is defined by, F[n]
\* being the step that takes element n.
FoldsOver(g, b, F, N) ==
    \A s \in SUBSET (1 .. N) :
        g[s] = IF s = {} THEN b ELSE F[LargestOf(s)][g[s \ {LargestOf(s)}]]

LEMMA FoldExists ==
    ASSUME NEW S, NEW N \in Nat, NEW b \in S, NEW F \in [1 .. N -> [S -> S]]
    PROVE  \E g \in [SUBSET (1 .. N) -> S] : FoldsOver(g, b, F, N)
<1> DEFINE Taking(t) == [n \in 1 .. N |-> IF n \in t THEN F[n] ELSE [x \in S |-> x]]
           H(t) == CHOOSE h \in [0 .. N -> S] : Follows(h, b, Taking(t), N)
           g == [t \in SUBSET (1 .. N) |-> H(t)[N]]
<1>1. ASSUME NEW t \in SUBSET (1 .. N)
      PROVE  H(t) \in [0 .. N -> S] /\ Follows(H(t), b, Taking(t), N)
  <2>1. Taking(t) \in [1 .. N -> [S -> S]]
    OBVIOUS
  <2> HIDE DEF Taking
  <2>2. \E h \in [0 .. N -> S] : Follows(h, b, Taking(t), N)
    BY <2>1, Recursion
  <2> QED BY <2>2
<1>2. \A t \in SUBSET (1 .. N), n \in 1 .. N : Taking(t)[n] = IF n \in t THEN F[n] ELSE [x \in S |-> x]
  OBVIOUS
<1> HIDE DEF Taking, H
<1>3. g \in [SUBSET (1 .. N) -> S] /\ \A t \in SUBSET (1 .. N) : g[t] = H(t)[N]
  BY <1>1
<1> HIDE DEF g
<1>4. g[{}] = b
  <2>1. {} \in SUBSET (1 .. N) /\ 0 \in 0 .. N
    OBVIOUS
  <2>2. \A n \in 1 .. N : n > 0 => Taking({})[n] = [y \in S |-> y]
    BY <1>2
  <2>3. H({})[N] = H({})[0]
    BY <1>1, <2>1, <2>2, StaysFrom
  <2>4. H({})[0] = b
    BY <1>1, <2>1 DEF Follows
  <2> QED BY <1>3, <2>1, <2>3, <2>4
<1>5. ASSUME NEW t \in SUBSET (1 .. N), t # {}
      PROVE  g[t] = F[LargestOf(t)][g[t \ {LargestOf(t)}]]
  <2> DEFINE m == LargestOf(t)
             u == t \ {m}
  <2>1. m \in t /\ \A y \in t : y <= m
    BY <1>5, LargestIs
  <2> HIDE DEF m
  <2>2. m \in 1 .. N /\ m - 1 \in 0 .. N /\ m \in 0 .. N
    <3>1. m \in 1 .. N
      BY <2>1
    <3> QED BY <3>1
  <2>3. u \in SUBSET (1 .. N) /\ \A n \in 1 .. N : n < m => (n \in t <=> n \in u)
    BY <2>2
  <2>4. \A n \in 1 .. N : n > m => n \notin t
    BY <2>1, <2>2
  <2>5. \A n \in 1 .. N : n > m - 1 => n \notin u
    BY <2>2, <2>1
  <2> HIDE DEF u
  <2> DEFINE h == H(t)
             k == H(u)
             A == Taking(t)
             B == Taking(u)
  <2>a. h \in [0 .. N -> S] /\ Follows(h, b, A, N)
    BY <1>1
  <2>b. k \in [0 .. N -> S] /\ Follows(k, b, B, N)
    BY <1>1, <2>3
  <2>c. \A n \in 1 .. N : n > m => A[n] = [y \in S |-> y]
    BY <1>2, <2>4
  <2>d. \A n \in 1 .. N : n > m - 1 => B[n] = [y \in S |-> y]
    BY <1>2, <2>3, <2>5
  <2>e. \A n \in 1 .. N : n < m => A[n] = B[n]
    BY <1>2, <2>3
  <2>f. A[m] = F[m]
    BY <1>2, <2>1, <2>2
  <2>g. g[t] = h[N] /\ g[u] = k[N]
    BY <1>3, <2>3
  <2> HIDE DEF h, k, A, B
  <2>6. h[N] = h[m]
    BY <2>2, <2>a, <2>c, StaysFrom
  <2>7. k[N] = k[m - 1]
    BY <2>2, <2>b, <2>d, StaysFrom
  <2>8. h[m - 1] = k[m - 1]
    BY <2>2, <2>a, <2>b, <2>e, AgreeBefore
  <2>9. h[m] = F[m][h[m - 1]]
    BY <2>2, <2>a, <2>f DEF Follows
  <2>10. g[t] = F[m][g[u]]
    BY <2>6, <2>7, <2>8, <2>9, <2>g
  <2> QED BY <2>10 DEF m, u
<1>6. FoldsOver(g, b, F, N)
  BY <1>4, <1>5 DEF FoldsOver
<1> QED BY <1>3, <1>6

\* What a fold has made of the first n elements, for each n.
LEMMA FoldAlong ==
    ASSUME NEW N \in Nat, NEW g, NEW h, g[{}] = h[0],
           \A n \in 1 .. N : g[1 .. n - 1] = h[n - 1] => g[1 .. n] = h[n]
    PROVE  g[1 .. N] = h[N]
<1> DEFINE bad == {n \in 0 .. N : g[1 .. n] # h[n]}
<1>1. ASSUME bad # {}
      PROVE  FALSE
  <2>1. PICK n \in bad : \A y \in bad : n <= y
    <3>1. bad \subseteq Nat
      OBVIOUS
    <3> QED BY <1>1, <3>1, NatMin
  <2>2. n \in 0 .. N /\ g[1 .. n] # h[n]
    OBVIOUS
  <2>3. n # 0
    <3>1. 1 .. 0 = {}
      OBVIOUS
    <3> QED BY <2>2, <3>1
  <2>4. n \in 1 .. N /\ n - 1 \in 0 .. N /\ ~(n <= n - 1)
    BY <2>2, <2>3
  <2>5. g[1 .. n - 1] = h[n - 1]
    BY <2>1, <2>4
  <2> QED BY <2>2, <2>4, <2>5
<1>2. N \in 0 .. N
  OBVIOUS
<1> QED BY <1>1, <1>2


\* Induction up to N.
LEMMA Upwards ==
    ASSUME NEW N \in Nat, NEW Z, 0 \in Z, \A n \in 1 .. N : n - 1 \in Z => n \in Z
    PROVE  \A n \in 0 .. N : n \in Z
<1> DEFINE h == [n \in 0 .. N |-> n]
<1>1. h[0] \in Z /\ \A n \in 1 .. N : h[n - 1] \in Z => h[n] \in Z
  OBVIOUS
<1>2. \A n \in 0 .. N : h[n] = n
  OBVIOUS
<1> HIDE DEF h
<1>3. \A n \in 0 .. N : h[n] \in Z
  BY <1>1, Along
<1> QED BY <1>2, <1>3

\* What holds of m when it holds of all smaller numbers holds of all of them.
LEMMA Downwards ==
    ASSUME NEW N \in Nat, NEW Z,
           \A m \in 1 .. N : (\A i \in 1 .. m - 1 : i \in Z) => m \in Z
    PROVE  \A n \in 1 .. N : n \in Z
<1> DEFINE bad == {n \in 1 .. N : n \notin Z}
<1>1. ASSUME bad # {}
      PROVE  FALSE
  <2>1. PICK m \in bad : \A y \in bad : m <= y
    <3>1. bad \subseteq Nat
      OBVIOUS
    <3> QED BY <1>1, <3>1, NatMin
  <2>2. m \in 1 .. N /\ m \notin Z
    OBVIOUS
  <2>3. \A i \in 1 .. m - 1 : i \in 1 .. N /\ ~(m <= i)
    BY <2>2
  <2>4. \A i \in 1 .. m - 1 : i \in Z
    BY <2>1, <2>3
  <2> QED BY <2>2, <2>4
<1> QED BY <1>1

\* The first n elements of a sequence.
FirstOf(s, n) == {s[i] : i \in 1 .. n}

LEMMA FirstOfFacts ==
    /\ \A s : FirstOf(s, 0) = {}
    /\ \A s, n : n \in Nat /\ n # 0 => FirstOf(s, n) = FirstOf(s, n - 1) \cup {s[n]}
<1>1. \A s : FirstOf(s, 0) = {}
  BY DEF FirstOf
<1>2. ASSUME NEW s, NEW n \in Nat, n # 0
      PROVE  FirstOf(s, n) = FirstOf(s, n - 1) \cup {s[n]}
  <2>1. \A i : i \in 1 .. n <=> (i \in 1 .. n - 1 \/ i = n)
    BY <1>2
  <2> QED BY <2>1 DEF FirstOf
<1> QED BY <1>1, <1>2


\* w is one sequence after another.
JoinOf(w, u, v) ==
    /\ Len(w) = Len(u) + Len(v)
    /\ \A i \in 1 .. Len(u) : w[i] = u[i]
    /\ \A i \in 1 .. Len(v) : w[Len(u) + i] = v[i]

LEMMA JoinedSeq ==
    ASSUME NEW S, NEW u \in Seq(S), NEW v \in Seq(S)
    PROVE  u \o v \in Seq(S) /\ JoinOf(u \o v, u, v)
BY DEF JoinOf


\* The same, where nothing is known of g but what it makes of values in S.
FoldsWithin(g, b, F, N, S) ==
    /\ g[{}] = b
    /\ \A s \in SUBSET (1 .. N) :
          s # {} /\ g[s \ {LargestOf(s)}] \in S => g[s] = F[LargestOf(s)][g[s \ {LargestOf(s)}]]

\* A fold has the value that its steps lead to.
LEMMA FoldIs ==
    ASSUME NEW S, NEW N \in Nat, NEW b \in S, NEW F \in [1 .. N -> [S -> S]],
           NEW h \in [0 .. N -> S], Follows(h, b, F, N), NEW g, FoldsWithin(g, b, F, N, S)
    PROVE  g[1 .. N] = h[N]
<1>1. g[{}] = h[0]
  BY DEF Follows, FoldsWithin
<1>2. ASSUME NEW n \in 1 .. N, g[1 .. n - 1] = h[n - 1]
      PROVE  g[1 .. n] = h[n]
  <2>1. n \in Nat /\ n # 0 /\ 1 .. n \in SUBSET (1 .. N) /\ n - 1 \in 0 .. N
    OBVIOUS
  <2>2. 1 .. n # {} /\ LargestOf(1 .. n) = n /\ (1 .. n) \ {n} = 1 .. n - 1
    BY <2>1, LargestUpTo
  <2>3. g[1 .. n - 1] \in S
    BY <1>2, <2>1
  <2>4. g[1 .. n] = F[n][g[1 .. n - 1]]
    BY <2>1, <2>2, <2>3 DEF FoldsWithin
  <2>5. h[n] = F[n][h[n - 1]]
    BY DEF Follows
  <2> QED BY <1>2, <2>4, <2>5
<1> QED BY <1>1, <1>2, FoldAlong
=============================================================================
