---------------------------- MODULE LedgerProofs ----------------------------
(***************************************************************************)
(* The money of the chain, for every set of accounts, amounts, orders and  *)
(* numbers of months and cycle, and however many requests and stakes there *)
(* are.                                                                    *)
(*                                                                         *)
(* First the split payments: what is left of a request is its total        *)
(* without the payments made.  Then the sums: SumOver, SumOf and           *)
(* SumOfStakes are totals that do not depend on the order of summing       *)
(* (NumberFacts), so that a step changes a sum by what it adds.  MoneyInv  *)
(* is the invariant that relates the sums, and is inductive with Inv.      *)
(***************************************************************************)
EXTENDS Ledger, NumberFacts, TLAPS

Request == [from : Users, to : Payee, id : RequestId, amount : Int, total : Amount,
            first : SplitOrder, order : Int, month : SplitMonth, complete : Nat]

\* What is left of a request is its total without the payments made.
Left(w) ==
    /\ Paid(w) = 0 => w.amount = w.total
    /\ Paid(w) > 0 => w.month # 0 /\ w.amount = w.total - Paid(w) * (w.total \div w.month)

OnSchedule(w) ==
    /\ w \in Request /\ w.order \in 0 .. 255
    /\ Paid(w) <= (w.month - w.first) % 256
    /\ Left(w)

\* by_from_rid is a unique index.
KeysDiffer(ws) == \A v, w \in ws : v.from = w.from /\ v.id = w.id => v = w

\* InstalmentsAddUp, with the types it speaks of, the unique key of a request,
\* and an iterator that points to a request or to the end.
Inv ==
    /\ \A w \in withdraws : OnSchedule(w)
    /\ KeysDiffer(withdraws)
    /\ itr \in withdraws \cup {End}
    /\ phase \in {"txs", "staking"} => itr = End

-----------------------------------------------------------------------------
(* The facts about the constants that the arithmetic needs.                *)
LEMMA ConstantTypes ==
    /\ \A n \in Amount : n \in Int
    /\ \A m \in SplitMonth : m \in 0 .. 255
    /\ \A o \in SplitOrder : o \in 0 .. 255
    /\ \A i \in RequestId : i \in Nat
    /\ Cycle \in Nat /\ MaxTime \in Nat
    /\ \A a \in Users : Rank[a] \in Nat
    /\ \A a, b \in Users : Rank[a] = Rank[b] => a = b
<1>1. /\ Amount \subseteq Nat \ {0} /\ RequestId \subseteq Nat
      /\ SplitMonth \subseteq 0 .. 255 /\ SplitOrder \subseteq 0 .. 255
      /\ Cycle \in Nat \ {0} /\ MaxTime \in Nat
      /\ Rank \in [Account -> Nat] /\ \A a, b \in Account : Rank[a] = Rank[b] => a = b
  BY LedgerAssumption
<1>2. Users \subseteq Account
  BY DEF Users
<1> QED BY <1>1, <1>2

\* The order is a uint8_t: the remainder by 256 is one of two values.
LEMMA Wraps ==
    ASSUME NEW o \in 0 .. 255, NEW f \in 0 .. 255
    PROVE  (o - f) % 256 = IF f <= o THEN o - f ELSE (o - f) + 256
OBVIOUS

LEMMA NextOrder ==
    ASSUME NEW o \in 0 .. 255
    PROVE  (o + 1) % 256 \in 0 .. 255 /\ (o + 1) % 256 = IF o = 255 THEN 0 ELSE o + 1
<1>1. CASE o = 255
  BY <1>1
<1>2. CASE o # 255
  BY <1>2
<1> QED BY <1>1, <1>2

LEMMA ShareType ==
    ASSUME NEW t \in Nat, NEW m \in 0 .. 255, m # 0
    PROVE  t \div m \in Nat
OBVIOUS

\* One more payment, while the order is not the month, does not pass the month.
LEMMA OneMorePaid ==
    ASSUME NEW o \in 0 .. 255, NEW f \in 0 .. 255, NEW m \in 0 .. 255, o # m,
           (o - f) % 256 <= (m - f) % 256
    PROVE  /\ (o + 1) % 256 \in 0 .. 255
           /\ (((o + 1) % 256) - f) % 256 = ((o - f) % 256) + 1
           /\ ((o - f) % 256) + 1 <= (m - f) % 256
<1> DEFINE p == (o + 1) % 256
           a == (o - f) % 256
           b == (m - f) % 256
           c == (p - f) % 256
<1>1. p \in 0 .. 255 /\ p = IF o = 255 THEN 0 ELSE o + 1
  BY NextOrder
<1> HIDE DEF p
<1>2. a = IF f <= o THEN o - f ELSE (o - f) + 256
  BY Wraps
<1>3. b = IF f <= m THEN m - f ELSE (m - f) + 256
  BY Wraps
<1>4. c = IF f <= p THEN p - f ELSE (p - f) + 256
  BY <1>1, Wraps
<1>5. a <= b
  OBVIOUS
<1> HIDE DEF a, b, c
<1>6. c = a + 1 /\ a + 1 <= b
  BY <1>1, <1>2, <1>3, <1>4, <1>5
<1> QED BY <1>1, <1>6 DEF a, b, c, p

\* The order of a request with an order up to its month does not wrap.
LEMMA NoWrap ==
    ASSUME NEW o \in 0 .. 255, NEW f \in 0 .. 255, NEW m \in 0 .. 255, f <= m,
           (o - f) % 256 <= (m - f) % 256
    PROVE  o \in f .. m /\ (o - f) % 256 = o - f
<1> DEFINE a == (o - f) % 256
           b == (m - f) % 256
<1>1. a = IF f <= o THEN o - f ELSE (o - f) + 256
  BY Wraps
<1>2. b = m - f
  BY Wraps
<1>3. a <= b
  OBVIOUS
<1> HIDE DEF a, b
<1>4. o \in f .. m /\ a = o - f
  BY <1>1, <1>2, <1>3
<1> QED BY <1>4 DEF a

LEMMA PaidFacts ==
    ASSUME NEW w \in Request, w.order \in 0 .. 255
    PROVE  /\ Paid(w) \in Nat /\ w.first \in 0 .. 255 /\ w.month \in 0 .. 255
           /\ w.total \in Nat /\ w.amount \in Int /\ w.complete \in Nat
           /\ (Paid(w) = 0 <=> w.order = w.first)
           /\ w.month # 0 => w.total \div w.month \in Nat
<1>1. w.first \in 0 .. 255 /\ w.month \in 0 .. 255 /\ w.amount \in Int /\ w.complete \in Nat
  BY ConstantTypes DEF Request
<1>2. w.total \in Nat
  <2>1. w.total \in Amount
    BY DEF Request
  <2>2. Amount \subseteq Nat
    BY LedgerAssumption
  <2> QED BY <2>1, <2>2
<1>3. (w.order - w.first) % 256 = IF w.first <= w.order THEN w.order - w.first
                                  ELSE (w.order - w.first) + 256
  BY <1>1, Wraps
<1>4. Paid(w) \in Nat /\ (Paid(w) = 0 <=> w.order = w.first)
  <2> DEFINE o == w.order
             f == w.first
             k == Paid(w)
  <2>1. o \in 0 .. 255 /\ f \in 0 .. 255 /\ k = IF f <= o THEN o - f ELSE (o - f) + 256
    BY <1>1, <1>3 DEF Paid
  <2> HIDE DEF o, f, k
  <2>2. k \in Nat /\ (k = 0 <=> o = f)
    BY <2>1
  <2> QED BY <2>2 DEF o, f, k
<1>5. w.month # 0 => w.total \div w.month \in Nat
  BY <1>1, <1>2, ShareType
<1> QED BY <1>1, <1>2, <1>4, <1>5

\* A request starts with nothing paid.
LEMMA NewRequest ==
    ASSUME NEW f \in Users, NEW t \in Payee, NEW i \in RequestId, NEW n \in Amount,
           NEW o \in SplitOrder, NEW m \in SplitMonth, NEW c \in Nat
    PROVE  OnSchedule([from |-> f, to |-> t, id |-> i, amount |-> n, total |-> n,
                       first |-> o, order |-> o, month |-> m, complete |-> c])
<1> DEFINE w == [from |-> f, to |-> t, id |-> i, amount |-> n, total |-> n,
                 first |-> o, order |-> o, month |-> m, complete |-> c]
<1>1. n \in Int /\ o \in 0 .. 255 /\ m \in 0 .. 255
  BY ConstantTypes
<1>2. w \in Request /\ w.order \in 0 .. 255
  BY <1>1 DEF Request
<1>3. w.amount = n /\ w.total = n /\ w.order = o /\ w.first = o /\ w.month = m
  OBVIOUS
<1> HIDE DEF w
<1>4. Paid(w) = 0
  BY <1>2, <1>3, PaidFacts
<1>5. 0 <= (m - o) % 256
  BY <1>1
<1>6. Left(w) /\ Paid(w) <= (w.month - w.first) % 256
  BY <1>3, <1>4, <1>5 DEF Left
<1> QED BY <1>2, <1>6 DEF OnSchedule, w

\* A payment that is not the last one takes a share, rounded down, and leaves
\* a request that is on schedule for the next.
LEMMA NextOnSchedule ==
    ASSUME NEW w, OnSchedule(w), w.order # w.month, w.month # 0
    PROVE  OnSchedule(NextPayment(w)) /\ Paid(NextPayment(w)) = Paid(w) + 1
<1> DEFINE q == w.total \div w.month
           v == NextPayment(w)
           k == Paid(w)
<1>1. w \in Request /\ w.order \in 0 .. 255 /\ k <= (w.month - w.first) % 256 /\ Left(w)
  BY DEF OnSchedule
<1>2. /\ k \in Nat /\ w.first \in 0 .. 255 /\ w.month \in 0 .. 255
      /\ w.total \in Nat /\ w.amount \in Int /\ w.complete \in Nat /\ q \in Nat
  BY <1>1, PaidFacts
<1>3. v = [from |-> w.from, to |-> w.to, id |-> w.id, amount |-> w.amount - q,
           total |-> w.total, first |-> w.first, order |-> (w.order + 1) % 256,
           month |-> w.month, complete |-> w.complete + Cycle]
  BY DEF NextPayment, Payment
<1>4. /\ (w.order + 1) % 256 \in 0 .. 255
      /\ (((w.order + 1) % 256) - w.first) % 256 = ((w.order - w.first) % 256) + 1
      /\ ((w.order - w.first) % 256) + 1 <= (w.month - w.first) % 256
  <2>1. (w.order - w.first) % 256 <= (w.month - w.first) % 256
    BY <1>1 DEF Paid
  <2>2. w.order \in 0 .. 255 /\ w.first \in 0 .. 255 /\ w.month \in 0 .. 255
    BY <1>1, <1>2
  <2> QED BY <2>1, <2>2, OneMorePaid, Zenon
<1>5. w.amount = w.total - k * q
  <2>1. CASE k = 0
    <3>1. k * q = 0
      BY <1>2, <2>1
    <3> QED BY <1>1, <1>2, <2>1, <3>1 DEF Left
  <2>2. CASE k # 0
    BY <1>1, <1>2, <2>2 DEF Left
  <2> QED BY <2>1, <2>2
<1> HIDE DEF q, v
<1>6. v \in Request
  <2>1. w.complete + Cycle \in Nat /\ w.amount - q \in Int
    BY <1>2, ConstantTypes
  <2>2. (w.order + 1) % 256 \in Int
    BY <1>4
  <2> QED BY <1>1, <1>3, <2>1, <2>2 DEF Request
<1>7. /\ v.order = (w.order + 1) % 256 /\ v.first = w.first /\ v.month = w.month
      /\ v.total = w.total /\ v.amount = w.amount - q
  BY <1>3
<1>8. Paid(v) = k + 1 /\ Paid(v) <= (v.month - v.first) % 256
  BY <1>4, <1>7 DEF Paid
<1> HIDE DEF k
<1>9. v.amount = v.total - Paid(v) * (v.total \div v.month)
  <2>1. v.total \div v.month = q
    BY <1>7 DEF q
  <2>2. (k + 1) * q = k * q + q /\ k * q \in Int
    BY <1>2
  <2>3. w.amount - q = w.total - (k * q + q)
    BY <1>2, <1>5, <2>2
  <2> QED BY <1>7, <1>8, <2>1, <2>2, <2>3
<1>10. Left(v)
  <2>1. Paid(v) # 0 /\ v.month # 0
    BY <1>2, <1>7, <1>8
  <2> QED BY <1>9, <2>1 DEF Left
<1>11. v.order \in 0 .. 255
  BY <1>4, <1>7
<1> QED BY <1>6, <1>8, <1>10, <1>11 DEF OnSchedule, v, k

\* The shares that are paid before the last payment do not exceed the total.
LEMMA SharesFit ==
    ASSUME NEW t \in Nat, NEW m \in Nat \ {0}, NEW k \in 0 .. m
    PROVE  t \div m \in Nat /\ k * (t \div m) \in Int /\ 0 <= t - k * (t \div m)
           /\ (k < m => t \div m <= t - k * (t \div m))
<1> DEFINE q == t \div m
<1>1. q \in Nat /\ m * q <= t
  OBVIOUS
<1> HIDE DEF q
<1>2. (m - k) * q \in Nat
  <2> DEFINE d == m - k
  <2>1. d \in Nat
    OBVIOUS
  <2> HIDE DEF d
  <2>2. d * q \in Nat
    BY <1>1, <2>1
  <2> QED BY <2>2 DEF d
<1>3. m * q = (m - k) * q + k * q
  BY <1>1
<1> DEFINE x == (m - k) * q
           y == k * q
           z == m * q
<1>4. x \in Nat /\ y \in Int /\ z \in Int /\ z = x + y /\ z <= t
  BY <1>1, <1>2, <1>3
<1>5. k < m => q <= x
  <2> SUFFICES ASSUME k < m PROVE q <= x
    OBVIOUS
  <2> DEFINE e == (m - k) - 1
  <2>1. e \in Nat /\ m - k = e + 1
    OBVIOUS
  <2> HIDE DEF e, x
  <2>2. e * q \in Nat
    BY <1>1, <2>1
  <2>3. (e + 1) * q = e * q + q
    BY <1>1, <2>1
  <2>4. x = e * q + q
    BY <2>1, <2>3 DEF x
  <2> QED BY <1>1, <2>2, <2>4
<1> HIDE DEF x, y, z
<1>6. 0 <= t - y /\ (k < m => q <= t - y)
  BY <1>1, <1>4, <1>5
<1> QED BY <1>1, <1>4, <1>6 DEF q, y

\* A payment is a number, unless the division is by zero; and what is left of
\* a request with an order up to its month covers the next payment.
LEMMA ScheduleFacts ==
    ASSUME NEW w, OnSchedule(w)
    PROVE  /\ w.amount \in Int /\ (Defined(w) => Payment(w) \in Int)
           /\ OnPlan(w) => w.order \in w.first .. w.month /\ Defined(w)
                           /\ w.amount \in Nat /\ Payment(w) \in 0 .. w.amount
           /\ w \in Withdraw
           /\ w.to \in Account /\ w.from \in Account /\ w.complete \in Nat
<1> DEFINE k == Paid(w)
           m == w.month
           f == w.first
           o == w.order
           t == w.total
           a == w.amount
           q == t \div m
<1>1. w \in Request /\ o \in 0 .. 255 /\ (o - f) % 256 <= (m - f) % 256 /\ Left(w)
  BY DEF OnSchedule, Paid
<1>2. /\ k \in Nat /\ f \in 0 .. 255 /\ m \in 0 .. 255 /\ t \in Nat /\ a \in Int
      /\ w.complete \in Nat /\ (k = 0 <=> o = f) /\ (m # 0 => q \in Nat)
  BY <1>1, PaidFacts
<1>3. (k = 0 => a = t) /\ (k > 0 => m # 0 /\ a = t - k * q)
  BY <1>1 DEF Left
<1>4. Payment(w) = IF o = m THEN a ELSE q
  BY DEF Payment
<1>5. Defined(w) <=> (o = m \/ m # 0)
  BY DEF Defined
<1>6. k = (o - f) % 256
  BY DEF Paid
<1>7. OnPlan(w) <=> f <= m
  BY DEF OnPlan
<1>8. w.to \in Account /\ w.from \in Account
  BY <1>1, LedgerAssumption DEF Request, Users
<1>9. w \in Withdraw
  BY <1>1 DEF Request, Withdraw
<1> HIDE DEF k, m, f, o, t, a
<1>10. Defined(w) => Payment(w) \in Int
  <2> HIDE DEF q
  <2> QED BY <1>2, <1>4, <1>5
<1>11. ASSUME f <= m
       PROVE  o \in f .. m /\ (o = m \/ m # 0) /\ a \in Nat /\ Payment(w) \in 0 .. a
  <2>1. o \in f .. m /\ k = o - f
    <3>1. o \in 0 .. 255 /\ f \in 0 .. 255 /\ m \in 0 .. 255 /\ (o - f) % 256 <= (m - f) % 256
      BY <1>1, <1>2
    <3>2. o \in f .. m /\ (o - f) % 256 = o - f
      BY <1>11, <3>1, NoWrap, Zenon
    <3> QED BY <1>6, <3>2, Zenon
  <2>2. CASE m = 0
    <3>1. o = m /\ k = 0
      BY <1>2, <1>11, <2>1, <2>2
    <3> QED BY <1>2, <1>3, <1>4, <2>1, <3>1
  <2>3. CASE m # 0
    <3>1. m \in Nat \ {0} /\ k \in 0 .. m
      BY <1>2, <2>1, <2>3
    <3>2. q \in Nat /\ k * q \in Int /\ 0 <= t - k * q /\ (k < m => q <= t - k * q)
      BY <1>2, <3>1, SharesFit
    <3> HIDE DEF q
    <3>3. a = t - k * q
      <4>1. CASE k = 0
        <5>1. k * q = 0
          BY <3>2, <4>1
        <5> QED BY <1>2, <1>3, <4>1, <5>1
      <4>2. CASE k # 0
        BY <1>2, <1>3, <4>2
      <4> QED BY <4>1, <4>2
    <3>4. a \in Nat /\ (k < m => q <= a)
      BY <1>2, <3>2, <3>3
    <3>5. CASE o = m
      BY <1>4, <2>1, <3>4, <3>5
    <3>6. CASE o # m
      <4>1. k < m
        BY <1>2, <2>1, <3>6
      <4> QED BY <1>4, <2>1, <2>3, <3>2, <3>4, <3>6, <4>1
    <3> QED BY <3>5, <3>6
  <2> QED BY <2>2, <2>3
<1>12. OnPlan(w) => o \in f .. m /\ Defined(w) /\ a \in Nat /\ Payment(w) \in 0 .. a
  BY <1>5, <1>7, <1>11
<1> QED BY <1>2, <1>8, <1>9, <1>10, <1>12 DEF o, f, m, a

\* The index by_complete_from_rid has a first element.
LEMMA FirstRequest ==
    ASSUME NEW ws, ws \subseteq Request, KeysDiffer(ws), ws # {}
    PROVE  \E w \in ws : \A v \in ws \ {w} : Earlier(w, v)
<1> DEFINE C == {w.complete : w \in ws}
<1>1. C \subseteq Nat /\ C # {}
  BY DEF Request
<1>2. PICK c \in C : \A y \in C : c <= y
  BY <1>1, NatMin
<1> DEFINE wc == {w \in ws : w.complete = c}
           R == {Rank[w.from] : w \in wc}
<1>3. R \subseteq Nat /\ R # {}
  BY <1>2, ConstantTypes DEF Request
<1>4. PICK r \in R : \A y \in R : r <= y
  BY <1>3, NatMin
<1> DEFINE wr == {w \in wc : Rank[w.from] = r}
           I == {w.id : w \in wr}
<1>5. I \subseteq Nat /\ I # {}
  BY <1>4, ConstantTypes DEF Request
<1>6. PICK i \in I : \A y \in I : i <= y
  BY <1>5, NatMin
<1>7. PICK w \in wr : w.id = i
  BY <1>6
<1>8. ASSUME NEW v \in ws, v # w
      PROVE  Earlier(w, v)
  <2>1. w \in ws /\ w.complete = c /\ Rank[w.from] = r
    BY <1>7
  <2>2. v.complete \in Nat /\ w.complete \in Nat /\ v.id \in Nat /\ w.id \in Nat
        /\ v.from \in Users /\ w.from \in Users
    BY <1>8, <2>1, ConstantTypes DEF Request
  <2>3. c <= v.complete
    BY <1>2, <1>8
  <2>4. CASE v.complete # c
    BY <2>1, <2>2, <2>3, <2>4 DEF Earlier
  <2>5. CASE v.complete = c
    <3>1. v \in wc
      BY <1>8, <2>5
    <3>2. Rank[v.from] \in Nat /\ Rank[w.from] \in Nat
      BY <2>2, ConstantTypes
    <3>3. r <= Rank[v.from]
      BY <1>4, <3>1
    <3>4. CASE Rank[v.from] # r
      BY <2>1, <2>5, <3>2, <3>3, <3>4 DEF Earlier
    <3>5. CASE Rank[v.from] = r
      <4>1. v \in wr
        BY <3>1, <3>5
      <4>2. i <= v.id
        BY <1>6, <4>1
      <4>3. v.from = w.from
        BY <2>1, <2>2, <3>5, ConstantTypes
      <4>4. v.id # w.id
        BY <1>8, <2>1, <4>3 DEF KeysDiffer
      <4> QED BY <1>7, <2>1, <2>2, <2>5, <4>2, <4>3, <4>4 DEF Earlier
    <3> QED BY <3>4, <3>5
  <2> QED BY <2>4, <2>5
<1>9. w \in ws /\ \A v \in ws \ {w} : Earlier(w, v)
  BY <1>7, <1>8
<1> QED BY <1>9

\* begin() points to an element of a nonempty index that none is due before,
\* and to the end of an empty one.
LEMMA BeginPoints ==
    ASSUME NEW ws, ws \subseteq Request, KeysDiffer(ws)
    PROVE  /\ Begin(ws) \in ws \cup {End}
           /\ ws # {} => Begin(ws) \in ws
           /\ ws # {} => \A v \in ws : Begin(ws).complete <= v.complete
<1>1. CASE ws = {}
  BY <1>1 DEF Begin
<1>2. CASE ws # {}
  <2> DEFINE First(x) == \A v \in ws \ {x} : Earlier(x, v)
             b == CHOOSE x \in ws : First(x)
  <2>1. \E w \in ws : First(w)
    BY <1>2, FirstRequest
  <2>2. Begin(ws) = b
    BY <1>2 DEF Begin
  <2> HIDE DEF First
  <2>3. b \in ws /\ First(b)
    BY <2>1
  <2> HIDE DEF b
  <2>4. ASSUME NEW v \in ws
        PROVE  b.complete <= v.complete
    <3>1. b.complete \in Nat /\ v.complete \in Nat
      BY <2>3 DEF Request
    <3>2. v = b \/ Earlier(b, v)
      BY <2>3 DEF First
    <3>3. v = b \/ b.complete < v.complete \/ b.complete = v.complete
      BY <3>2 DEF Earlier
    <3> QED BY <3>1, <3>3
  <2> QED BY <2>2, <2>3, <2>4
<1> QED BY <1>1, <1>2

-----------------------------------------------------------------------------
(* The induction.                                                          *)

\* A step that touches neither the requests nor the iterator.
LEMMA RequestsStay ==
    ASSUME Inv, UNCHANGED <<withdraws, itr, phase>>
    PROVE  Inv'
BY DEF Inv, KeysDiffer, OnSchedule, Left, Paid

\* No request is outstanding at genesis.
LEMMA InitInv == Init => Inv
BY DEF Init, Inv, KeysDiffer

\* A new request, with a key that no other one has.
LEMMA TransferSavingsInv ==
    ASSUME Inv, NEW f \in Users, NEW t \in Payee, NEW n \in Amount, NEW i \in RequestId,
           NEW o \in SplitOrder, NEW m \in SplitMonth, NEW c \in 1 .. MaxTime,
           TransferSavings(f, t, n, i, o, m, c)
    PROVE  Inv'
<1> DEFINE w == [from |-> f, to |-> t, id |-> i, amount |-> n, total |-> n,
                 first |-> o, order |-> o, month |-> m, complete |-> c]
<1>1. withdraws' = withdraws \cup {w} /\ itr' = itr /\ phase' = phase
  BY DEF TransferSavings, InBlock, ends
<1>2. \A v \in withdraws : ~(v.from = f /\ v.id = i)
  BY DEF TransferSavings
<1>3. OnSchedule(w)
  <2>1. c \in Nat
    BY ConstantTypes
  <2> QED BY <2>1, NewRequest
<1>4. w.from = f /\ w.id = i
  OBVIOUS
<1> HIDE DEF w
<1>5. \A v \in withdraws' : OnSchedule(v)
  BY <1>1, <1>3 DEF Inv
<1>6. KeysDiffer(withdraws')
  BY <1>1, <1>2, <1>4 DEF Inv, KeysDiffer
<1>7. itr' \in withdraws' \cup {End}
  BY <1>1 DEF Inv
<1> QED BY <1>1, <1>5, <1>6, <1>7 DEF Inv, OnSchedule, Left, Paid, KeysDiffer

\* A request ends between blocks, when the iterator is at its end.
LEMMA EndRequestInv ==
    ASSUME Inv, NEW w \in withdraws, withdraws' = withdraws \ {w}, phase = "txs",
           UNCHANGED <<itr, phase>>
    PROVE  Inv'
BY DEF Inv, KeysDiffer, OnSchedule, Left, Paid

\* The first request becomes the one the loop looks at.
LEMMA EndTransactionsInv ==
    ASSUME Inv, NEW when, NEW a, EndTransactions(when, a)
    PROVE  Inv'
<1>1. withdraws' = withdraws /\ itr' = Begin(withdraws) /\ phase' = "savings"
  BY DEF EndTransactions
<1>2. withdraws \subseteq Request /\ KeysDiffer(withdraws)
  BY DEF Inv, OnSchedule
<1>3. itr' \in withdraws \cup {End}
  BY <1>1, <1>2, BeginPoints
<1> QED BY <1>1, <1>3 DEF Inv, KeysDiffer, OnSchedule, Left, Paid

\* A payment: the request goes, or its next instalment takes its place under
\* the same key; the iterator is one of the others.
LEMMA PaySavingsInv ==
    ASSUME Inv, PaySavings
    PROVE  Inv'
<1> DEFINE others == withdraws \ {itr}
<1>1. itr \in withdraws /\ OnSchedule(itr)
  BY DEF Inv, PaySavings, Due
<1>2. CASE Defined(itr) /\ savings[itr.to] >= Payment(itr)
  <2>1. itr' = Begin(others) /\ phase' = "savings"
    BY <1>2 DEF PaySavings
  <2>2. others \subseteq Request /\ KeysDiffer(others)
    BY DEF Inv, OnSchedule, KeysDiffer
  <2>3. itr' \in others \cup {End}
    BY <2>1, <2>2, BeginPoints
  <2>4. CASE itr.order = itr.month
    <3>1. withdraws' = others
      BY <1>2, <2>4 DEF PaySavings
    <3> QED BY <2>1, <2>2, <2>3, <3>1 DEF Inv, OnSchedule, Left, Paid, KeysDiffer
  <2>5. CASE itr.order # itr.month
    <3> DEFINE w == NextPayment(itr)
    <3>1. withdraws' = others \cup {w}
      BY <1>2, <2>5 DEF PaySavings
    <3>2. OnSchedule(w)
      BY <1>1, <1>2, <2>5, NextOnSchedule DEF Defined
    <3>3. w.from = itr.from /\ w.id = itr.id
      BY DEF NextPayment
    <3> HIDE DEF w
    <3>4. \A v \in withdraws' : OnSchedule(v)
      BY <3>1, <3>2 DEF Inv
    <3>5. KeysDiffer(withdraws')
      BY <1>1, <3>1, <3>3 DEF Inv, KeysDiffer
    <3>6. itr' \in withdraws' \cup {End}
      BY <2>3, <3>1
    <3> QED BY <2>1, <3>4, <3>5, <3>6 DEF Inv, OnSchedule, Left, Paid, KeysDiffer
  <2> QED BY <2>4, <2>5
<1>3. CASE ~(Defined(itr) /\ savings[itr.to] >= Payment(itr))
  <2>1. UNCHANGED <<withdraws, itr>> /\ phase' = "stopped"
    BY <1>3 DEF PaySavings
  <2> QED BY <2>1 DEF Inv, KeysDiffer, OnSchedule, Left, Paid
<1> QED BY <1>2, <1>3

\* Every operation and every step at the end of a block keeps the invariant.
LEMMA NextInv ==
    ASSUME Inv, [Next]_vars
    PROVE  Inv'
<1>1. ASSUME NEW f \in Users, NEW t \in Account, NEW n \in Amount, Transfer(f, t, n)
      PROVE  Inv'
  BY <1>1, RequestsStay DEF Transfer, InBlock, ends
<1>2. ASSUME NEW a \in Account, NEW n \in Amount, PrintMoney(a, n) \/ Burn(a, n)
      PROVE  Inv'
  BY <1>2, RequestsStay DEF PrintMoney, Burn, InBlock, ends
<1>3. ASSUME NEW a \in Users, NEW b \in BOOLEAN, SetBlacklist(a, b)
      PROVE  Inv'
  BY <1>3, RequestsStay DEF SetBlacklist, InBlock, ends
<1>4. ASSUME NEW a \in Users, PayFee(a)
      PROVE  Inv'
  BY <1>4, RequestsStay DEF PayFee, InBlock, ends
<1>5. ASSUME NEW f \in Users, NEW t \in Payee, NEW n \in Amount, NEW i \in RequestId,
             NEW o \in SplitOrder, NEW m \in SplitMonth, NEW c \in 1 .. MaxTime,
             TransferSavings(f, t, n, i, o, m, c)
      PROVE  Inv'
  BY <1>5, TransferSavingsInv
<1>6. ASSUME NEW w \in withdraws, CancelTransferSavings(w) \/ ConclusionTransferSavings(w)
      PROVE  Inv'
  <2>1. withdraws' = withdraws \ {w} /\ phase = "txs" /\ UNCHANGED <<itr, phase>>
    BY <1>6 DEF CancelTransferSavings, ConclusionTransferSavings, InBlock, ends
  <2> QED BY <2>1, EndRequestInv
<1>7. ASSUME NEW f \in Users, NEW n \in Amount, NEW i \in RequestId, NEW m \in StakeMonth,
             StakingFund(f, n, i, m)
      PROVE  Inv'
  BY <1>7, RequestsStay DEF StakingFund, InBlock, ends
<1>8. ASSUME NEW i \in DOMAIN stakes, ConclusionStaking(i)
      PROVE  Inv'
  BY <1>8, RequestsStay DEF ConclusionStaking, PayStake, InBlock, ends
<1>9. ASSUME NEW f \in Users, NEW n \in Amount, TransferFund(f, n)
      PROVE  Inv'
  BY <1>9, RequestsStay DEF TransferFund, InBlock, ends
<1>10. ASSUME NEW m \in StakeMonth, NEW p \in Percent, SetFundInterest(m, p)
       PROVE  Inv'
  BY <1>10, RequestsStay DEF SetFundInterest, InBlock, ends
<1>11. ASSUME NEW when \in 1 .. MaxTime, NEW a \in Users, EndTransactions(when, a)
       PROVE  Inv'
  BY <1>11, EndTransactionsInv
<1>12. CASE PaySavings
  BY <1>12, PaySavingsInv
<1>13. CASE SavingsPaid \/ EndBlock
  <2>1. withdraws' = withdraws /\ itr' = End
    BY <1>13 DEF SavingsPaid, EndBlock, Inv
  <2> QED BY <2>1 DEF Inv, KeysDiffer, OnSchedule, Left, Paid
<1>14. CASE PayStakes
  BY <1>14, RequestsStay DEF PayStakes, PayStake, ends
<1>15. CASE UNCHANGED vars
  BY <1>15, RequestsStay DEF vars, ends
<1> QED
  BY <1>1, <1>2, <1>3, <1>4, <1>5, <1>6, <1>7, <1>8, <1>9, <1>10, <1>11, <1>12, <1>13,
     <1>14, <1>15 DEF Next

\* The invariant holds in every state of the ledger.
LEMMA Invariance == Spec => []Inv
BY InitInv, NextInv, PTL DEF Spec

\* Split payments add up: for every amount, order, number of months and cycle, in
\* whatever order requests are made, cancelled, concluded and paid at the end
\* of blocks (process_savings_withdraws()), what is left of a request is its
\* total without the payments made, its order never passes its month, and what
\* is left covers the next payment if the order it was made with did not exceed
\* the month.
THEOREM PaymentsAddUp == Spec => []InstalmentsAddUp
<1>1. Inv => InstalmentsAddUp
  <2> SUFFICES ASSUME Inv, NEW w \in withdraws
               PROVE  /\ Paid(w) <= (w.month - w.first) % 256
                      /\ Left(w)
                      /\ OnPlan(w) => w.order \in w.first .. w.month /\ Defined(w)
                                      /\ Payment(w) \in 0 .. w.amount
    BY DEF InstalmentsAddUp, Left
  <2>1. OnSchedule(w)
    BY DEF Inv
  <2> QED BY <2>1, ScheduleFacts DEF OnSchedule
<1> QED BY <1>1, Invariance, PTL

-----------------------------------------------------------------------------
(* The sums of the ledger.                                                 *)

\* The total of what accounts hold.
LEMMA SumOverIs ==
    ASSUME NEW f, Valued(f, Account)
    PROVE  SumOver(f) = Total(f, Account)
<1> DEFINE ch == AnyOf(Account)
           Raw(g) == g = [s \in SUBSET Account |->
                            IF s = {} THEN 0
                            ELSE f[CHOOSE x \in s : TRUE] + g[s \ {CHOOSE x \in s : TRUE}]]
           g == CHOOSE g : Raw(g)
<1>1. SumOver(f) = g[Account]
  BY DEF SumOver, MapThenSumSet, MapThenFoldSet
<1>2. \A h : Raw(h) <=> PickSum(h, f, Account, ch)
  BY DEF PickSum, AnyOf
<1>3. Picks(ch, Account)
  BY ChoicesPick
<1> HIDE DEF ch, Raw
<1>4. /\ \E h : PickSum(h, f, Account, ch)
      /\ \A h : PickSum(h, f, Account, ch) => h[Account] = Total(f, Account)
  BY <1>3, TotalByPicks
<1>5. Raw(g)
  BY <1>2, <1>4
<1> HIDE DEF g
<1> QED BY <1>1, <1>2, <1>4, <1>5

Amounts(ws) == [w \in ws |-> w.amount]

\* The total of what requests are due.
LEMMA SumOfIs ==
    ASSUME NEW ws, Valued(Amounts(ws), ws)
    PROVE  SumOf(ws) = Total(Amounts(ws), ws)
<1> DEFINE ch == AnyOf(ws)
           f == Amounts(ws)
           Raw(g) == g = [s \in SUBSET ws |->
                            IF s = {} THEN 0
                            ELSE (CHOOSE x \in s : TRUE).amount + g[s \ {CHOOSE x \in s : TRUE}]]
           g == CHOOSE g : Raw(g)
<1>1. SumOf(ws) = g[ws]
  BY DEF SumOf, MapThenSumSet, MapThenFoldSet
<1>2. \A h : Raw(h) <=> PickSum(h, f, ws, ch)
  <2> SUFFICES ASSUME NEW h PROVE Raw(h) <=> PickSum(h, f, ws, ch)
    OBVIOUS
  <2> DEFINE A == [s \in SUBSET ws |->
                     IF s = {} THEN 0
                     ELSE (CHOOSE x \in s : TRUE).amount + h[s \ {CHOOSE x \in s : TRUE}]]
             B == [s \in SUBSET ws |-> IF s = {} THEN 0 ELSE f[ch[s]] + h[s \ {ch[s]}]]
  <2>1. \A s \in SUBSET ws : s # {} => ch[s] = (CHOOSE x \in s : TRUE) /\ ch[s] \in ws
    BY DEF AnyOf
  <2>2. \A s \in SUBSET ws : s # {} => f[ch[s]] = (CHOOSE x \in s : TRUE).amount
    BY <2>1 DEF Amounts
  <2>3. \A s \in SUBSET ws : A[s] = B[s]
    BY <2>1, <2>2
  <2>4. A = [s \in SUBSET ws |-> A[s]] /\ B = [s \in SUBSET ws |-> B[s]]
    OBVIOUS
  <2>5. A = B
    <3> HIDE DEF A, B
    <3> QED BY <2>3, <2>4
  <2> QED BY <2>5 DEF PickSum
<1>3. Picks(ch, ws)
  BY ChoicesPick
<1> HIDE DEF ch, Raw, f
<1>4. /\ \E h : PickSum(h, f, ws, ch)
      /\ \A h : PickSum(h, f, ws, ch) => h[ws] = Total(f, ws)
  BY <1>3, TotalByPicks DEF f
<1>5. Raw(g)
  BY <1>2, <1>4
<1> HIDE DEF g
<1> QED BY <1>1, <1>2, <1>4, <1>5 DEF f

\* What a sequence of stakes is due.
StakeAmounts(ss) == [i \in DOMAIN ss |-> ss[i].amount]
StakesTotal(ss) == FoldLeft(LAMBDA n, s : n + s.amount, 0, ss)

LEMMA StakesTotalIs ==
    ASSUME NEW n \in Nat, NEW ss, DOMAIN ss = 1 .. n, Valued(StakeAmounts(ss), 1 .. n)
    PROVE  StakesTotal(ss) = Total(StakeAmounts(ss), 1 .. n)
<1> DEFINE D == 1 .. n
           ch == LastOf(D)
           f == StakeAmounts(ss)
           LastIn(s) == CHOOSE x \in s : \A y \in s : x >= y
           Raw(g) == g = [s \in SUBSET D |->
                            IF s = {} THEN 0 ELSE g[s \ {LastIn(s)}] + ss[LastIn(s)].amount]
           g == CHOOSE g : Raw(g)
<1>1. StakesTotal(ss) = g[D]
  BY DEF StakesTotal, FoldLeft, MapThenFoldSet, Max
<1>2. Picks(ch, D)
  BY ChoicesPick
<1>3. \A h : Raw(h) <=> PickLast(h, f, D, ch)
  <2> SUFFICES ASSUME NEW h PROVE Raw(h) <=> PickLast(h, f, D, ch)
    OBVIOUS
  <2> DEFINE A == [s \in SUBSET D |-> IF s = {} THEN 0 ELSE h[s \ {LastIn(s)}] + ss[LastIn(s)].amount]
             B == [s \in SUBSET D |-> IF s = {} THEN 0 ELSE h[s \ {ch[s]}] + f[ch[s]]]
  <2>1. \A s \in SUBSET D : s # {} => ch[s] = LastIn(s) /\ ch[s] \in D
    BY <1>2 DEF LastOf, Picks
  <2>2. \A s \in SUBSET D : s # {} => f[ch[s]] = ss[LastIn(s)].amount
    BY <2>1 DEF StakeAmounts
  <2> HIDE DEF ch, LastIn
  <2>3. \A s \in SUBSET D : A[s] = B[s]
    BY <2>1, <2>2
  <2>4. A = [s \in SUBSET D |-> A[s]] /\ B = [s \in SUBSET D |-> B[s]]
    OBVIOUS
  <2>5. A = B
    <3> HIDE DEF A, B
    <3> QED BY <2>3, <2>4
  <2> QED BY <2>5 DEF PickLast
<1> HIDE DEF ch, Raw, f, D
<1>4. /\ \E h : PickLast(h, f, D, ch)
      /\ \A h : PickLast(h, f, D, ch) => h[D] = Total(f, D)
  BY <1>2, TotalByLast DEF f, D
<1>5. Raw(g)
  BY <1>3, <1>4
<1> HIDE DEF g
<1> QED BY <1>1, <1>3, <1>4, <1>5 DEF f, D

LEMMA AddFacts ==
    ASSUME NEW f \in [Account -> Int], NEW a \in Account, NEW n \in Int
    PROVE  /\ Add(f, a, n) \in [Account -> Int]
           /\ Add(f, a, n)[a] = f[a] + n
           /\ \A x \in Account : x # a => Add(f, a, n)[x] = f[x]
           /\ SumOver(Add(f, a, n)) = SumOver(f) + n
           /\ SumOver(f) \in Int
<1> DEFINE k == Add(f, a, n)
<1>1. f[a] \in Int /\ f[a] + n \in Int
  OBVIOUS
<1>2. k \in [Account -> Int] /\ \A x \in Account : k[x] = IF x = a THEN f[a] + n ELSE f[x]
  BY <1>1 DEF Add
<1>3. Valued(f, Account)
  BY LedgerAssumption DEF Valued
<1> HIDE DEF k
<1>4. Total(k, Account) = Total(f, Account) + n /\ Valued(k, Account)
  BY <1>2, <1>3, TotalChange
<1>5. SumOver(f) = Total(f, Account) /\ SumOver(k) = Total(k, Account)
  BY <1>3, <1>4, SumOverIs
<1>6. Total(f, Account) \in Int
  BY <1>3, TotalType
<1>7. \A x \in Account : x # a => k[x] = f[x]
  BY <1>2
<1> QED BY <1>2, <1>4, <1>5, <1>6, <1>7 DEF k

\* What is due to an account.
DueTo(ws, a) == {w \in ws : w.to = a}
Owed(ws, a) == SumOf(DueTo(ws, a))

\* Finitely many requests, of which a number is left.
Requests(ws) == IsFiniteSet(ws) /\ \A w \in ws : w.amount \in Int

LEMMA OwedIs ==
    ASSUME NEW ws, Requests(ws)
    PROVE  /\ Valued(Amounts(ws), ws)
           /\ SumOf(ws) = Total(Amounts(ws), ws)
           /\ SumOf(ws) \in Int
<1> DEFINE f == Amounts(ws)
<1>1. \A w \in ws : f[w] \in Int
  BY DEF Amounts, Requests
<1>2. Valued(f, ws)
  BY <1>1 DEF Requests, Valued
<1>3. SumOf(ws) = Total(f, ws)
  BY <1>2, SumOfIs
<1> HIDE DEF f
<1>4. Total(f, ws) \in Int
  BY <1>2, TotalType
<1> QED BY <1>2, <1>3, <1>4 DEF f

LEMMA SumOfMore ==
    ASSUME NEW ws, Requests(ws), NEW w, w \notin ws, w.amount \in Int
    PROVE  SumOf(ws \cup {w}) = SumOf(ws) + w.amount
<1> DEFINE vs == ws \cup {w}
           f == Amounts(ws)
           k == Amounts(vs)
<1>1. Requests(vs)
  BY FS_AddElement DEF Requests
<1>2. Valued(f, ws) /\ SumOf(ws) = Total(f, ws)
  BY OwedIs
<1>3. SumOf(vs) = Total(k, vs)
  <2> HIDE DEF vs
  <2> QED BY <1>1, OwedIs
<1>4. k[w] = w.amount /\ \A x \in ws : k[x] = f[x]
  BY DEF Amounts
<1> HIDE DEF f, k
<1>5. Total(k, ws \cup {w}) = Total(f, ws) + k[w]
  BY <1>2, <1>4, TotalMore
<1> QED BY <1>2, <1>3, <1>4, <1>5

LEMMA DueToFacts ==
    ASSUME NEW ws, Requests(ws), NEW a
    PROVE  Requests(DueTo(ws, a)) /\ Owed(ws, a) \in Int
<1>1. Requests(DueTo(ws, a))
  BY FS_Subset DEF Requests, DueTo
<1>2. SumOf(DueTo(ws, a)) \in Int
  BY <1>1, OwedIs
<1> QED BY <1>1, <1>2 DEF Owed

\* A request comes.
LEMMA OwedMore ==
    ASSUME NEW ws, Requests(ws), NEW w, w \notin ws, w.amount \in Int, NEW a
    PROVE  /\ Requests(ws \cup {w})
           /\ w.to = a => Owed(ws \cup {w}, a) = Owed(ws, a) + w.amount
           /\ w.to # a => Owed(ws \cup {w}, a) = Owed(ws, a)
<1>1. Requests(ws \cup {w})
  BY FS_AddElement DEF Requests
<1>2. w.to = a => DueTo(ws \cup {w}, a) = DueTo(ws, a) \cup {w}
  BY DEF DueTo
<1>3. w.to # a => DueTo(ws \cup {w}, a) = DueTo(ws, a)
  BY DEF DueTo
<1>4. Requests(DueTo(ws, a)) /\ w \notin DueTo(ws, a)
  BY DueToFacts DEF DueTo
<1>5. SumOf(DueTo(ws, a) \cup {w}) = SumOf(DueTo(ws, a)) + w.amount
  BY <1>4, SumOfMore
<1> QED BY <1>1, <1>2, <1>3, <1>5 DEF Owed

\* A request goes.
LEMMA OwedLess ==
    ASSUME NEW ws, Requests(ws), NEW w \in ws, NEW a
    PROVE  /\ Requests(ws \ {w})
           /\ w.to = a => Owed(ws, a) = Owed(ws \ {w}, a) + w.amount
           /\ w.to # a => Owed(ws \ {w}, a) = Owed(ws, a)
<1> DEFINE vs == ws \ {w}
<1>1. Requests(vs)
  BY FS_RemoveElement DEF Requests
<1>2. vs \cup {w} = ws /\ w \notin vs /\ w.amount \in Int
  BY DEF Requests
<1> HIDE DEF vs
<1>3. /\ w.to = a => Owed(vs \cup {w}, a) = Owed(vs, a) + w.amount
      /\ w.to # a => Owed(vs \cup {w}, a) = Owed(vs, a)
  BY <1>1, <1>2, OwedMore
<1> QED BY <1>1, <1>2, <1>3 DEF vs

\* An account is not owed less than one of the requests says, if none of them
\* says that a negative amount is left.
LEMMA OwedCovers ==
    ASSUME NEW ws, Requests(ws), NEW w \in ws,
           \A v \in ws : v.to = w.to => v.amount \in Nat
    PROVE  w.amount <= Owed(ws, w.to)
<1> DEFINE D == DueTo(ws, w.to)
           f == Amounts(D)
<1>1. w \in D /\ Requests(D) /\ \A v \in D : v.amount \in Nat
  BY DueToFacts DEF DueTo
<1> HIDE DEF D
<1>2. \A v \in D : f[v] = v.amount /\ f[v] \in Nat
  BY <1>1 DEF Amounts
<1>3. SumOf(D) = Total(f, D) /\ IsFiniteSet(D)
  BY <1>1, OwedIs DEF Requests
<1> HIDE DEF f
<1>4. \A v \in D : f[v] <= Total(f, D)
  BY <1>2, <1>3, TotalNat
<1>5. f[w] <= Total(f, D) /\ f[w] = w.amount
  BY <1>1, <1>2, <1>4
<1> QED BY <1>3, <1>5 DEF Owed, D

\* A stake comes, or goes.
LEMMA StakeComes ==
    ASSUME NEW ss \in Seq(Stake), NEW s \in Stake
    PROVE  /\ Append(ss, s) \in Seq(Stake)
           /\ StakesTotal(Append(ss, s)) = StakesTotal(ss) + s.amount
           /\ StakesTotal(ss) \in Nat
<1> DEFINE n == Len(ss)
           f == StakeAmounts(ss)
           ts == Append(ss, s)
           k == StakeAmounts(ts)
<1>1. n \in Nat /\ DOMAIN ss = 1 .. n /\ IsFiniteSet(1 .. n)
  BY UpTo
<1>2. ts \in Seq(Stake) /\ DOMAIN ts = 1 .. n + 1 /\ n + 1 \in Nat /\ ts[n + 1] = s
      /\ \A i \in 1 .. n : ts[i] = ss[i]
  OBVIOUS
<1>3. \A i \in 1 .. n : f[i] = ss[i].amount /\ f[i] \in Nat
  <2>1. \A i \in 1 .. n : ss[i] \in Stake
    OBVIOUS
  <2> QED BY <1>1, <2>1 DEF StakeAmounts, Stake
<1>4. \A i \in 1 .. n + 1 : k[i] = ts[i].amount
  BY <1>2 DEF StakeAmounts
<1>5. s.amount \in Nat
  BY DEF Stake
<1> HIDE DEF n, f, k, ts
<1>6. Valued(f, 1 .. n) /\ Total(f, 1 .. n) \in Nat
  BY <1>1, <1>3, TotalNat
<1>7. n + 1 \notin 1 .. n /\ (1 .. n) \cup {n + 1} = 1 .. n + 1 /\ n + 1 \in 1 .. n + 1
      /\ \A i \in 1 .. n : i \in 1 .. n + 1
  BY <1>1
<1>8. k[n + 1] = s.amount /\ \A i \in 1 .. n : k[i] = f[i]
  BY <1>2, <1>3, <1>4, <1>7
<1>9. Total(k, (1 .. n) \cup {n + 1}) = Total(f, 1 .. n) + k[n + 1] /\ Valued(k, (1 .. n) \cup {n + 1})
  <2> DEFINE D == 1 .. n
             m == n + 1
  <2>1. Valued(f, D) /\ m \notin D /\ k[m] \in Int /\ \A x \in D : k[x] = f[x]
    BY <1>5, <1>6, <1>7, <1>8
  <2> HIDE DEF D, m
  <2>2. Total(k, D \cup {m}) = Total(f, D) + k[m] /\ Valued(k, D \cup {m})
    BY <2>1, TotalMore
  <2> QED BY <2>2 DEF D, m
<1>10. StakesTotal(ss) = Total(f, 1 .. n)
  BY <1>1, <1>6, StakesTotalIs DEF f
<1>11. StakesTotal(ts) = Total(k, 1 .. n + 1)
  BY <1>2, <1>7, <1>9, StakesTotalIs DEF k
<1> QED BY <1>2, <1>6, <1>7, <1>8, <1>9, <1>10, <1>11 DEF ts

LEMMA StakeGoes ==
    ASSUME NEW ss \in Seq(Stake), NEW i \in DOMAIN ss
    PROVE  /\ RemoveAt(ss, i) \in Seq(Stake)
           /\ StakesTotal(ss) = ss[i].amount + StakesTotal(RemoveAt(ss, i))
           /\ StakesTotal(RemoveAt(ss, i)) \in Nat
<1> DEFINE n == Len(ss)
           f == StakeAmounts(ss)
           ts == RemoveAt(ss, i)
           k == StakeAmounts(ts)
<1>1. n \in Nat /\ DOMAIN ss = 1 .. n /\ IsFiniteSet(1 .. n) /\ i \in 1 .. n /\ n - 1 \in Nat
  BY UpTo
<1>2. ts \in Seq(Stake) /\ Len(ts) = n - 1
      /\ \A j \in 1 .. n - 1 : ts[j] = ss[IF j < i THEN j ELSE j + 1]
  BY <1>1, RemovedSeq DEF RemoveAt
<1>3. DOMAIN ts = 1 .. n - 1
  <2> HIDE DEF ts
  <2> QED BY <1>2
<1>4. \A j \in 1 .. n : f[j] = ss[j].amount /\ f[j] \in Nat
  <2>1. \A j \in 1 .. n : ss[j] \in Stake
    OBVIOUS
  <2> QED BY <1>1, <2>1 DEF StakeAmounts, Stake
<1>5. \A j \in 1 .. n - 1 : k[j] = ts[j].amount
  BY <1>3 DEF StakeAmounts
<1> HIDE DEF n, f, k, ts
<1>6. Valued(f, 1 .. n)
  BY <1>1, <1>4, TotalNat
<1>7. \A j \in 1 .. n - 1 : (IF j < i THEN j ELSE j + 1) \in 1 .. n
  BY <1>1
<1>8. \A j \in 1 .. n - 1 : k[j] = f[IF j < i THEN j ELSE j + 1]
  BY <1>2, <1>4, <1>5, <1>7
<1>9. Total(f, 1 .. n) = f[i] + Total(k, 1 .. n - 1) /\ Valued(k, 1 .. n - 1)
  BY <1>1, <1>6, <1>8, TotalRemoved
<1>10. StakesTotal(ss) = Total(f, 1 .. n)
  BY <1>1, <1>6, StakesTotalIs DEF f
<1>11. StakesTotal(ts) = Total(k, 1 .. n - 1)
  BY <1>1, <1>3, <1>9, StakesTotalIs DEF k
<1>12. Total(k, 1 .. n - 1) \in Nat
  <2>1. \A j \in 1 .. n - 1 : k[j] \in Nat
    BY <1>4, <1>7, <1>8
  <2>2. IsFiniteSet(1 .. n - 1)
    BY <1>1, UpTo
  <2> QED BY <2>1, <2>2, TotalNat
<1> QED BY <1>1, <1>2, <1>4, <1>9, <1>10, <1>11, <1>12 DEF ts

LEMMA StakesSum ==
    ASSUME NEW ss \in Seq(Stake)
    PROVE  StakesTotal(ss) \in Nat
<1> DEFINE n == Len(ss)
           f == StakeAmounts(ss)
<1>1. n \in Nat /\ DOMAIN ss = 1 .. n /\ IsFiniteSet(1 .. n)
  BY UpTo
<1>2. \A i \in 1 .. n : f[i] \in Nat
  <2>1. \A i \in 1 .. n : ss[i] \in Stake
    OBVIOUS
  <2> QED BY <1>1, <2>1 DEF StakeAmounts, Stake
<1> HIDE DEF n, f
<1>3. Valued(f, 1 .. n) /\ Total(f, 1 .. n) \in Nat
  BY <1>1, <1>2, TotalNat
<1>4. StakesTotal(ss) = Total(f, 1 .. n)
  BY <1>1, <1>3, StakesTotalIs DEF f
<1> QED BY <1>3, <1>4

-----------------------------------------------------------------------------
(* The money.                                                              *)

\* The types, and what the sums say.
MoneyTypes ==
    /\ balance \in [Account -> Int] /\ savings \in [Account -> Nat]
    /\ fundBalance \in Nat /\ rewardFund \in Nat /\ supply \in Int
    /\ interest \in [StakeMonth -> Percent \cup {NotOffered}]
    /\ stakes \in Seq(Stake) /\ time \in Nat /\ banned \subseteq Users
    /\ phase \in {"txs", "savings", "staking", "stopped"}
    /\ IsFiniteSet(withdraws)

Conserved == supply = SumOver(balance) + SumOver(savings) + fundBalance + rewardFund
Rewarded == phase \in {"savings", "staking"} => rewardFund = 0
Promised == fundReady = StakesTotal(stakes)
Covered == \A a \in Users : savings[a] = Owed(withdraws, a)

\* While the loop of process_savings_withdraws() runs, no request that has had
\* no payment yet is due before the one that is looked at; what it did not pay
\* when it ended is an instalment.
Looping ==
    /\ phase = "savings" =>
          \A w \in withdraws : Paid(w) = 0 => itr # End /\ itr.complete <= w.complete
    /\ phase = "staking" => \A w \in withdraws : w.complete <= time => Paid(w) > 0
    /\ phase = "stopped" => itr.to = Null \/ \E w \in withdraws : w.to = itr.to /\ ~OnPlan(w)

MoneyInv == MoneyTypes /\ Conserved /\ Rewarded /\ Promised /\ Covered /\ Looping

LEMMA WithdrawsFacts ==
    ASSUME Inv, MoneyTypes
    PROVE  Requests(withdraws) /\ \A w \in withdraws : OnSchedule(w)
<1>1. \A w \in withdraws : OnSchedule(w)
  BY DEF Inv
<1>2. \A w \in withdraws : w.amount \in Int
  BY <1>1, ScheduleFacts
<1> QED BY <1>1, <1>2 DEF Requests, MoneyTypes

LEMMA InitMoney == Init => MoneyInv
<1> SUFFICES ASSUME Init PROVE MoneyInv
  OBVIOUS
<1> DEFINE none == [x \in Account |-> 0]
<1>1. PICK a \in Users : balance = [x \in Account |-> IF x = a THEN InitSupply ELSE 0]
  BY DEF Init
<1>2. a \in Account /\ InitSupply \in Nat
  BY LedgerAssumption DEF Users
<1>3. savings = none /\ none \in [Account -> Int] /\ none \in [Account -> Nat] /\ banned = {}
  BY DEF Init
<1>4. balance \in [Account -> Int]
  BY <1>1, <1>2
<1>5. MoneyTypes
  <2>1. << >> \in Seq(Stake) /\ {} \subseteq Users
    OBVIOUS
  <2> QED BY <1>3, <1>4, <1>2, <2>1, FS_EmptySet DEF Init, MoneyTypes
<1>6. SumOver(none) = 0
  <2> DEFINE S == Account
  <2>1. IsFiniteSet(S) /\ \A x \in S : none[x] = 0 /\ none[x] \in Int
    BY LedgerAssumption
  <2>2. Valued(none, S)
    BY <2>1 DEF Valued
  <2>3. SumOver(none) = Total(none, S)
    BY <2>2, SumOverIs
  <2> HIDE DEF none, S
  <2>4. Total(none, S) = 0
    BY <2>1, <2>2, TotalZero
  <2> QED BY <2>3, <2>4
<1>7. balance = Add(none, a, InitSupply)
  BY <1>1, <1>2 DEF Add
<1>8. SumOver(balance) = SumOver(none) + InitSupply
  <2> HIDE DEF none
  <2> QED BY <1>2, <1>3, <1>7, AddFacts
<1>9. Conserved
  BY <1>2, <1>3, <1>6, <1>8 DEF Conserved, Init
<1>10. Promised
  <2>1. stakes = << >> /\ fundReady = 0 /\ DOMAIN stakes = 1 .. 0 /\ 1 .. 0 = {}
    BY DEF Init
  <2>2. Valued(StakeAmounts(stakes), 1 .. 0)
    BY <2>1, FS_EmptySet DEF Valued
  <2>3. StakesTotal(stakes) = Total(StakeAmounts(stakes), 1 .. 0)
    BY <2>1, <2>2, StakesTotalIs
  <2> QED BY <2>1, <2>3, TotalNone DEF Promised
<1>11. Covered
  <2>1. withdraws = {}
    BY DEF Init
  <2>2. \A x : DueTo({}, x) = {}
    BY DEF DueTo
  <2>3. Requests({})
    BY FS_EmptySet DEF Requests
  <2>4. SumOf({}) = Total(Amounts({}), {})
    BY <2>3, OwedIs
  <2>5. \A x : Owed(withdraws, x) = 0
    BY <2>1, <2>2, <2>4, TotalNone DEF Owed
  <2>6. \A x \in Users : savings[x] = 0
    BY <1>3 DEF Users
  <2> QED BY <2>5, <2>6 DEF Covered
<1>12. Rewarded /\ Looping
  BY DEF Init, Rewarded, Looping
<1> QED BY <1>5, <1>9, <1>10, <1>11, <1>12 DEF MoneyInv

\* What the parts change by is what the supply changes by.
LEMMA ConservedStep ==
    ASSUME MoneyTypes, Conserved, NEW d \in Int, NEW e \in Int, NEW x \in Int, NEW y \in Int,
           SumOver(balance') = SumOver(balance) + d, SumOver(savings') = SumOver(savings) + e,
           fundBalance' = fundBalance + x, rewardFund' = rewardFund + y,
           supply' = supply + (d + e + x + y)
    PROVE  Conserved'
<1> DEFINE B == SumOver(balance)
           S == SumOver(savings)
           f == fundBalance
           r == rewardFund
           q == supply
<1>1. f \in Int /\ r \in Int /\ q \in Int /\ balance \in [Account -> Int] /\ savings \in [Account -> Int]
  BY DEF MoneyTypes
<1>2. B \in Int /\ S \in Int
  <2>1. Null \in Account /\ 0 \in Int
    BY LedgerAssumption
  <2>2. B \in Int
    BY <1>1, <2>1, AddFacts
  <2>3. S \in Int
    BY <1>1, <2>1, AddFacts
  <2> QED BY <2>2, <2>3
<1>3. q = B + S + f + r
  BY DEF Conserved
<1> HIDE DEF B, S, f, r, q
<1>4. q + (d + e + x + y) = (B + d) + (S + e) + (f + x) + (r + y)
  BY <1>1, <1>2, <1>3
<1>5. supply' = (B + d) + (S + e) + (f + x) + (r + y)
  BY <1>4 DEF q
<1> QED BY <1>5 DEF Conserved, B, S, f, r

\* An operation that leaves the savings alone.
LEMMA OperationStep ==
    ASSUME MoneyInv, InBlock, UNCHANGED <<savings, withdraws>>, MoneyTypes', Conserved', Promised'
    PROVE  MoneyInv'
<1>1. phase = "txs" /\ phase' = "txs"
  BY DEF InBlock, ends
<1>2. Rewarded' /\ Looping'
  BY <1>1 DEF Rewarded, Looping
<1>3. Covered'
  BY DEF MoneyInv, Covered
<1> QED BY <1>2, <1>3 DEF MoneyInv

LEMMA AmountFacts ==
    /\ \A n \in Amount : n \in Nat /\ n \in Int /\ -n \in Int /\ n + (-n) = 0 /\ (-n) + n = 0
    /\ Users \subseteq Account /\ Payee \subseteq Account /\ Null \in Account
    /\ Fee \in Nat /\ \A m \in StakeMonth : m \in Nat
    /\ Cycle \in Nat /\ \A p \in Percent : p \in Nat
    /\ \A w \in 1 .. MaxTime : w \in Nat
<1>1. /\ Null \in Account /\ Payee \subseteq Account /\ Amount \subseteq Nat \ {0}
      /\ Percent \subseteq Nat /\ StakeMonth \subseteq 1 .. 12 /\ Cycle \in Nat /\ Fee \in Nat
      /\ MaxTime \in Nat
  BY LedgerAssumption
<1>2. Users \subseteq Account
  BY DEF Users
<1>3. \A n \in Nat : n \in Int /\ -n \in Int /\ n + (-n) = 0 /\ (-n) + n = 0
  OBVIOUS
<1>4. \A n \in Amount : n \in Nat
  BY <1>1
<1>5. \A m \in StakeMonth : m \in Nat
  BY <1>1
<1>6. \A w \in 1 .. MaxTime : w \in Nat
  BY <1>1
<1> QED BY <1>1, <1>2, <1>3, <1>4, <1>5, <1>6

\* An operation that moves money between balances, the funds and the outside.
LEMMA BalanceOperation ==
    ASSUME MoneyInv, InBlock, UNCHANGED <<savings, fundReady, banned, interest, withdraws, stakes>>,
           NEW d \in Int, NEW x \in Int, NEW y \in Int,
           balance' \in [Account -> Int], SumOver(balance') = SumOver(balance) + d,
           fundBalance' = fundBalance + x, fundBalance + x \in Nat,
           rewardFund' = rewardFund + y, rewardFund + y \in Nat,
           supply' = supply + (d + x + y)
    PROVE  MoneyInv'
<1>1. MoneyTypes /\ Conserved /\ Promised
  BY DEF MoneyInv
<1>2. SumOver(savings') = SumOver(savings) + 0
  <2>1. savings \in [Account -> Int] /\ Null \in Account /\ 0 \in Int
    BY <1>1, AmountFacts DEF MoneyTypes
  <2>2. SumOver(savings) \in Int
    BY <2>1, AddFacts
  <2> QED BY <2>2
<1>3. d + x + y = d + 0 + x + y /\ d + x + y \in Int
  OBVIOUS
<1>4. Conserved'
  <2>1. supply' = supply + (d + 0 + x + y) /\ 0 \in Int
    BY <1>3
  <2> QED BY <1>1, <1>2, <2>1, ConservedStep
<1>5. MoneyTypes'
  <2>1. supply' \in Int
    BY <1>1, <1>3 DEF MoneyTypes
  <2> QED BY <1>1, <2>1 DEF MoneyTypes, InBlock, ends
<1>6. Promised'
  BY <1>1 DEF Promised
<1> QED BY <1>4, <1>5, <1>6, OperationStep

\* The balance of one account changes.
LEMMA OneBalance ==
    ASSUME MoneyInv, NEW a \in Account, NEW n \in Int, balance' = Add(balance, a, n)
    PROVE  balance' \in [Account -> Int] /\ SumOver(balance') = SumOver(balance) + n
<1>1. balance \in [Account -> Int]
  BY DEF MoneyInv, MoneyTypes
<1> QED BY <1>1, AddFacts

\* The savings of one account change.
LEMMA OneSavings ==
    ASSUME MoneyInv, NEW a \in Account, NEW n \in Int, savings' = Add(savings, a, n)
    PROVE  /\ savings' \in [Account -> Int] /\ savings'[a] = savings[a] + n
           /\ \A x \in Account : x # a => savings'[x] = savings[x]
           /\ SumOver(savings') = SumOver(savings) + n
<1>1. savings \in [Account -> Int]
  BY DEF MoneyInv, MoneyTypes
<1> QED BY <1>1, AddFacts

LEMMA TransferMoney ==
    ASSUME MoneyInv, NEW f \in Users, NEW t \in Account, NEW n \in Amount, Transfer(f, t, n)
    PROVE  MoneyInv'
<1> DEFINE b == Add(balance, f, -n)
<1>1. /\ InBlock /\ balance' = Add(b, t, n)
      /\ UNCHANGED <<savings, fundBalance, fundReady, rewardFund, supply, banned, interest,
                     withdraws, stakes>>
  BY DEF Transfer, rules
<1>2. f \in Account /\ n \in Int /\ -n \in Int /\ (-n) + n = 0 /\ balance \in [Account -> Int]
  BY AmountFacts DEF MoneyInv, MoneyTypes
<1>3. b \in [Account -> Int] /\ SumOver(b) = SumOver(balance) + -n /\ SumOver(balance) \in Int
  BY <1>2, AddFacts
<1> HIDE DEF b
<1>4. balance' \in [Account -> Int] /\ SumOver(balance') = SumOver(b) + n
  BY <1>1, <1>2, <1>3, AddFacts
<1>5. SumOver(balance') = SumOver(balance) + 0
  BY <1>2, <1>3, <1>4
<1>6. fundBalance \in Nat /\ rewardFund \in Nat /\ supply \in Int
  BY DEF MoneyInv, MoneyTypes
<1>7. fundBalance' = fundBalance + 0 /\ fundBalance + 0 \in Nat /\ rewardFund' = rewardFund + 0
      /\ rewardFund + 0 \in Nat /\ supply' = supply + (0 + 0 + 0) /\ 0 \in Int
  BY <1>1, <1>6
<1> QED BY <1>1, <1>4, <1>5, <1>7, BalanceOperation

LEMMA SupplyMoney ==
    ASSUME MoneyInv, NEW a \in Account, NEW n \in Amount, PrintMoney(a, n) \/ Burn(a, n)
    PROVE  MoneyInv'
<1>1. n \in Int /\ -n \in Int
  BY AmountFacts
<1>2. fundBalance \in Nat /\ rewardFund \in Nat /\ supply \in Int
  BY DEF MoneyInv, MoneyTypes
<1>3. /\ InBlock
      /\ UNCHANGED <<savings, fundBalance, fundReady, rewardFund, banned, interest, withdraws, stakes>>
  BY DEF PrintMoney, Burn, rules
<1>4. fundBalance' = fundBalance + 0 /\ fundBalance + 0 \in Nat /\ rewardFund' = rewardFund + 0
      /\ rewardFund + 0 \in Nat /\ 0 \in Int
  BY <1>2, <1>3
<1>5. CASE PrintMoney(a, n)
  <2>1. balance' = Add(balance, a, n) /\ supply' = supply + (n + 0 + 0)
    BY <1>1, <1>5 DEF PrintMoney
  <2>2. balance' \in [Account -> Int] /\ SumOver(balance') = SumOver(balance) + n
    BY <1>1, <2>1, OneBalance
  <2> QED BY <1>1, <1>3, <1>4, <2>1, <2>2, BalanceOperation
<1>6. CASE Burn(a, n)
  <2>1. balance' = Add(balance, a, -n) /\ supply' = supply + (-n + 0 + 0)
    BY <1>1, <1>2, <1>6 DEF Burn
  <2>2. balance' \in [Account -> Int] /\ SumOver(balance') = SumOver(balance) + -n
    BY <1>1, <2>1, OneBalance
  <2> QED BY <1>1, <1>3, <1>4, <2>1, <2>2, BalanceOperation
<1> QED BY <1>5, <1>6

LEMMA PayFeeMoney ==
    ASSUME MoneyInv, NEW a \in Users, PayFee(a)
    PROVE  MoneyInv'
<1>1. Fee \in Int /\ -Fee \in Int /\ Fee \in Nat /\ a \in Account
  BY AmountFacts
<1>2. fundBalance \in Nat /\ rewardFund \in Nat /\ supply \in Int
  BY DEF MoneyInv, MoneyTypes
<1>3. /\ InBlock /\ balance' = Add(balance, a, -Fee) /\ rewardFund' = rewardFund + Fee
      /\ UNCHANGED <<savings, fundBalance, fundReady, supply, banned, interest, withdraws, stakes>>
  BY DEF PayFee, rules
<1>4. balance' \in [Account -> Int] /\ SumOver(balance') = SumOver(balance) + -Fee
  BY <1>1, <1>3, OneBalance
<1>5. fundBalance' = fundBalance + 0 /\ fundBalance + 0 \in Nat /\ rewardFund + Fee \in Nat
      /\ supply' = supply + (-Fee + 0 + Fee) /\ 0 \in Int
  BY <1>1, <1>2, <1>3
<1> QED BY <1>1, <1>3, <1>4, <1>5, BalanceOperation

LEMMA TransferFundMoney ==
    ASSUME MoneyInv, NEW a \in Users, NEW n \in Amount, TransferFund(a, n)
    PROVE  MoneyInv'
<1>1. n \in Int /\ -n \in Int /\ n \in Nat /\ a \in Account
  BY AmountFacts
<1>2. fundBalance \in Nat /\ rewardFund \in Nat /\ supply \in Int
  BY DEF MoneyInv, MoneyTypes
<1>3. /\ InBlock /\ balance' = Add(balance, a, -n) /\ fundBalance' = fundBalance + n
      /\ UNCHANGED <<savings, fundReady, rewardFund, supply, banned, interest, withdraws, stakes>>
  BY DEF TransferFund, rules
<1>4. balance' \in [Account -> Int] /\ SumOver(balance') = SumOver(balance) + -n
  BY <1>1, <1>3, OneBalance
<1>5. rewardFund' = rewardFund + 0 /\ rewardFund + 0 \in Nat /\ fundBalance + n \in Nat
      /\ supply' = supply + (-n + n + 0) /\ 0 \in Int
  BY <1>1, <1>2, <1>3
<1> QED BY <1>1, <1>3, <1>4, <1>5, BalanceOperation

LEMMA RulesMoney ==
    ASSUME MoneyInv, InBlock, UNCHANGED <<money, withdraws, stakes>>,
           banned' \subseteq Users, interest' \in [StakeMonth -> Percent \cup {NotOffered}]
    PROVE  MoneyInv'
<1>1. UNCHANGED <<balance, savings, fundBalance, fundReady, rewardFund, supply>>
  BY DEF money
<1>2. MoneyTypes' /\ Conserved' /\ Promised'
  BY <1>1 DEF MoneyInv, MoneyTypes, Conserved, Promised, InBlock, ends
<1> QED BY <1>1, <1>2, OperationStep

LEMMA StakingFundMoney ==
    ASSUME MoneyInv, NEW f \in Users, NEW n \in Amount, NEW id \in RequestId,
           NEW m \in StakeMonth, StakingFund(f, n, id, m)
    PROVE  MoneyInv'
<1> DEFINE p == interest[m]
           promised == n + (n * p) \div 100
           s == [from |-> f, id |-> id, amount |-> promised, complete |-> time + Cycle * m]
<1>1. /\ InBlock /\ p # NotOffered
      /\ balance' = Add(balance, f, -n)
      /\ fundBalance' = fundBalance + n /\ fundReady' = fundReady + promised
      /\ stakes' = Append(stakes, s)
      /\ UNCHANGED <<savings, rewardFund, supply, banned, interest, withdraws>>
  BY DEF StakingFund, rules
<1>2. /\ n \in Nat /\ n \in Int /\ -n \in Int /\ f \in Account /\ m \in Nat /\ Cycle \in Nat
  BY AmountFacts
<1>3. MoneyTypes /\ Conserved /\ Promised
  BY DEF MoneyInv
<1>4. p \in Nat
  <2>1. p \in Percent
    BY <1>1, <1>3 DEF MoneyTypes
  <2> QED BY <2>1, AmountFacts
<1>5. promised \in Nat
  <2>1. n * p \in Nat
    BY <1>2, <1>4
  <2> DEFINE c == n * p
  <2> HIDE DEF c
  <2>2. c \div 100 \in Nat
    BY <2>1 DEF c
  <2> QED BY <1>2, <2>2 DEF c
<1> HIDE DEF promised, p
<1>6. s \in Stake /\ s.amount = promised
  <2>1. Cycle * m \in Nat
    BY <1>2
  <2>2. time + Cycle * m \in Nat
    <3> DEFINE c == Cycle * m
    <3> HIDE DEF c
    <3>1. time + c \in Nat
      BY <1>3, <2>1 DEF MoneyTypes, c
    <3> QED BY <3>1 DEF c
  <2> QED BY <1>5, <2>2 DEF Stake
<1> HIDE DEF s
<1>7. stakes' \in Seq(Stake) /\ StakesTotal(stakes') = StakesTotal(stakes) + promised
  <2>1. stakes \in Seq(Stake)
    BY <1>3 DEF MoneyTypes
  <2> QED BY <1>1, <1>6, <2>1, StakeComes
<1>8. Promised'
  BY <1>1, <1>3, <1>7 DEF Promised
<1>9. balance' \in [Account -> Int] /\ SumOver(balance') = SumOver(balance) + -n
  BY <1>1, <1>2, OneBalance
<1>10. fundBalance \in Nat /\ rewardFund \in Nat /\ supply \in Int /\ savings \in [Account -> Int]
  BY <1>3 DEF MoneyTypes
<1>11. Conserved'
  <2>1. Null \in Account /\ 0 \in Int
    BY AmountFacts
  <2>2. SumOver(savings) \in Int
    BY <1>10, <2>1, AddFacts
  <2>3. SumOver(savings') = SumOver(savings) + 0 /\ rewardFund' = rewardFund + 0
        /\ supply' = supply + (-n + 0 + n + 0)
    BY <1>1, <1>2, <1>10, <2>2
  <2> QED BY <1>1, <1>2, <1>3, <1>9, <2>1, <2>3, ConservedStep
<1>12. MoneyTypes'
  <2>1. fundBalance' \in Nat
    BY <1>1, <1>2, <1>10
  <2> QED BY <1>1, <1>3, <1>7, <1>9, <2>1 DEF MoneyTypes, InBlock, ends
<1> QED BY <1>1, <1>8, <1>11, <1>12, OperationStep

\* A stake is paid by an operation or at the end of a block.
LEMMA PayStakeMoney ==
    ASSUME MoneyInv, NEW i \in DOMAIN stakes, PayStake(i), UNCHANGED ends
    PROVE  MoneyInv'
<1> DEFINE n == stakes[i].amount
           a == stakes[i].from
<1>1. /\ fundBalance >= n /\ balance' = Add(balance, a, n)
      /\ fundBalance' = fundBalance - n /\ fundReady' = fundReady - n
      /\ stakes' = RemoveAt(stakes, i)
      /\ UNCHANGED <<savings, rewardFund, supply, banned, interest, withdraws, time, phase, itr>>
  BY DEF PayStake, rules, ends
<1>2. MoneyTypes /\ Conserved /\ Promised /\ Rewarded /\ Covered /\ Looping
  BY DEF MoneyInv
<1>3. stakes \in Seq(Stake)
  BY <1>2 DEF MoneyTypes
<1>4. n \in Nat /\ a \in Account
  <2>1. stakes[i] \in Stake
    BY <1>3
  <2>2. n \in Nat /\ a \in Users
    BY <2>1 DEF Stake
  <2> QED BY <2>2, AmountFacts
<1>5. stakes' \in Seq(Stake) /\ StakesTotal(stakes) = n + StakesTotal(stakes') /\ StakesTotal(stakes') \in Nat
  BY <1>1, <1>3, StakeGoes
<1> HIDE DEF n, a
<1>6. Promised'
  BY <1>1, <1>2, <1>4, <1>5 DEF Promised
<1>7. n \in Int /\ -n \in Int
  BY <1>4
<1>8. balance' \in [Account -> Int] /\ SumOver(balance') = SumOver(balance) + n
  BY <1>1, <1>4, <1>7, OneBalance
<1>9. fundBalance \in Nat /\ rewardFund \in Nat /\ supply \in Int /\ savings \in [Account -> Int]
  BY <1>2 DEF MoneyTypes
<1>10. Conserved'
  <2>1. Null \in Account /\ 0 \in Int
    BY AmountFacts
  <2>2. SumOver(savings) \in Int
    BY <1>9, <2>1, AddFacts
  <2>3. SumOver(savings') = SumOver(savings) + 0 /\ rewardFund' = rewardFund + 0
        /\ supply' = supply + (n + 0 + (-n) + 0) /\ fundBalance' = fundBalance + (-n)
    BY <1>1, <1>7, <1>9, <2>2
  <2> QED BY <1>2, <1>7, <1>8, <2>1, <2>3, ConservedStep
<1>11. MoneyTypes'
  <2>1. fundBalance' \in Nat
    BY <1>1, <1>4, <1>9
  <2> QED BY <1>1, <1>2, <1>5, <1>8, <2>1 DEF MoneyTypes
<1>12. Rewarded' /\ Covered' /\ Looping'
  BY <1>1, <1>2 DEF Rewarded, Covered, Looping
<1> QED BY <1>6, <1>10, <1>11, <1>12 DEF MoneyInv

\* A request is made: what is taken from the balance is owed by the savings.
LEMMA TransferSavingsMoney ==
    ASSUME Inv, MoneyInv, NEW f \in Users, NEW t \in Payee, NEW n \in Amount, NEW i \in RequestId,
           NEW o \in SplitOrder, NEW m \in SplitMonth, NEW c \in 1 .. MaxTime,
           TransferSavings(f, t, n, i, o, m, c)
    PROVE  MoneyInv'
<1> DEFINE w == [from |-> f, to |-> t, id |-> i, amount |-> n, total |-> n,
                 first |-> o, order |-> o, month |-> m, complete |-> c]
<1>1. /\ InBlock /\ balance' = Add(balance, f, -n) /\ savings' = Add(savings, t, n)
      /\ withdraws' = withdraws \cup {w}
      /\ \A v \in withdraws : ~(v.from = f /\ v.id = i)
      /\ UNCHANGED <<fundBalance, fundReady, rewardFund, supply, banned, interest, stakes>>
  BY DEF TransferSavings, rules
<1>2. MoneyTypes /\ Conserved /\ Promised /\ Covered
  BY DEF MoneyInv
<1>3. n \in Nat /\ n \in Int /\ -n \in Int /\ f \in Account /\ t \in Account
  BY AmountFacts
<1>4. w.from = f /\ w.id = i /\ w.to = t /\ w.amount = n
  OBVIOUS
<1> HIDE DEF w
<1>5. w \notin withdraws /\ w.amount \in Int /\ Requests(withdraws)
  BY <1>1, <1>2, <1>3, <1>4, WithdrawsFacts
<1>6. savings \in [Account -> Int] /\ \A a \in Account : savings[a] \in Nat
  BY <1>2 DEF MoneyTypes
<1>7. /\ savings' \in [Account -> Int] /\ savings'[t] = savings[t] + n
      /\ \A x \in Account : x # t => savings'[x] = savings[x]
      /\ SumOver(savings') = SumOver(savings) + n
  BY <1>1, <1>3, OneSavings
<1>8. balance' \in [Account -> Int] /\ SumOver(balance') = SumOver(balance) + -n
  BY <1>1, <1>3, OneBalance
<1>9. Requests(withdraws')
  BY <1>1, <1>5, OwedMore
<1>10. Covered'
  <2> SUFFICES ASSUME NEW a \in Users PROVE savings'[a] = Owed(withdraws', a)
    BY DEF Covered
  <2>1. savings[a] = Owed(withdraws, a) /\ a \in Account
    BY <1>2, AmountFacts DEF Covered
  <2>2. /\ t = a => Owed(withdraws', a) = Owed(withdraws, a) + n
        /\ t # a => Owed(withdraws', a) = Owed(withdraws, a)
    BY <1>1, <1>4, <1>5, OwedMore
  <2> QED BY <1>7, <2>1, <2>2
<1>11. Conserved'
  <2>1. fundBalance' = fundBalance + 0 /\ rewardFund' = rewardFund + 0
        /\ supply' = supply + (-n + n + 0 + 0) /\ 0 \in Int
    BY <1>1, <1>2, <1>3 DEF MoneyTypes
  <2> QED BY <1>2, <1>3, <1>7, <1>8, <2>1, ConservedStep
<1>12. MoneyTypes'
  <2>1. \A x \in Account : savings'[x] \in Nat
    BY <1>3, <1>6, <1>7
  <2>2. savings' \in [Account -> Nat]
    BY <1>7, <2>1
  <2>3. IsFiniteSet(withdraws')
    BY <1>9 DEF Requests
  <2> QED BY <1>1, <1>2, <1>8, <2>2, <2>3 DEF MoneyTypes, InBlock, ends
<1>13. Promised'
  BY <1>1, <1>2 DEF Promised
<1>14. phase' = "txs"
  BY <1>1 DEF InBlock, ends
<1>15. Rewarded' /\ Looping'
  BY <1>14 DEF Rewarded, Looping
<1> QED BY <1>10, <1>11, <1>12, <1>13, <1>15 DEF MoneyInv

\* A request is cancelled or concluded: whoever gets what is left.
LEMMA EndRequestMoney ==
    ASSUME Inv, MoneyInv, NEW w \in withdraws, CancelTransferSavings(w) \/ ConclusionTransferSavings(w)
    PROVE  MoneyInv'
<1> DEFINE n == w.amount
           t == w.to
<1>1. /\ InBlock /\ savings[t] >= n /\ savings' = Add(savings, t, -n)
      /\ balance' = Add(balance, w.from, n) \/ balance' = Add(balance, t, n)
      /\ withdraws' = withdraws \ {w}
      /\ UNCHANGED <<fundBalance, fundReady, rewardFund, supply, banned, interest, stakes>>
  BY DEF CancelTransferSavings, ConclusionTransferSavings, rules
<1>2. MoneyTypes /\ Conserved /\ Promised /\ Covered
  BY DEF MoneyInv
<1>3. Requests(withdraws) /\ OnSchedule(w)
  BY <1>2, WithdrawsFacts
<1>4. n \in Int /\ t \in Account /\ w.from \in Account
  BY <1>3, ScheduleFacts
<1>5. n \in Int /\ -n \in Int
  BY <1>4
<1>6. savings \in [Account -> Int] /\ \A a \in Account : savings[a] \in Nat
  BY <1>2 DEF MoneyTypes
<1>7. /\ Requests(withdraws')
      /\ \A a : t = a => Owed(withdraws, a) = Owed(withdraws', a) + n
      /\ \A a : t # a => Owed(withdraws', a) = Owed(withdraws, a)
  BY <1>1, <1>3, OwedLess
<1>8. \A a : Owed(withdraws', a) \in Int
  BY <1>7, DueToFacts
<1> HIDE DEF n, t
<1>9. /\ savings' \in [Account -> Int] /\ savings'[t] = savings[t] + -n
      /\ \A x \in Account : x # t => savings'[x] = savings[x]
      /\ SumOver(savings') = SumOver(savings) + -n
  BY <1>1, <1>4, <1>5, OneSavings
<1>10. balance' \in [Account -> Int] /\ SumOver(balance') = SumOver(balance) + n
  BY <1>1, <1>4, <1>5, OneBalance
<1>11. Covered'
  <2> SUFFICES ASSUME NEW a \in Users PROVE savings'[a] = Owed(withdraws', a)
    BY DEF Covered
  <2>1. savings[a] = Owed(withdraws, a) /\ a \in Account
    BY <1>2, AmountFacts DEF Covered
  <2>2. CASE t = a
    <3>1. Owed(withdraws, a) = Owed(withdraws', a) + n /\ Owed(withdraws', a) \in Int
      BY <1>7, <1>8, <2>2
    <3> QED BY <1>4, <1>9, <2>1, <2>2, <3>1
  <2>3. CASE t # a
    BY <1>7, <1>9, <2>1, <2>3
  <2> QED BY <2>2, <2>3
<1>12. Conserved'
  <2>1. fundBalance' = fundBalance + 0 /\ rewardFund' = rewardFund + 0
        /\ supply' = supply + (n + (-n) + 0 + 0) /\ 0 \in Int
    BY <1>1, <1>2, <1>4 DEF MoneyTypes
  <2> QED BY <1>2, <1>5, <1>9, <1>10, <2>1, ConservedStep
<1>13. MoneyTypes'
  <2>1. savings'[t] \in Nat
    BY <1>1, <1>4, <1>6, <1>9
  <2>2. \A x \in Account : savings'[x] \in Nat
    BY <1>6, <1>9, <2>1
  <2>3. savings' \in [Account -> Nat]
    BY <1>9, <2>2
  <2>4. IsFiniteSet(withdraws')
    BY <1>7 DEF Requests
  <2> QED BY <1>1, <1>2, <1>10, <2>3, <2>4 DEF MoneyTypes, InBlock, ends
<1>14. Promised'
  BY <1>1, <1>2 DEF Promised
<1>15. phase' = "txs"
  BY <1>1 DEF InBlock, ends
<1>16. Rewarded' /\ Looping'
  BY <1>15 DEF Rewarded, Looping
<1> QED BY <1>11, <1>12, <1>13, <1>14, <1>16 DEF MoneyInv


\* A request is not the end of the index.
LEMMA RequestIsNotEnd ==
    ASSUME NEW w \in Request
    PROVE  w # End
<1>1. DOMAIN w = {"from", "to", "id", "amount", "total", "first", "order", "month", "complete"}
  BY DEF Request
<1>2. DOMAIN End = {"end"}
  BY DEF End
<1> QED BY <1>1, <1>2

\* The first request is looked at.
LEMMA BeginLoops ==
    ASSUME NEW ws, ws \subseteq Request, KeysDiffer(ws), NEW w \in ws
    PROVE  Begin(ws) # End /\ Begin(ws).complete <= w.complete
<1>1. Begin(ws) \in ws /\ Begin(ws).complete <= w.complete
  BY BeginPoints
<1> QED BY <1>1, RequestIsNotEnd

\* clear_null_account_balance() takes what is there, and nothing else.
LEMMA ClearedFacts ==
    ASSUME NEW x \in Int
    PROVE  LET c == IF x > 0 THEN x ELSE 0
           IN  c \in Nat /\ -c \in Int /\ (x >= 0 => x + -c = 0)
OBVIOUS

\* The null account is cleared, the supply less by that, and the reward fund
\* goes to the producer of the block.
LEMMA EndTransactionsMoney ==
    ASSUME Inv, MoneyInv, NEW when \in 1 .. MaxTime, NEW p \in Users, EndTransactions(when, p)
    PROVE  MoneyInv'
<1> DEFINE x == Cleared(balance)
           y == Cleared(savings)
           r == rewardFund
           b == Add(balance, Null, -x)
<1>1. /\ balance' = Add(b, p, r) /\ savings' = Add(savings, Null, -y)
      /\ supply' = supply - (x + y) /\ rewardFund' = rewardFund - r
      /\ time' = when /\ phase' = "savings" /\ itr' = Begin(withdraws)
      /\ UNCHANGED <<fundBalance, fundReady, banned, interest, withdraws, stakes>>
  BY DEF EndTransactions, rules, Reward, Burned
<1>2. MoneyTypes /\ Conserved /\ Promised /\ Covered
  BY DEF MoneyInv
<1>3. /\ p \in Account /\ Null \in Account /\ Null \notin Users /\ when \in Nat
      /\ \A a \in Users : a \in Account
  BY AmountFacts DEF Users
<1>4. /\ r \in Nat /\ r \in Int /\ fundBalance \in Nat /\ supply \in Int /\ time \in Nat
      /\ balance \in [Account -> Int] /\ savings \in [Account -> Nat]
  BY <1>2 DEF MoneyTypes
<1>5. x \in Nat /\ -x \in Int /\ y \in Nat /\ -y \in Int /\ savings[Null] + -y = 0
  <2>1. balance[Null] \in Int /\ savings[Null] \in Int /\ savings[Null] >= 0
    BY <1>3, <1>4
  <2> QED BY <2>1, ClearedFacts DEF Cleared
<1> HIDE DEF x, y, r
<1>6. b \in [Account -> Int] /\ SumOver(b) = SumOver(balance) + -x /\ SumOver(balance) \in Int
  BY <1>3, <1>4, <1>5, AddFacts
<1> HIDE DEF b
<1>7. balance' \in [Account -> Int] /\ SumOver(balance') = SumOver(b) + r
  BY <1>1, <1>3, <1>4, <1>6, AddFacts
<1>8. SumOver(balance') = SumOver(balance) + (r - x) /\ r - x \in Int
  BY <1>4, <1>5, <1>6, <1>7
<1>9. /\ savings' \in [Account -> Int] /\ savings'[Null] = savings[Null] + -y
      /\ \A a \in Account : a # Null => savings'[a] = savings[a]
      /\ SumOver(savings') = SumOver(savings) + -y
  BY <1>1, <1>3, <1>5, OneSavings
<1>10. savings'[Null] = 0
  BY <1>5, <1>9
<1>11. Covered'
  BY <1>1, <1>2, <1>3, <1>9 DEF Covered
<1>12. rewardFund' = 0 /\ rewardFund' = rewardFund + -r /\ -r \in Int
  BY <1>1, <1>4 DEF r
<1>13. Conserved'
  <2>1. supply' = supply + ((r - x) + -y + 0 + -r) /\ fundBalance' = fundBalance + 0 /\ 0 \in Int
    BY <1>1, <1>4, <1>5
  <2> QED BY <1>2, <1>5, <1>8, <1>9, <1>12, <2>1, ConservedStep
<1>14. MoneyTypes'
  <2>1. \A a \in Account : savings'[a] \in Nat
    BY <1>4, <1>9, <1>10
  <2>2. savings' \in [Account -> Nat]
    BY <1>9, <2>1
  <2>3. supply' \in Int
    BY <1>1, <1>4, <1>5
  <2> QED BY <1>1, <1>2, <1>3, <1>4, <1>7, <1>12, <2>2, <2>3 DEF MoneyTypes
<1>15. Promised' /\ Rewarded'
  BY <1>1, <1>2, <1>12 DEF Promised, Rewarded
<1>16. Looping'
  <2>1. withdraws \subseteq Request /\ KeysDiffer(withdraws)
    BY DEF Inv, OnSchedule
  <2>2. \A w \in withdraws : itr' # End /\ itr'.complete <= w.complete
    BY <1>1, <2>1, BeginLoops
  <2> QED BY <1>1, <2>2 DEF Looping
<1> QED BY <1>11, <1>13, <1>14, <1>15, <1>16 DEF MoneyInv

\* The loop of process_savings_withdraws() ends.
LEMMA SavingsPaidMoney ==
    ASSUME Inv, MoneyInv, SavingsPaid
    PROVE  MoneyInv'
<1>1. /\ phase = "savings" /\ ~Due(itr) /\ phase' = "staking"
      /\ UNCHANGED <<balance, savings, fundBalance, fundReady, rewardFund, supply, banned, interest,
                     withdraws, stakes, time>>
  BY DEF SavingsPaid, money, rules
<1>2. MoneyTypes /\ Conserved /\ Promised /\ Covered /\ Rewarded /\ Looping
  BY DEF MoneyInv
<1>3. ASSUME NEW w \in withdraws, w.complete <= time
      PROVE  Paid(w) > 0
  <2>1. OnSchedule(w) /\ w.complete \in Nat /\ time \in Nat
    BY <1>2, WithdrawsFacts, ScheduleFacts DEF MoneyTypes
  <2>2. Paid(w) \in Nat
    BY <2>1, PaidFacts DEF OnSchedule
  <2>3. Paid(w) # 0
    <3> SUFFICES ASSUME Paid(w) = 0 PROVE FALSE
      OBVIOUS
    <3>1. itr # End /\ itr.complete <= w.complete
      BY <1>1, <1>2 DEF Looping
    <3>2. itr \in withdraws
      BY <3>1 DEF Inv
    <3>3. itr.complete \in Nat
      BY <1>2, <3>2, WithdrawsFacts, ScheduleFacts
    <3>4. itr.complete <= time
      BY <1>3, <2>1, <3>1, <3>3
    <3> QED BY <1>1, <3>1, <3>4 DEF Due
  <2> QED BY <2>2, <2>3
<1>4. MoneyTypes' /\ Conserved' /\ Promised' /\ Covered' /\ Rewarded'
  BY <1>1, <1>2 DEF MoneyTypes, Conserved, Promised, Covered, Rewarded
<1>5. Looping'
  BY <1>1, <1>3 DEF Looping
<1> QED BY <1>4, <1>5 DEF MoneyInv


\* What is owed after a payment of a request, the one that is looked at: less
\* by the payment, whether it was the last one or not.
LEMMA OwedAfter ==
    ASSUME Inv, MoneyTypes, NEW w \in withdraws, Defined(w), NEW a
    PROVE  LET others == withdraws \ {w}
               paid == others \cup (IF w.order = w.month THEN {} ELSE {NextPayment(w)})
           IN  /\ Requests(paid)
               /\ w.to = a => Owed(withdraws, a) = Owed(paid, a) + Payment(w)
               /\ w.to # a => Owed(paid, a) = Owed(withdraws, a)
<1> DEFINE others == withdraws \ {w}
           n == Payment(w)
           v == NextPayment(w)
<1>1. OnSchedule(w) /\ Requests(withdraws)
  BY WithdrawsFacts
<1>2. w.amount \in Int /\ n \in Int
  BY <1>1, ScheduleFacts
<1>3. /\ Requests(others)
      /\ w.to = a => Owed(withdraws, a) = Owed(others, a) + w.amount
      /\ w.to # a => Owed(others, a) = Owed(withdraws, a)
  BY <1>1, OwedLess
<1>4. CASE w.order = w.month
  <2>1. n = w.amount
    BY <1>4 DEF Payment
  <2> QED BY <1>3, <1>4, <2>1
<1>5. CASE w.order # w.month
  <2>1. v.amount = w.amount - n /\ v.to = w.to /\ v.from = w.from /\ v.id = w.id
    BY DEF NextPayment
  <2>2. v.amount \in Int
    BY <1>2, <2>1
  <2>3. v \notin others
    <3>1. KeysDiffer(withdraws)
      BY DEF Inv
    <3> HIDE DEF v
    <3> QED BY <2>1, <3>1 DEF KeysDiffer
  <2> HIDE DEF v, n, others
  <2>4. /\ Requests(others \cup {v})
        /\ v.to = a => Owed(others \cup {v}, a) = Owed(others, a) + v.amount
        /\ v.to # a => Owed(others \cup {v}, a) = Owed(others, a)
    BY <1>3, <2>2, <2>3, OwedMore
  <2>5. Owed(others, a) \in Int
    BY <1>3, DueToFacts
  <2>6. w.to = a => Owed(withdraws, a) = Owed(others \cup {v}, a) + n
    <3> SUFFICES ASSUME w.to = a PROVE Owed(withdraws, a) = Owed(others \cup {v}, a) + n
      OBVIOUS
    <3> DEFINE o == Owed(others, a)
               k == w.amount
    <3>1. o \in Int /\ k \in Int /\ n \in Int
      BY <1>2, <2>5
    <3>2. Owed(withdraws, a) = o + k /\ Owed(others \cup {v}, a) = o + (k - n)
      BY <1>3, <2>1, <2>4
    <3> HIDE DEF o, k
    <3>3. o + k = (o + (k - n)) + n
      BY <3>1
    <3> QED BY <3>2, <3>3
  <2>7. w.to # a => Owed(others \cup {v}, a) = Owed(withdraws, a)
    BY <1>3, <2>1, <2>4
  <2> QED BY <1>5, <2>4, <2>6, <2>7 DEF v, n, others
<1> QED BY <1>4, <1>5

\* The requests that are left after a round, other than the next instalment of
\* the one that was paid, are not due before the one that is looked at next.
LEMMA PaidLoops ==
    ASSUME Inv, NEW w \in withdraws, OnSchedule(w), Defined(w),
           NEW v \in (withdraws \ {w}) \cup (IF w.order = w.month THEN {} ELSE {NextPayment(w)}),
           Paid(v) = 0
    PROVE  Begin(withdraws \ {w}) # End /\ Begin(withdraws \ {w}).complete <= v.complete
<1> DEFINE others == withdraws \ {w}
<1>1. others \subseteq Request /\ KeysDiffer(others)
  BY DEF Inv, OnSchedule, KeysDiffer
<1>2. ASSUME w.order # w.month
      PROVE  Paid(NextPayment(w)) # 0
  <2>1. w.month # 0
    BY <1>2 DEF Defined
  <2>2. Paid(NextPayment(w)) = Paid(w) + 1 /\ Paid(w) \in Nat
    BY <1>2, <2>1, NextOnSchedule, PaidFacts DEF OnSchedule
  <2> QED BY <2>2
<1>3. v \in others
  BY <1>2
<1> HIDE DEF others
<1>4. Begin(others) # End /\ Begin(others).complete <= v.complete
  BY <1>1, <1>3, BeginLoops
<1> QED BY <1>4 DEF others

\* A round of process_savings_withdraws().
LEMMA PaySavingsMoney ==
    ASSUME Inv, MoneyInv, PaySavings
    PROVE  MoneyInv'
<1> DEFINE w == itr
           n == Payment(w)
           t == w.to
           others == withdraws \ {w}
           paid == others \cup (IF w.order = w.month THEN {} ELSE {NextPayment(w)})
<1>1. /\ phase = "savings" /\ w # End
      /\ UNCHANGED <<fundBalance, fundReady, rewardFund, supply, banned, interest, stakes, time>>
  BY DEF PaySavings, Due, rules
<1>2. MoneyTypes /\ Conserved /\ Promised /\ Covered /\ Rewarded /\ Looping
  BY DEF MoneyInv
<1>3. w \in withdraws /\ OnSchedule(w) /\ Requests(withdraws)
  BY <1>1, <1>2, WithdrawsFacts DEF Inv
<1>4. t \in Account /\ w.amount \in Int
  BY <1>3, ScheduleFacts
<1>6. (\A a \in Account : savings[a] \in Nat) /\ Null \in Account
  BY <1>1, <1>2, AmountFacts DEF MoneyTypes
<1>7. CASE Defined(w) /\ savings[t] >= n
  <2>0. n \in Int /\ -n \in Int
    BY <1>3, <1>7, ScheduleFacts
  <2>1. /\ balance' = Add(balance, t, n) /\ savings' = Add(savings, t, -n)
        /\ withdraws' = paid /\ itr' = Begin(others) /\ phase' = "savings"
    BY <1>1, <1>7 DEF PaySavings
  <2>2. \A a : /\ Requests(withdraws')
               /\ t = a => Owed(withdraws, a) = Owed(withdraws', a) + n
               /\ t # a => Owed(withdraws', a) = Owed(withdraws, a)
    BY <1>2, <1>3, <1>7, <2>1, OwedAfter
  <2>3. \A v \in withdraws' : Paid(v) = 0 => itr' # End /\ itr'.complete <= v.complete
    BY <1>3, <1>7, <2>1, PaidLoops
  <2> HIDE DEF n, t, others, paid
  <2>4. \A a : Owed(withdraws', a) \in Int
    BY <2>2, DueToFacts
  <2>5. /\ savings' \in [Account -> Int] /\ savings'[t] = savings[t] + -n
        /\ \A a \in Account : a # t => savings'[a] = savings[a]
        /\ SumOver(savings') = SumOver(savings) + -n
    BY <1>4, <2>0, <2>1, OneSavings
  <2>6. balance' \in [Account -> Int] /\ SumOver(balance') = SumOver(balance) + n
    BY <1>4, <2>0, <2>1, OneBalance
  <2>7. Covered'
    <3> SUFFICES ASSUME NEW a \in Users PROVE savings'[a] = Owed(withdraws', a)
      BY DEF Covered
    <3>1. savings[a] = Owed(withdraws, a) /\ a \in Account
      BY <1>2, AmountFacts DEF Covered
    <3>2. CASE t = a
      <4>1. Owed(withdraws, a) = Owed(withdraws', a) + n /\ Owed(withdraws', a) \in Int
        BY <2>2, <2>4, <3>2
      <4> QED BY <2>0, <2>5, <3>1, <3>2, <4>1
    <3>3. CASE t # a
      BY <2>2, <2>5, <3>1, <3>3
    <3> QED BY <3>2, <3>3
  <2>8. Conserved'
    <3>1. fundBalance' = fundBalance + 0 /\ rewardFund' = rewardFund + 0
          /\ supply' = supply + (n + (-n) + 0 + 0) /\ 0 \in Int
      BY <1>1, <1>2, <2>0 DEF MoneyTypes
    <3> QED BY <1>2, <2>0, <2>5, <2>6, <3>1, ConservedStep
  <2>9. savings'[t] \in Nat
    BY <2>0, <1>4, <1>6, <1>7, <2>5
  <2>10. MoneyTypes'
    <3>1. \A x \in Account : savings'[x] \in Nat
      BY <1>6, <2>5, <2>9
    <3>2. savings' \in [Account -> Nat]
      BY <2>5, <3>1
    <3>3. IsFiniteSet(withdraws')
      BY <2>2 DEF Requests
    <3> QED BY <1>1, <1>2, <2>1, <2>6, <3>2, <3>3 DEF MoneyTypes
  <2>11. Promised' /\ Rewarded'
    BY <1>1, <1>2, <2>1 DEF Promised, Rewarded
  <2>13. Looping'
    BY <2>1, <2>3 DEF Looping
  <2> QED BY <2>7, <2>8, <2>10, <2>11, <2>13 DEF MoneyInv
<1>8. CASE ~(Defined(w) /\ savings[t] >= n)
  <2>1. phase' = "stopped" /\ UNCHANGED <<balance, savings, withdraws, itr>>
    BY <1>8 DEF PaySavings
  <2>2. t = Null \/ \E v \in withdraws : v.to = t /\ ~OnPlan(v)
    <3> SUFFICES ASSUME t # Null, \A v \in withdraws : v.to = t => OnPlan(v) PROVE FALSE
      OBVIOUS
    <3>1. savings[t] = Owed(withdraws, t)
      BY <1>2, <1>4 DEF Covered, Users
    <3>2. \A v \in withdraws : v.to = t => v.amount \in Nat
      BY <1>2, WithdrawsFacts, ScheduleFacts
    <3>3. Defined(w) /\ n \in 0 .. w.amount /\ w.amount \in Nat
      BY <1>3, ScheduleFacts
    <3>4. w.amount <= Owed(withdraws, t) /\ Owed(withdraws, t) \in Int
      BY <1>3, <3>2, OwedCovers, DueToFacts
    <3> HIDE DEF n, t
    <3> QED BY <1>8, <3>1, <3>3, <3>4
  <2>3. MoneyTypes' /\ Conserved' /\ Promised' /\ Covered' /\ Rewarded'
    BY <1>1, <1>2, <2>1 DEF MoneyTypes, Conserved, Promised, Covered, Rewarded
  <2>4. Looping'
    BY <2>1, <2>2 DEF Looping, OnPlan
  <2> QED BY <2>3, <2>4 DEF MoneyInv
<1> QED BY <1>7, <1>8


\* Nothing of the money changes, nor what is looked at: a step that stutters,
\* and the end of a block.
LEMMA BlockEndsMoney ==
    ASSUME MoneyInv, UNCHANGED <<money, rules, withdraws, stakes, time, itr>>,
           phase' = phase \/ phase' = "txs"
    PROVE  MoneyInv'
<1>1. UNCHANGED <<balance, savings, fundBalance, fundReady, rewardFund, supply, banned, interest>>
  BY DEF money, rules
<1>2. MoneyTypes' /\ Conserved' /\ Promised' /\ Covered' /\ Rewarded'
  BY <1>1 DEF MoneyInv, MoneyTypes, Conserved, Promised, Covered, Rewarded
<1>3. Looping'
  BY <1>1 DEF MoneyInv, Looping
<1> QED BY <1>2, <1>3 DEF MoneyInv

LEMMA NextMoney == Inv /\ MoneyInv /\ [Next]_vars => MoneyInv'
<1> SUFFICES ASSUME Inv, MoneyInv, [Next]_vars PROVE MoneyInv'
  OBVIOUS
<1>1. ASSUME NEW f \in Users, NEW t \in Account, NEW n \in Amount, Transfer(f, t, n)
      PROVE  MoneyInv'
  BY <1>1, TransferMoney
<1>2. ASSUME NEW a \in Account, NEW n \in Amount, PrintMoney(a, n) \/ Burn(a, n)
      PROVE  MoneyInv'
  BY <1>2, SupplyMoney
<1>3. ASSUME NEW a \in Users, NEW b \in BOOLEAN, SetBlacklist(a, b)
      PROVE  MoneyInv'
  <2>1. InBlock /\ UNCHANGED <<money, withdraws, stakes>> /\ interest' = interest
        /\ banned' = IF b THEN banned \cup {a} ELSE banned \ {a}
    BY <1>3 DEF SetBlacklist
  <2>2. banned \subseteq Users /\ interest \in [StakeMonth -> Percent \cup {NotOffered}]
    BY DEF MoneyInv, MoneyTypes
  <2>3. banned' \subseteq Users
    BY <2>1, <2>2
  <2> QED BY <2>1, <2>2, <2>3, RulesMoney
<1>4. ASSUME NEW a \in Users, PayFee(a)
      PROVE  MoneyInv'
  BY <1>4, PayFeeMoney
<1>5. ASSUME NEW f \in Users, NEW t \in Payee, NEW n \in Amount, NEW i \in RequestId,
             NEW o \in SplitOrder, NEW m \in SplitMonth, NEW c \in 1 .. MaxTime,
             TransferSavings(f, t, n, i, o, m, c)
      PROVE  MoneyInv'
  BY <1>5, TransferSavingsMoney
<1>6. ASSUME NEW w \in withdraws, CancelTransferSavings(w) \/ ConclusionTransferSavings(w)
      PROVE  MoneyInv'
  BY <1>6, EndRequestMoney
<1>7. ASSUME NEW f \in Users, NEW n \in Amount, NEW i \in RequestId, NEW m \in StakeMonth,
             StakingFund(f, n, i, m)
      PROVE  MoneyInv'
  BY <1>7, StakingFundMoney
<1>8. ASSUME NEW i \in DOMAIN stakes, ConclusionStaking(i)
      PROVE  MoneyInv'
  BY <1>8, PayStakeMoney DEF ConclusionStaking, InBlock
<1>9. ASSUME NEW f \in Users, NEW n \in Amount, TransferFund(f, n)
      PROVE  MoneyInv'
  BY <1>9, TransferFundMoney
<1>10. ASSUME NEW m \in StakeMonth, NEW p \in Percent, SetFundInterest(m, p)
       PROVE  MoneyInv'
  <2>1. InBlock /\ UNCHANGED <<money, withdraws, stakes>> /\ banned' = banned
        /\ interest' = [interest EXCEPT ![m] = p]
    BY <1>10 DEF SetFundInterest
  <2>2. banned \subseteq Users /\ interest \in [StakeMonth -> Percent \cup {NotOffered}]
    BY DEF MoneyInv, MoneyTypes
  <2>3. interest' \in [StakeMonth -> Percent \cup {NotOffered}]
    BY <2>1, <2>2
  <2> QED BY <2>1, <2>2, <2>3, RulesMoney
<1>11. ASSUME NEW when \in 1 .. MaxTime, NEW a \in Users, EndTransactions(when, a)
       PROVE  MoneyInv'
  BY <1>11, EndTransactionsMoney
<1>12. CASE PaySavings
  BY <1>12, PaySavingsMoney
<1>13. CASE SavingsPaid
  BY <1>13, SavingsPaidMoney
<1>14. CASE PayStakes
  <2>1. PICK i \in DOMAIN stakes : PayStake(i)
    BY <1>14 DEF PayStakes
  <2> QED BY <1>14, <2>1, PayStakeMoney DEF PayStakes
<1>15. CASE EndBlock
  BY <1>15, BlockEndsMoney DEF EndBlock
<1>16. CASE UNCHANGED vars
  BY <1>16, BlockEndsMoney DEF vars, ends
<1> QED
  BY <1>1, <1>2, <1>3, <1>4, <1>5, <1>6, <1>7, <1>8, <1>9, <1>10, <1>11, <1>12, <1>13,
     <1>14, <1>15, <1>16 DEF Next

\* Both invariants hold in every state of the ledger.
LEMMA MoneyInvariance == Spec => [](Inv /\ MoneyInv)
BY InitInv, NextInv, InitMoney, NextMoney, PTL DEF Spec

\* The variables have their types: whatever is transferred, staked, concluded
\* and paid, in instalments of any order and month, no savings and no fund goes
\* below zero.
THEOREM TypeCorrect == Spec => []TypeOK
<1>1. Inv /\ MoneyInv => TypeOK
  <2> SUFFICES ASSUME Inv, MoneyInv PROVE TypeOK
    OBVIOUS
  <2>1. MoneyTypes /\ Promised
    BY DEF MoneyInv
  <2>2. \A w \in withdraws : w \in Withdraw
    BY <2>1, WithdrawsFacts, ScheduleFacts
  <2>3. fundReady \in Nat
    BY <2>1, StakesSum DEF MoneyTypes, Promised
  <2>4. itr \in withdraws \cup {End}
    BY DEF Inv
  <2> QED BY <2>1, <2>2, <2>3, <2>4 DEF MoneyTypes, TypeOK
<1> QED BY <1>1, MoneyInvariance, PTL

\* The savings of every user are what is still to be paid to it: for any number
\* of accounts, requests, instalments and blocks, transfer_savings, its
\* cancellation and conclusion and process_savings_withdraws() keep the
\* account's field and the sum over the savings_withdraw objects together.
THEOREM SavingsAreCovered == Spec => []SavingsCovered
<1>1. MoneyInv => SavingsCovered
  <2>1. ASSUME NEW a PROVE Owed(withdraws, a) = SumOf({w \in withdraws : w.to = a})
    BY DEF Owed, DueTo
  <2> QED BY <2>1 DEF MoneyInv, Covered, SavingsCovered
<1> QED BY <1>1, MoneyInvariance, PTL

\* Money is conserved: after every operation and every step of the end of a
\* block the supply is what all accounts and funds hold, no reward is left
\* when a block ends, and fund_withdraw_ready is what the stakes are due.
THEOREM SupplyIsAccounted == Spec => []SupplyAccounted
<1>1. MoneyInv => SupplyAccounted
  <2> SUFFICES ASSUME MoneyInv PROVE SupplyAccounted
    OBVIOUS
  <2>1. fundReady = SumOfStakes
    <3>1. fundReady = StakesTotal(stakes)
      BY DEF MoneyInv, Promised
    <3>2. StakesTotal(stakes) = SumOfStakes
      BY DEF StakesTotal, SumOfStakes, FoldLeft, MapThenFoldSet
    <3> QED BY <3>1, <3>2
  <2>2. phase \in {"savings", "staking"} => rewardFund = 0
    BY DEF MoneyInv, Rewarded
  <2>3. supply = TotalSupply + rewardFund
    BY DEF MoneyInv, Conserved, TotalSupply
  <2> QED BY <2>1, <2>2, <2>3 DEF SupplyAccounted
<1> QED BY <1>1, MoneyInvariance, PTL

\* process_savings_withdraws() rejects a block for no payment to a user whose
\* requests were all made with an order up to their month, and the loop, which
\* may end before it sees a record it inserted, leaves no request unpaid that
\* is due for the first time.
THEOREM BlockEndsComplete == Spec => []BlockEndCompletes
<1>1. MoneyInv => BlockEndCompletes
  BY DEF MoneyInv, Looping, BlockEndCompletes
<1> QED BY <1>1, MoneyInvariance, PTL
=============================================================================
