--------------------------- MODULE BlockLogProofs ---------------------------
(***************************************************************************)
(* The block log, for any number of blocks and crashes and wherever a      *)
(* crash cuts the two files: what open() finds is what the chain database  *)
(* was promised, and the index it has after it lists every block.          *)
(***************************************************************************)
EXTENDS BlockLog, NumberFacts, FiniteSetTheorems, FunctionTheorems, SequenceTheorems, TLAPS

LogCell(i) == IF i % 2 = 1 THEN Data((i + 1) \div 2) ELSE Pos(i - 2)

\* The first n cells of the block file; the index has WholeIndex.
LogPrefix(n) == [i \in 1 .. n |-> LogCell(i)]

\* A file that was cut in or behind its n-th cell.
CutAt(f, whole) == f = whole \/ f = Append(whole, Torn)

\* What was flushed is in the block file, and what is not in it is in the
\* buffer, as long as the process lives.
OpenBlocks ==
    /\ blockFile \o blockBuf = LogPrefix(2 * head)
    /\ 2 * flushed <= Len(blockFile)

\* A log that is not open is one that was cut behind what was flushed.
ClosedBlocks ==
    /\ blockBuf = << >> /\ indexBuf = << >> /\ ~blockWrite /\ ~indexWrite
    /\ \E n \in Nat : 2 * flushed <= n /\ CutAt(blockFile, LogPrefix(n))

BlocksInv ==
    /\ TypeOK
    /\ StartBlocks <= flushed
    /\ IF status = "open" THEN OpenBlocks ELSE ClosedBlocks

\* The index, which open() can repair in a log of at least two blocks.
OpenIndex == indexFile \o indexBuf = WholeIndex(head)
ClosedIndex == \E n \in Nat : CutAt(indexFile, WholeIndex(n))

IndexInv ==
    /\ BlocksInv
    /\ StartBlocks >= 2
    /\ IF status = "open" THEN OpenIndex ELSE ClosedIndex

-----------------------------------------------------------------------------
(* Cells and the files made of them.                                       *)

LEMMA CellFacts ==
    /\ \A n \in Nat : Data(n) \in Cell /\ Pos(n) \in Cell
    /\ Torn \in Cell /\ Torn.kind = "torn"
    /\ \A n : Data(n).kind = "block" /\ Pos(n).kind = "pos" /\ Data(n).val = n /\ Pos(n).val = n
BY DEF Cell, Data, Pos, Torn

LEMMA LogCellFacts ==
    ASSUME NEW m \in Nat
    PROVE  LogCell(2 * m + 1) = Data(m + 1) /\ LogCell(2 * m + 2) = Pos(2 * m)
<1>1. (2 * m + 1) % 2 = 1 /\ (2 * m + 1 + 1) \div 2 = m + 1
  OBVIOUS
<1>2. (2 * m + 2) % 2 = 0 /\ 2 * m + 2 - 2 = 2 * m
  OBVIOUS
<1> QED BY <1>1, <1>2 DEF LogCell

\* Every cell is one of the two that a block has.
LEMMA EvenOdd ==
    ASSUME NEW i \in Nat, i > 0
    PROVE  \E m \in Nat : m = (i - 1) \div 2 /\ (i = 2 * m + 1 \/ i = 2 * m + 2)
<1> DEFINE m == (i - 1) \div 2
<1>1. m \in Nat /\ (i = 2 * m + 1 \/ i = 2 * m + 2)
  OBVIOUS
<1> QED BY <1>1

LEMMA CellKind ==
    ASSUME NEW i \in Nat, i > 0
    PROVE  LogCell(i) \in Cell /\ LogCell(i).kind \in {"block", "pos"}
<1>1. PICK m \in Nat : i = 2 * m + 1 \/ i = 2 * m + 2
  BY EvenOdd
<1>2. LogCell(i) = Data(m + 1) \/ LogCell(i) = Pos(2 * m)
  BY <1>1, LogCellFacts
<1>3. m + 1 \in Nat /\ 2 * m \in Nat
  OBVIOUS
<1> QED BY <1>2, <1>3, CellFacts

LEMMA PrefixFacts ==
    ASSUME NEW n \in Nat
    PROVE  /\ LogPrefix(n) \in Seq(Cell) /\ Len(LogPrefix(n)) = n
           /\ DOMAIN LogPrefix(n) = 1 .. n
           /\ \A i \in 1 .. n : LogPrefix(n)[i] = LogCell(i)
<1>1. \A i \in 1 .. n : LogCell(i) \in Cell
  BY CellKind
<1>2. LogPrefix(n) \in [1 .. n -> Cell]
  BY <1>1 DEF LogPrefix
<1>3. LogPrefix(n) \in Seq(Cell)
  BY <1>2
<1>4. DOMAIN LogPrefix(n) = 1 .. n /\ \A i \in 1 .. n : LogPrefix(n)[i] = LogCell(i)
  BY DEF LogPrefix
<1> QED BY <1>3, <1>4

LEMMA IndexFacts ==
    ASSUME NEW n \in Nat
    PROVE  /\ WholeIndex(n) \in Seq(Cell) /\ Len(WholeIndex(n)) = n
           /\ DOMAIN WholeIndex(n) = 1 .. n
           /\ \A i \in 1 .. n : WholeIndex(n)[i] = Pos(2 * (i - 1))
<1>1. \A i \in 1 .. n : PosOf(i) \in Nat /\ PosOf(i) = 2 * (i - 1)
  BY DEF PosOf
<1>2. \A i \in 1 .. n : Pos(PosOf(i)) \in Cell
  BY <1>1, CellFacts
<1>3. WholeIndex(n) \in [1 .. n -> Cell]
  BY <1>2 DEF WholeIndex
<1>4. WholeIndex(n) \in Seq(Cell)
  BY <1>3
<1>5. DOMAIN WholeIndex(n) = 1 .. n /\ \A i \in 1 .. n : WholeIndex(n)[i] = Pos(2 * (i - 1))
  BY <1>1 DEF WholeIndex
<1> QED BY <1>4, <1>5

LEMMA WholeIsPrefix ==
    ASSUME NEW k \in Nat
    PROVE  WholeLog(k) = LogPrefix(2 * k)
BY DEF WholeLog, LogPrefix, LogCell

LEMMA TwiceLess ==
    ASSUME NEW a \in Nat, NEW b \in Nat, a <= b
    PROVE  2 * a <= 2 * b
OBVIOUS

\* Two sequences with the same elements are the same.
LEMMA SameSeq ==
    ASSUME NEW S, NEW a \in Seq(S), NEW b \in Seq(S), Len(a) = Len(b),
           \A i \in 1 .. Len(a) : a[i] = b[i]
    PROVE  a = b
OBVIOUS

\* What a crash may leave is a part of the file with its buffer written out.
LEMMA PartOfConcat ==
    ASSUME NEW f \in Seq(Cell), NEW b \in Seq(Cell), NEW k \in 0 .. Len(b)
    PROVE  /\ f \o SubSeq(b, 1, k) \in Seq(Cell)
           /\ Len(f \o SubSeq(b, 1, k)) = Len(f) + k
           /\ \A i \in 1 .. Len(f) + k : (f \o SubSeq(b, 1, k))[i] = (f \o b)[i]
<1> DEFINE s == SubSeq(b, 1, k)
<1>1. s \in Seq(Cell) /\ Len(s) = k /\ \A i \in 1 .. k : s[i] = b[i]
  OBVIOUS
<1> HIDE DEF s
<1>2. f \o s \in Seq(Cell) /\ Len(f \o s) = Len(f) + k
  <2>1. f \o s \in Seq(Cell) /\ Len(f \o s) = Len(f) + Len(s)
    BY <1>1, ConcatProperties
  <2> QED BY <1>1, <2>1
<1>3. ASSUME NEW i \in 1 .. Len(f) + k
      PROVE  (f \o s)[i] = (f \o b)[i]
  <2>1. CASE i \in 1 .. Len(f)
    BY <1>1, <2>1
  <2>2. CASE i \in Len(f) + 1 .. Len(f) + k
    <3>1. (f \o s)[i] = s[i - Len(f)] /\ (f \o b)[i] = b[i - Len(f)]
      BY <1>1, <2>2
    <3>2. i - Len(f) \in 1 .. k
      BY <2>2
    <3> QED BY <1>1, <3>1, <3>2
  <2>3. i \in 1 .. Len(f) \/ i \in Len(f) + 1 .. Len(f) + k
    OBVIOUS
  <2> QED BY <2>1, <2>2, <2>3
<1> QED BY <1>2, <1>3 DEF s


LEMMA LeftFacts ==
    ASSUME NEW f \in Seq(Cell), NEW b \in Seq(Cell), NEW x \in Left(f, b)
    PROVE  \E k \in 0 .. Len(b) : CutAt(x, f \o SubSeq(b, 1, k))
<1>1. CASE \E k \in 0 .. Len(b) : x = f \o SubSeq(b, 1, k)
  BY <1>1 DEF CutAt
<1>2. CASE \E k \in IF TornTails THEN 0 .. Len(b) - 1 ELSE {} :
              x = Append(f \o SubSeq(b, 1, k), Torn)
  <2>1. PICK k \in IF TornTails THEN 0 .. Len(b) - 1 ELSE {} :
                x = Append(f \o SubSeq(b, 1, k), Torn)
    BY <1>2
  <2>2. k \in 0 .. Len(b)
    BY <2>1
  <2> QED BY <2>1, <2>2 DEF CutAt
<1> QED BY <1>1, <1>2 DEF Left

LEMMA LeftOfLog ==
    ASSUME NEW f \in Seq(Cell), NEW b \in Seq(Cell), NEW N \in Nat, f \o b = LogPrefix(N),
           NEW x \in Left(f, b)
    PROVE  \E n \in Len(f) .. N : CutAt(x, LogPrefix(n))
<1>1. PICK k \in 0 .. Len(b) : CutAt(x, f \o SubSeq(b, 1, k))
  BY LeftFacts
<1> DEFINE y == f \o SubSeq(b, 1, k)
           n == Len(f) + k
<1>2. /\ y \in Seq(Cell) /\ Len(y) = n /\ \A i \in 1 .. n : y[i] = LogPrefix(N)[i]
  BY PartOfConcat
<1>3. Len(f) \in Nat /\ Len(b) \in Nat /\ Len(LogPrefix(N)) = N /\ Len(f \o b) = Len(f) + Len(b)
  BY PrefixFacts, ConcatProperties
<1>4. n \in Nat /\ n \in Len(f) .. N /\ \A i \in 1 .. n : i \in 1 .. N
  BY <1>3
<1> HIDE DEF y, n
<1>5. y = LogPrefix(n)
  <2>1. \A i \in 1 .. n : y[i] = LogCell(i)
    BY <1>2, <1>4, PrefixFacts
  <2>2. LogPrefix(n) \in Seq(Cell) /\ Len(LogPrefix(n)) = n /\ \A i \in 1 .. n : LogPrefix(n)[i] = LogCell(i)
    BY <1>4, PrefixFacts
  <2> QED BY <1>2, <2>1, <2>2, SameSeq
<1> QED BY <1>1, <1>4, <1>5 DEF y

LEMMA LeftOfIndex ==
    ASSUME NEW f \in Seq(Cell), NEW b \in Seq(Cell), NEW N \in Nat, f \o b = WholeIndex(N),
           NEW x \in Left(f, b)
    PROVE  \E n \in Nat : CutAt(x, WholeIndex(n))
<1>1. PICK k \in 0 .. Len(b) : CutAt(x, f \o SubSeq(b, 1, k))
  BY LeftFacts
<1> DEFINE y == f \o SubSeq(b, 1, k)
           n == Len(f) + k
<1>2. /\ y \in Seq(Cell) /\ Len(y) = n /\ \A i \in 1 .. n : y[i] = WholeIndex(N)[i]
  BY PartOfConcat
<1>3. Len(f) \in Nat /\ Len(b) \in Nat /\ Len(WholeIndex(N)) = N /\ Len(f \o b) = Len(f) + Len(b)
  <2>1. Len(WholeIndex(N)) = N
    BY IndexFacts
  <2>2. Len(f) \in Nat /\ Len(b) \in Nat
    OBVIOUS
  <2>3. Len(f \o b) = Len(f) + Len(b)
    BY ConcatProperties
  <2> QED BY <2>1, <2>2, <2>3
<1>4. n \in Nat /\ \A i \in 1 .. n : i \in 1 .. N
  BY <1>3
<1> HIDE DEF y, n
<1>5. y = WholeIndex(n)
  <2>1. \A i \in 1 .. n : y[i] = Pos(2 * (i - 1))
    BY <1>2, <1>4, IndexFacts
  <2>2. WholeIndex(n) \in Seq(Cell) /\ Len(WholeIndex(n)) = n /\ \A i \in 1 .. n : WholeIndex(n)[i] = Pos(2 * (i - 1))
    BY <1>4, IndexFacts
  <2> QED BY <1>2, <2>1, <2>2, SameSeq
<1> QED BY <1>1, <1>4, <1>5 DEF y

\* The length of a cut file, and what it ends with.
LEMMA CutFacts ==
    ASSUME NEW whole \in Seq(Cell), NEW f, CutAt(f, whole)
    PROVE  /\ f \in Seq(Cell)
           /\ \/ f = whole
              \/ Len(f) = Len(whole) + 1 /\ Last(f) = Torn
           /\ f = << >> => whole = << >>
<1>1. CASE f = whole
  BY <1>1
<1>2. CASE f = Append(whole, Torn)
  <2>1. f \in Seq(Cell) /\ Len(f) = Len(whole) + 1 /\ f[Len(whole) + 1] = Torn /\ f # << >>
    BY <1>2, CellFacts
  <2> QED BY <2>1 DEF Last
<1> QED BY <1>1, <1>2 DEF CutAt

\* A block file that can be opened is whole.
LEMMA WholeFacts ==
    ASSUME NEW n \in Nat, NEW f, CutAt(f, LogPrefix(n)), f # << >>, Last(f).kind = "pos"
    PROVE  \E k \in Nat : /\ k > 0 /\ n = 2 * k /\ f = LogPrefix(2 * k)
                          /\ Last(f) = Pos(2 * (k - 1)) /\ f[2 * (k - 1) + 1] = Data(k)
<1>1. f = LogPrefix(n)
  BY PrefixFacts, CutFacts, CellFacts
<1>2. n > 0
  BY <1>1, PrefixFacts
<1>3. Last(f) = LogCell(n)
  BY <1>1, <1>2, PrefixFacts DEF Last
<1>4. PICK m \in Nat : n = 2 * m + 1 \/ n = 2 * m + 2
  BY <1>2, EvenOdd
<1>5. n # 2 * m + 1
  BY <1>3, LogCellFacts, CellFacts
<1> DEFINE k == m + 1
<1>6. k \in Nat /\ k > 0 /\ n = 2 * k /\ 2 * (k - 1) = 2 * m /\ 2 * m + 1 \in 1 .. n
  BY <1>4, <1>5
<1>7. Last(f) = Pos(2 * (k - 1)) /\ f[2 * (k - 1) + 1] = Data(k)
  BY <1>1, <1>3, <1>4, <1>5, <1>6, LogCellFacts, PrefixFacts
<1> QED BY <1>1, <1>6, <1>7


\* The positions in the block file, one for every block of it.
LEMMA CompleteFacts ==
    ASSUME NEW n \in Nat, NEW f, CutAt(f, LogPrefix(n))
    PROVE  Cardinality({i \in DOMAIN f : f[i].kind = "pos"}) = n \div 2
<1> DEFINE m == n \div 2
           S == {i \in DOMAIN f : f[i].kind = "pos"}
           T == {i \in 1 .. n : \E j \in 1 .. m : i = 2 * j}
           e == [j \in 1 .. m |-> 2 * j]
<1>1. m \in Nat /\ \A j \in 1 .. m : 2 * j \in 1 .. n
  OBVIOUS
<1>2. ASSUME NEW i \in 1 .. n
      PROVE  LogCell(i).kind = "pos" <=> \E j \in 1 .. m : i = 2 * j
  <2>0. i \in Nat /\ i > 0
    OBVIOUS
  <2>1. PICK q \in Nat : i = 2 * q + 1 \/ i = 2 * q + 2
    BY <2>0, EvenOdd
  <2>2. CASE i = 2 * q + 1
    <3>1. LogCell(i).kind = "block"
      BY <2>2, LogCellFacts, CellFacts
    <3>2. \A j \in 1 .. m : i # 2 * j
      BY <2>2, <1>1
    <3> QED BY <3>1, <3>2
  <2>3. CASE i = 2 * q + 2
    <3>1. LogCell(i).kind = "pos"
      BY <2>3, LogCellFacts, CellFacts
    <3>2. q + 1 \in 1 .. m /\ i = 2 * (q + 1)
      BY <2>3
    <3> QED BY <3>1, <3>2
  <2> QED BY <2>1, <2>2, <2>3
<1>3. S = T
  <2>1. /\ LogPrefix(n) \in Seq(Cell) /\ Len(LogPrefix(n)) = n /\ DOMAIN LogPrefix(n) = 1 .. n
        /\ \A i \in 1 .. n : LogPrefix(n)[i] = LogCell(i)
    BY PrefixFacts
  <2>2. CASE f = LogPrefix(n)
    <3>1. \A i : i \in S <=> i \in T
      BY <1>2, <2>1, <2>2
    <3> QED BY <3>1
  <2>3. CASE f = Append(LogPrefix(n), Torn)
    <3>1. /\ DOMAIN f = 1 .. n + 1 /\ f[n + 1] = Torn
          /\ \A i \in 1 .. n : f[i] = LogCell(i)
      BY <2>1, <2>3, CellFacts
    <3>2. \A i : i \in 1 .. n + 1 <=> (i \in 1 .. n \/ i = n + 1)
      OBVIOUS
    <3>3. n + 1 \notin S /\ n + 1 \notin 1 .. n
      BY <3>1, CellFacts
    <3>4. ASSUME NEW i PROVE i \in S <=> i \in T
      <4>1. CASE i = n + 1
        BY <3>3, <4>1
      <4>2. CASE i # n + 1
        BY <1>2, <3>1, <3>2, <4>2
      <4> QED BY <4>1, <4>2
    <3> QED BY <3>4
  <2> QED BY <2>2, <2>3 DEF CutAt
<1>4. e \in Bijection(1 .. m, T)
  <2>1. e \in [1 .. m -> T]
    BY <1>1
  <2>2. \A i, j \in 1 .. m : e[i] = e[j] => i = j
    BY <1>1
  <2>3. \A i \in T : \E j \in 1 .. m : e[j] = i
    OBVIOUS
  <2> QED BY <2>1, <2>2, <2>3, Fun_IsBij
<1>5. ExistsBijection(1 .. m, T)
  BY <1>4 DEF ExistsBijection
<1>6. Cardinality(T) = m
  BY <1>1, <1>5, FS_CountingElements
<1> QED BY <1>3, <1>6


-----------------------------------------------------------------------------
(* The block file, from any number of blocks on.                           *)

LEMMA Types ==
    ASSUME BlocksInv
    PROVE  /\ blockFile \in Seq(Cell) /\ indexFile \in Seq(Cell)
           /\ blockBuf \in Seq(Cell) /\ indexBuf \in Seq(Cell)
           /\ blockWrite \in BOOLEAN /\ indexWrite \in BOOLEAN
           /\ head \in Nat /\ got \in Int /\ asked \in Nat
           /\ status \in {"open", "down", "failed"}
           /\ flushed \in Nat /\ crashes \in Nat /\ StartBlocks \in Nat
BY LogAssumption DEF BlocksInv, TypeOK

LEMMA InitBlocks ==
    ASSUME Init
    PROVE  BlocksInv
<1> DEFINE S == StartBlocks
<1>1. S \in Nat /\ 2 * S \in Nat
  BY LogAssumption
<1>2. blockFile = LogPrefix(2 * S) /\ indexFile = WholeIndex(S)
  BY <1>1, WholeIsPrefix DEF Init
<1>3. blockFile \in Seq(Cell) /\ indexFile \in Seq(Cell) /\ << >> \in Seq(Cell)
  BY <1>1, <1>2, PrefixFacts, IndexFacts
<1>4. TypeOK
  <2>1. 0 \in Nat /\ 0 \in Int
    OBVIOUS
  <2> QED BY <1>1, <1>3, <2>1, Zenon DEF Init, TypeOK
<1>5. ClosedBlocks
  BY <1>1, <1>2 DEF Init, ClosedBlocks, CutAt
<1> QED BY <1>1, <1>4, <1>5 DEF BlocksInv, Init

\* What open() finds.
LEMMA OpenFinds ==
    ASSUME BlocksInv, Open
    PROVE  /\ status = "down" /\ UNCHANGED <<blockFile, blockBuf, reads, flushed, crashes>>
           /\ blockBuf = << >> /\ indexBuf = << >>
           /\ \/ /\ blockFile = << >> /\ flushed = 0
                 /\ status' = "open" /\ head' = 0 /\ indexFile' = << >> /\ indexBuf' = << >>
                 /\ blockWrite' = TRUE /\ indexWrite' = TRUE
              \/ /\ status' = "failed"
                 /\ UNCHANGED <<head, indexFile, indexBuf, blockWrite, indexWrite>>
              \/ \E k \in Nat :
                    /\ k > 0 /\ flushed <= k /\ blockFile = LogPrefix(2 * k) /\ blockFile # << >>
                    /\ Last(blockFile) = Pos(2 * (k - 1))
                    /\ status' = "open" /\ head' = k /\ blockWrite' = FALSE
                    /\ IF IndexUpToDate
                       THEN indexWrite' = FALSE /\ UNCHANGED <<indexFile, indexBuf>>
                       ELSE ConstructIndex
<1>1. status = "down" /\ ClosedBlocks /\ flushed \in Nat
  BY Types DEF Open, BlocksInv
<1>2. PICK n \in Nat : 2 * flushed <= n /\ CutAt(blockFile, LogPrefix(n))
  BY <1>1 DEF ClosedBlocks
<1>3. CASE /\ blockFile = << >>
           /\ status' = "open" /\ head' = 0
           /\ indexFile' = << >> /\ UNCHANGED indexBuf
           /\ blockWrite' = TRUE /\ indexWrite' = TRUE
  <2>1. n = 0
    BY <1>2, <1>3, PrefixFacts, CutFacts
  <2>2. flushed = 0
    BY <1>1, <1>2, <2>1
  <2> QED BY <1>1, <1>3, <2>2 DEF Open, ClosedBlocks
<1>4. CASE /\ blockFile # << >> /\ ~Readable
           /\ status' = "failed"
           /\ UNCHANGED <<head, indexFile, indexBuf, blockWrite, indexWrite>>
  BY <1>1, <1>4 DEF Open, ClosedBlocks
<1>5. CASE /\ blockFile # << >> /\ Readable
           /\ status' = "open"
           /\ head' = blockFile[Last(blockFile).val + 1].val
           /\ blockWrite' = FALSE
           /\ IF IndexUpToDate
              THEN indexWrite' = FALSE /\ UNCHANGED <<indexFile, indexBuf>>
              ELSE ConstructIndex
  <2>1. Last(blockFile).kind = "pos"
    BY <1>5 DEF Readable
  <2>2. PICK k \in Nat : /\ k > 0 /\ n = 2 * k /\ blockFile = LogPrefix(2 * k)
                         /\ Last(blockFile) = Pos(2 * (k - 1))
                         /\ blockFile[2 * (k - 1) + 1] = Data(k)
    BY <1>2, <1>5, <2>1, WholeFacts
  <2>3. Last(blockFile).val = 2 * (k - 1) /\ head' = k
    BY <1>5, <2>2, CellFacts
  <2>4. flushed <= k
    BY <1>1, <1>2, <2>2
  <2> QED BY <1>1, <1>5, <2>2, <2>3, <2>4 DEF Open, ClosedBlocks
<1> QED BY <1>3, <1>4, <1>5 DEF Open

\* The positions that construct_index() writes are numbers.
LEMMA ScannedFacts ==
    ASSUME NEW k \in Nat, k > 0
    PROVE  /\ Scanned(2 * (k - 1)) \in Nat
           /\ k >= 2 => Scanned(2 * (k - 1)) = k
<1>1. 2 * (k - 1) \in Nat /\ (2 * (k - 1)) \div 2 = k - 1
  OBVIOUS
<1> QED BY <1>1 DEF Scanned

LEMMA OpenKeepsBlocks ==
    ASSUME BlocksInv, Open
    PROVE  BlocksInv'
<1> USE Types
<1>1. /\ UNCHANGED <<blockFile, blockBuf, reads, flushed, crashes>>
      /\ blockBuf = << >> /\ indexBuf = << >> /\ StartBlocks <= flushed /\ << >> \in Seq(Cell)
  BY OpenFinds DEF BlocksInv
<1>2. CASE /\ blockFile = << >> /\ flushed = 0
           /\ status' = "open" /\ head' = 0 /\ indexFile' = << >> /\ indexBuf' = << >>
           /\ blockWrite' = TRUE /\ indexWrite' = TRUE
  <2>1. TypeOK'
    BY <1>1, <1>2 DEF TypeOK, reads
  <2>2. LogPrefix(0) = << >>
    BY PrefixFacts
  <2>3. OpenBlocks'
    BY <1>1, <1>2, <2>2 DEF OpenBlocks
  <2> QED BY <1>1, <1>2, <2>1, <2>3 DEF BlocksInv
<1>3. CASE /\ status' = "failed"
           /\ UNCHANGED <<head, indexFile, indexBuf, blockWrite, indexWrite>>
  <2>1. TypeOK'
    BY <1>1, <1>3 DEF TypeOK, reads
  <2>2. status = "down" /\ ClosedBlocks
    BY DEF BlocksInv, Open
  <2>3. ClosedBlocks'
    BY <1>1, <1>3, <2>2 DEF ClosedBlocks
  <2> QED BY <1>1, <1>3, <2>1, <2>3 DEF BlocksInv
<1>4. ASSUME NEW k \in Nat, k > 0, flushed <= k, blockFile = LogPrefix(2 * k), blockFile # << >>,
             Last(blockFile) = Pos(2 * (k - 1)), status' = "open", head' = k, blockWrite' = FALSE,
             IF IndexUpToDate
             THEN indexWrite' = FALSE /\ UNCHANGED <<indexFile, indexBuf>>
             ELSE ConstructIndex
      PROVE  BlocksInv'
  <2>1. Last(blockFile).val = 2 * (k - 1)
    BY <1>4, CellFacts
  <2>2. indexFile' \in Seq(Cell) /\ indexBuf' \in Seq(Cell) /\ indexWrite' \in BOOLEAN
    <3>1. CASE IndexUpToDate
      BY <1>4, <3>1
    <3>2. CASE ~IndexUpToDate
      <4>1. /\ indexFile' = << >> /\ indexBuf' = WholeIndex(Scanned(2 * (k - 1)))
            /\ indexWrite' = TRUE
        BY <1>4, <2>1, <3>2 DEF ConstructIndex
      <4> QED BY <1>1, <1>4, <4>1, ScannedFacts, IndexFacts
    <3> QED BY <3>1, <3>2
  <2>3. TypeOK'
    BY <1>1, <1>4, <2>2 DEF TypeOK, reads
  <2>4. LogPrefix(2 * k) \o << >> = LogPrefix(2 * k) /\ Len(LogPrefix(2 * k)) = 2 * k
    <3>1. LogPrefix(2 * k) \in Seq(Cell) /\ Len(LogPrefix(2 * k)) = 2 * k
      BY PrefixFacts
    <3> QED BY <3>1
  <2>5. 2 * flushed <= 2 * k
    <3>1. flushed \in Nat /\ flushed <= k
      BY <1>4
    <3> QED BY <3>1, TwiceLess
  <2>6. OpenBlocks'
    <3>1. blockFile' = LogPrefix(2 * k) /\ blockBuf' = << >> /\ head' = k /\ flushed' = flushed
      BY <1>1, <1>4
    <3> QED BY <2>4, <2>5, <3>1 DEF OpenBlocks
  <2> QED BY <1>1, <1>4, <2>3, <2>6 DEF BlocksInv
<1> QED BY <1>2, <1>3, <1>4, OpenFinds


LEMMA Associative ==
    ASSUME NEW f \in Seq(Cell), NEW b \in Seq(Cell), NEW c \in Seq(Cell)
    PROVE  (f \o b) \o c = f \o (b \o c)
BY ConcatAssociative

\* append() puts the two cells of a block behind those of the last one.
LEMMA AppendExtends ==
    ASSUME NEW f \in Seq(Cell), NEW b \in Seq(Cell), NEW h \in Nat, f \o b = LogPrefix(2 * h)
    PROVE  /\ Len(f) + Len(b) = 2 * h
           /\ b \o <<Data(h + 1), Pos(2 * h)>> \in Seq(Cell)
           /\ f \o (b \o <<Data(h + 1), Pos(2 * h)>>) = LogPrefix(2 * (h + 1))
<1> DEFINE c == <<Data(h + 1), Pos(2 * h)>>
           p == LogPrefix(2 * h)
<1>1. h + 1 \in Nat /\ 2 * h \in Nat /\ 2 * (h + 1) \in Nat
  OBVIOUS
<1>2. c \in Seq(Cell) /\ Len(c) = 2 /\ c[1] = Data(h + 1) /\ c[2] = Pos(2 * h)
  BY <1>1, CellFacts
<1>3. p \in Seq(Cell) /\ Len(p) = 2 * h /\ \A i \in 1 .. 2 * h : p[i] = LogCell(i)
  BY <1>1, PrefixFacts
<1> HIDE DEF c, p
<1>4. f \o b = p
  BY DEF p
<1>5. Len(f) + Len(b) = 2 * h
  BY <1>3, <1>4, ConcatProperties
<1>6. b \o c \in Seq(Cell)
  BY <1>2, ConcatProperties
<1>7. f \o (b \o c) = p \o c
  <2>1. c \in Seq(Cell)
    BY <1>2
  <2>2. (f \o b) \o c = f \o (b \o c)
    BY <2>1, Associative
  <2> QED BY <1>4, <2>2, Zenon
<1> DEFINE N == 2 * h
<1>8. N \in Nat /\ 2 * (h + 1) = N + 2 /\ LogCell(N + 1) = Data(h + 1) /\ LogCell(N + 2) = Pos(2 * h)
  BY LogCellFacts
<1>9. Len(p) = N /\ \A i \in 1 .. N : p[i] = LogCell(i)
  BY <1>3
<1> HIDE DEF N
<1>10. /\ p \o c \in Seq(Cell) /\ Len(p \o c) = N + 2
       /\ \A i \in 1 .. N + 2 : (p \o c)[i] = LogCell(i)
  <2>1. /\ p \o c \in Seq(Cell) /\ Len(p \o c) = N + 2
        /\ \A i \in 1 .. N + 2 : (p \o c)[i] = IF i <= N THEN p[i] ELSE c[i - N]
    <3>1. p \in Seq(Cell) /\ c \in Seq(Cell) /\ Len(p) = N /\ Len(c) = 2
      BY <1>2, <1>3, <1>9
    <3>2. /\ p \o c \in Seq(Cell) /\ Len(p \o c) = Len(p) + Len(c)
          /\ \A i \in 1 .. Len(p) + Len(c) : (p \o c)[i] = IF i <= Len(p) THEN p[i] ELSE c[i - Len(p)]
      BY <3>1, ConcatProperties, Zenon
    <3> QED BY <3>1, <3>2
  <2>2. \A i \in 1 .. N + 2 : i \in 1 .. N \/ i = N + 1 \/ i = N + 2
    BY <1>8
  <2>3. (N + 1) - N = 1 /\ (N + 2) - N = 2 /\ ~(N + 1 <= N) /\ ~(N + 2 <= N)
    BY <1>8
  <2>4. ASSUME NEW i \in 1 .. N + 2
        PROVE  (p \o c)[i] = LogCell(i)
    <3>1. CASE i \in 1 .. N
      BY <1>8, <1>9, <2>1, <3>1
    <3>2. CASE i = N + 1
      BY <1>2, <1>8, <2>1, <2>3, <3>2
    <3>3. CASE i = N + 2
      BY <1>2, <1>8, <2>1, <2>3, <3>3
    <3> QED BY <2>2, <3>1, <3>2, <3>3
  <2> QED BY <2>1, <2>4
<1>11. N + 2 \in Nat
  BY <1>8
<1>12. /\ LogPrefix(N + 2) \in Seq(Cell) /\ Len(LogPrefix(N + 2)) = N + 2
       /\ \A i \in 1 .. N + 2 : LogPrefix(N + 2)[i] = LogCell(i)
  BY <1>11, PrefixFacts
<1>13. p \o c = LogPrefix(N + 2)
  BY <1>10, <1>12, SameSeq
<1> QED BY <1>5, <1>6, <1>7, <1>8, <1>13 DEF c

LEMMA AppendKeepsBlocks ==
    ASSUME BlocksInv, AppendBlock
    PROVE  BlocksInv'
<1>1. /\ status = "open" /\ status' = status /\ OpenBlocks /\ StartBlocks <= flushed
      /\ UNCHANGED <<blockFile, indexFile, reads, flushed, crashes>>
      /\ blockWrite' = TRUE /\ indexWrite' = TRUE
  BY DEF BlocksInv, AppendBlock
<1>2. CASE IndexEnd = head
  <2>1. /\ blockBuf' = blockBuf \o <<Data(head + 1), Pos(BlockEnd)>>
        /\ indexBuf' = Append(indexBuf, Pos(BlockEnd)) /\ head' = head + 1
    BY <1>2 DEF AppendBlock
  <2>2. blockFile \o blockBuf = LogPrefix(2 * head) /\ head \in Nat
    BY <1>1, Types DEF OpenBlocks
  <2>3. /\ BlockEnd = 2 * head
        /\ blockBuf \o <<Data(head + 1), Pos(2 * head)>> \in Seq(Cell)
        /\ blockFile \o (blockBuf \o <<Data(head + 1), Pos(2 * head)>>) = LogPrefix(2 * (head + 1))
    <3>1. blockFile \in Seq(Cell) /\ blockBuf \in Seq(Cell)
      BY Types
    <3> QED BY <2>2, <3>1, AppendExtends DEF BlockEnd
  <2>4. 2 * head \in Nat /\ head + 1 \in Nat
    BY <2>2
  <2>5. indexBuf' \in Seq(Cell)
    BY <2>1, <2>3, <2>4, Types, CellFacts
  <2>6. TypeOK'
    BY <1>1, <2>1, <2>3, <2>4, <2>5, Types DEF TypeOK, reads
  <2>7. OpenBlocks'
    BY <1>1, <2>1, <2>3 DEF OpenBlocks
  <2> QED BY <1>1, <2>6, <2>7 DEF BlocksInv
<1>3. CASE IndexEnd # head
  <2>1. UNCHANGED <<blockBuf, indexBuf, head>>
    BY <1>3 DEF AppendBlock
  <2>2. TypeOK'
    BY <1>1, <2>1, Types DEF TypeOK, reads
  <2>3. OpenBlocks'
    BY <1>1, <2>1 DEF OpenBlocks
  <2> QED BY <1>1, <2>2, <2>3 DEF BlocksInv
<1> QED BY <1>2, <1>3

\* Writing a buffer out changes nothing of what a reader of the file finds.
LEMMA WriteOut ==
    ASSUME NEW f \in Seq(Cell), NEW b \in Seq(Cell)
    PROVE  /\ f \o b \in Seq(Cell) /\ (f \o b) \o << >> = f \o b /\ << >> \in Seq(Cell)
           /\ Len(f) <= Len(f \o b)
<1>1. f \o b \in Seq(Cell) /\ Len(f \o b) = Len(f) + Len(b) /\ Len(f) \in Nat /\ Len(b) \in Nat
  BY ConcatProperties
<1>2. Len(f) <= Len(f \o b)
  BY <1>1
<1>3. (f \o b) \o << >> = f \o b
  BY <1>1
<1> QED BY <1>1, <1>2, <1>3

LEMMA FlushKeepsBlocks ==
    ASSUME BlocksInv, Flush
    PROVE  BlocksInv'
<1>1. /\ status = "open" /\ status' = status /\ OpenBlocks /\ flushed' = head
      /\ blockFile' = blockFile \o blockBuf /\ blockBuf' = << >>
      /\ indexFile' = indexFile \o indexBuf /\ indexBuf' = << >>
      /\ UNCHANGED <<blockWrite, indexWrite, head, reads, crashes>>
  BY DEF BlocksInv, Flush, FlushBlocks, FlushIndex
<1>2. TypeOK'
  BY <1>1, Types, WriteOut DEF TypeOK, reads
<1>0. head \in Nat /\ 2 * head \in Nat /\ blockFile \in Seq(Cell) /\ blockBuf \in Seq(Cell)
  <2>1. head \in Nat /\ blockFile \in Seq(Cell) /\ blockBuf \in Seq(Cell)
    BY Types
  <2> QED BY <2>1
<1>3. blockFile' = LogPrefix(2 * head) /\ Len(LogPrefix(2 * head)) = 2 * head
  <2>1. Len(LogPrefix(2 * head)) = 2 * head
    BY <1>0, PrefixFacts
  <2> QED BY <1>1, <2>1 DEF OpenBlocks
<1>4. OpenBlocks'
  <2>1. blockFile' \o << >> = blockFile'
    BY <1>1, Types, WriteOut
  <2>2. 2 * head <= 2 * head
    BY <1>0
  <2> QED BY <1>1, <1>3, <2>1, <2>2 DEF OpenBlocks
<1>5. StartBlocks <= head
  <2> DEFINE l == Len(blockFile)
  <2>1. 2 * flushed <= l /\ l <= 2 * head /\ StartBlocks <= flushed
    <3>1. l <= Len(blockFile \o blockBuf)
      BY <1>0, WriteOut
    <3>2. StartBlocks <= flushed
      BY DEF BlocksInv
    <3> QED BY <1>1, <1>3, <3>1, <3>2 DEF OpenBlocks
  <2>2. l \in Nat /\ head \in Nat /\ flushed \in Nat /\ StartBlocks \in Nat
    BY Types
  <2> HIDE DEF l
  <2> QED BY <2>1, <2>2
<1> QED BY <1>1, <1>2, <1>4, <1>5 DEF BlocksInv


\* What a read does to the files: the index is written out, and the block file
\* is when the block has an entry.
LEMMA ReadFacts ==
    ASSUME BlocksInv, NEW n \in 1 .. MaxBlocks, ReadBlock(n)
    PROVE  /\ status = "open" /\ asked' = n
           /\ indexFile' = indexFile \o indexBuf /\ indexBuf' = << >> /\ indexWrite' = FALSE
           /\ \/ blockFile' = blockFile \o blockBuf /\ blockBuf' = << >> /\ blockWrite' = FALSE
              \/ UNCHANGED <<blockFile, blockBuf, blockWrite>>
           /\ got' = IF n \notin 1 .. head THEN 0
                     ELSE IF /\ Entry(n) <= Len(indexFile \o indexBuf)
                             /\ (blockFile \o blockBuf)[(indexFile \o indexBuf)[Entry(n)].val + 1]
                                   = Data(n)
                          THEN n ELSE -1
           /\ UNCHANGED <<head, status, flushed, crashes>>
BY DEF ReadBlock, FlushBlocks, FlushIndex

LEMMA ReadKeepsBlocks ==
    ASSUME BlocksInv, NEW n \in 1 .. MaxBlocks, ReadBlock(n)
    PROVE  BlocksInv'
<1>1. /\ status = "open" /\ OpenBlocks /\ StartBlocks <= flushed
      /\ UNCHANGED <<head, status, flushed, crashes>>
  BY ReadFacts DEF BlocksInv
<1>2. blockFile \in Seq(Cell) /\ blockBuf \in Seq(Cell) /\ indexFile \in Seq(Cell) /\ indexBuf \in Seq(Cell)
  BY Types
<1>3. indexFile' \in Seq(Cell) /\ indexBuf' \in Seq(Cell)
  BY <1>2, ReadFacts, WriteOut
<1>4. /\ blockFile' \in Seq(Cell) /\ blockBuf' \in Seq(Cell) /\ blockWrite' \in BOOLEAN
      /\ blockFile' \o blockBuf' = blockFile \o blockBuf
      /\ Len(blockFile) <= Len(blockFile')
  <2>1. CASE blockFile' = blockFile \o blockBuf /\ blockBuf' = << >> /\ blockWrite' = FALSE
    BY <1>2, <2>1, WriteOut
  <2>2. CASE UNCHANGED <<blockFile, blockBuf, blockWrite>>
    BY <1>2, <2>2, Types
  <2> QED BY <2>1, <2>2, ReadFacts
<1>5. got' \in Int /\ asked' \in Nat /\ indexWrite' \in BOOLEAN
  <2>1. n \in Nat /\ -1 \in Int /\ 0 \in Int /\ n \in Int
    BY LogAssumption
  <2>2. got' \in {0, n, -1} /\ asked' = n /\ indexWrite' = FALSE
    BY ReadFacts
  <2> QED BY <2>1, <2>2
<1>6. TypeOK'
  BY <1>1, <1>3, <1>4, <1>5, Types DEF TypeOK
<1>7. OpenBlocks'
  <2> DEFINE l == Len(blockFile)
             m == Len(blockFile')
  <2>1. l \in Nat /\ m \in Nat /\ l <= m /\ 2 * flushed <= l /\ flushed \in Nat
    <3>1. l \in Nat /\ m \in Nat
      BY <1>2, <1>4
    <3>2. flushed \in Nat
      BY Types
    <3> QED BY <1>1, <1>4, <3>1, <3>2 DEF OpenBlocks
  <2> HIDE DEF l, m
  <2>2. 2 * flushed <= m
    BY <2>1
  <2> QED BY <1>1, <1>4, <2>2 DEF OpenBlocks, m
<1> QED BY <1>1, <1>6, <1>7 DEF BlocksInv

\* What a crash leaves of the block file begins with all that was flushed.
LEMMA CrashLeaves ==
    ASSUME BlocksInv, Crash
    PROVE  /\ status = "open" /\ status' = "down" /\ crashes' = crashes + 1 /\ head' = 0
           /\ blockBuf' = << >> /\ indexBuf' = << >> /\ blockWrite' = FALSE /\ indexWrite' = FALSE
           /\ indexFile' \in Left(indexFile, indexBuf) /\ UNCHANGED <<reads, flushed>>
           /\ \E n \in Nat : /\ 2 * flushed <= n /\ n <= 2 * head
                             /\ CutAt(blockFile', LogPrefix(n))
<1>1. /\ status = "open" /\ status' = "down" /\ crashes' = crashes + 1 /\ head' = 0 /\ OpenBlocks
      /\ blockBuf' = << >> /\ indexBuf' = << >> /\ blockWrite' = FALSE /\ indexWrite' = FALSE
      /\ indexFile' \in Left(indexFile, indexBuf) /\ UNCHANGED <<reads, flushed>>
      /\ blockFile' \in Left(blockFile, blockBuf)
  BY DEF BlocksInv, Crash
<1>2. blockFile \in Seq(Cell) /\ blockBuf \in Seq(Cell) /\ head \in Nat /\ flushed \in Nat
  BY Types
<1> DEFINE l == Len(blockFile)
           N == 2 * head
<1>3. l \in Nat /\ N \in Nat /\ 2 * flushed <= l /\ blockFile \o blockBuf = LogPrefix(N)
  BY <1>1, <1>2 DEF OpenBlocks
<1>4. PICK n \in l .. N : CutAt(blockFile', LogPrefix(n))
  <2> HIDE DEF N
  <2> QED BY <1>1, <1>2, <1>3, LeftOfLog
<1> HIDE DEF l
<1>5. n \in Nat /\ 2 * flushed <= n /\ n <= 2 * head
  BY <1>2, <1>3
<1> QED BY <1>1, <1>4, <1>5

LEMMA CrashKeepsBlocks ==
    ASSUME BlocksInv, Crash
    PROVE  BlocksInv'
<1>1. PICK n \in Nat : 2 * flushed <= n /\ CutAt(blockFile', LogPrefix(n))
  BY CrashLeaves
<1>2. blockFile' \in Seq(Cell)
  BY <1>1, PrefixFacts, CutFacts
<1>3. indexFile' \in Seq(Cell)
  <2>1. indexFile \in Seq(Cell) /\ indexBuf \in Seq(Cell)
    BY Types
  <2>2. PICK k \in 0 .. Len(indexBuf) : CutAt(indexFile', indexFile \o SubSeq(indexBuf, 1, k))
    BY <2>1, CrashLeaves, LeftFacts
  <2>3. indexFile \o SubSeq(indexBuf, 1, k) \in Seq(Cell)
    BY <2>1, PartOfConcat
  <2> QED BY <2>2, <2>3, CutFacts
<1>4. /\ status' = "down" /\ crashes' \in Nat /\ head' = 0 /\ << >> \in Seq(Cell)
      /\ blockBuf' = << >> /\ indexBuf' = << >> /\ blockWrite' = FALSE /\ indexWrite' = FALSE
      /\ got' = got /\ asked' = asked /\ flushed' = flushed /\ StartBlocks <= flushed
  <2>1. /\ status' = "down" /\ crashes' = crashes + 1 /\ head' = 0
        /\ blockBuf' = << >> /\ indexBuf' = << >> /\ blockWrite' = FALSE /\ indexWrite' = FALSE
        /\ got' = got /\ asked' = asked /\ flushed' = flushed
    BY CrashLeaves DEF reads
  <2>2. crashes \in Nat
    BY Types
  <2>3. crashes' \in Nat
    BY <2>1, <2>2
  <2>4. StartBlocks <= flushed
    BY DEF BlocksInv
  <2> QED BY <2>1, <2>3, <2>4
<1>5. TypeOK'
  BY <1>2, <1>3, <1>4, Types DEF TypeOK
<1>6. ClosedBlocks'
  BY <1>1, <1>4 DEF ClosedBlocks
<1> QED BY <1>4, <1>5, <1>6 DEF BlocksInv

LEMMA StutterKeepsBlocks ==
    ASSUME BlocksInv, UNCHANGED vars
    PROVE  BlocksInv'
<1>1. /\ UNCHANGED <<blockFile, indexFile, blockBuf, indexBuf, blockWrite, indexWrite>>
      /\ UNCHANGED <<head, status, got, asked, flushed, crashes>>
  BY DEF vars, files, reads
<1>2. TypeOK'
  BY <1>1, Types DEF TypeOK
<1>3. status' = "open" => OpenBlocks'
  BY <1>1 DEF BlocksInv, OpenBlocks
<1>4. status' # "open" => ClosedBlocks'
  BY <1>1 DEF BlocksInv, ClosedBlocks
<1> QED BY <1>1, <1>2, <1>3, <1>4 DEF BlocksInv

LEMMA NextBlocks ==
    ASSUME BlocksInv, [Next]_vars
    PROVE  BlocksInv'
BY OpenKeepsBlocks, AppendKeepsBlocks, FlushKeepsBlocks, CrashKeepsBlocks, ReadKeepsBlocks,
   StutterKeepsBlocks DEF Next

\* The block file is what was appended up to some place, and what a flush has
\* completed for is in it, in every state.
THEOREM BlocksAreKept ==
    Spec => []BlocksInv
<1>1. Init => BlocksInv
  BY InitBlocks
<1>2. BlocksInv /\ [Next]_vars => BlocksInv'
  BY NextBlocks
<1> QED BY <1>1, <1>2, PTL DEF Spec


-----------------------------------------------------------------------------
(* The promise of the log.                                                 *)

\* open() reports the blocks that are in the file, or fails and changes nothing.
LEMMA OpenCount ==
    ASSUME BlocksInv, Open
    PROVE  UNCHANGED Log!vars
<1>1. status = "down" /\ blockFile' = blockFile /\ flushed' = flushed
  BY OpenFinds
<1>2. Complete' = Complete
  BY <1>1 DEF Complete
<1>3. CASE blockFile = << >> /\ status' = "open" /\ head' = 0
  <2>1. blockFile = LogPrefix(0)
    BY <1>3, PrefixFacts
  <2>2. Complete = 0 \div 2
    BY <2>1, CompleteFacts DEF Complete, CutAt
  <2>3. Complete = 0
    BY <2>2
  <2> QED BY <1>1, <1>3, <2>3 DEF Log!vars
<1>4. CASE status' = "failed"
  BY <1>1, <1>2, <1>4 DEF Log!vars
<1>5. ASSUME NEW k \in Nat, blockFile = LogPrefix(2 * k), status' = "open", head' = k
      PROVE  UNCHANGED Log!vars
  <2>1. 2 * k \in Nat /\ (2 * k) \div 2 = k
    OBVIOUS
  <2>2. Complete = (2 * k) \div 2
    BY <1>5, <2>1, CompleteFacts DEF Complete, CutAt
  <2>3. Complete = k
    BY <2>1, <2>2
  <2> QED BY <1>1, <1>5, <2>3 DEF Log!vars
<1> QED BY <1>3, <1>4, <1>5, OpenFinds

\* A crash loses blocks, none that a flush has completed for.
LEMMA CrashCount ==
    ASSUME BlocksInv, Crash
    PROVE  Log!Lose
<1>1. status = "open" /\ status' = "down" /\ flushed' = flushed
  BY CrashLeaves
<1>2. PICK n \in Nat : 2 * flushed <= n /\ n <= 2 * head /\ CutAt(blockFile', LogPrefix(n))
  BY CrashLeaves
<1>3. Complete' = n \div 2
  BY <1>2, CompleteFacts DEF Complete
<1>4. head \in Nat /\ flushed \in Nat
  BY Types
<1>5. n \div 2 \in flushed .. head
  BY <1>2, <1>4
<1> QED BY <1>1, <1>3, <1>5 DEF Log!Lose

\* The two files implement AppendLog: however appends, reads, flushes, crashes
\* and restarts follow each other, a restart finds the blocks up to some number
\* and none that was flushed is missing.
THEOREM LogImplementsAppendLog ==
    Spec => LogSpec
<1>1. Init => Log!Init
  <2> SUFFICES ASSUME Init
               PROVE  Log!Init
    OBVIOUS
  <2> DEFINE S == StartBlocks
  <2>1. S \in Nat /\ 2 * S \in Nat /\ (2 * S) \div 2 = S
    BY LogAssumption
  <2>2. blockFile = LogPrefix(2 * S) /\ status = "down" /\ flushed = S
    BY <2>1, WholeIsPrefix DEF Init
  <2>3. Complete = (2 * S) \div 2
    BY <2>1, <2>2, CompleteFacts DEF Complete, CutAt
  <2> QED BY <2>1, <2>2, <2>3 DEF Log!Init
<1>2. BlocksInv /\ [Next]_vars => [Log!Next]_(Log!vars)
  <2> SUFFICES ASSUME BlocksInv, [Next]_vars
               PROVE  [Log!Next]_(Log!vars)
    OBVIOUS
  <2>1. CASE Open
    BY <2>1, OpenCount
  <2>2. CASE AppendBlock
    <3>1. status = "open" /\ status' = "open" /\ flushed' = flushed
      BY <2>2 DEF AppendBlock
    <3>2. CASE IndexEnd = head
      <4>1. head' = head + 1
        BY <2>2, <3>2 DEF AppendBlock
      <4> QED BY <3>1, <4>1 DEF Log!Next, Log!Append
    <3>3. CASE IndexEnd # head
      <4>1. head' = head
        BY <2>2, <3>3 DEF AppendBlock
      <4> QED BY <3>1, <4>1 DEF Log!vars
    <3> QED BY <3>2, <3>3
  <2>3. CASE Flush
    BY <2>3 DEF Flush, Log!Next, Log!Flush
  <2>4. CASE Crash
    BY <2>4, CrashCount DEF Log!Next
  <2>5. ASSUME NEW n \in 1 .. MaxBlocks, ReadBlock(n)
        PROVE  UNCHANGED Log!vars
    BY <2>5, ReadFacts DEF Log!vars
  <2>6. CASE UNCHANGED vars
    <3>1. UNCHANGED <<blockFile, status, head, flushed>>
      BY <2>6 DEF vars, files
    <3>2. Complete' = Complete
      BY <3>1 DEF Complete
    <3> QED BY <3>1, <3>2 DEF Log!vars
  <2> QED BY <2>1, <2>2, <2>3, <2>4, <2>5, <2>6 DEF Next
<1> QED BY <1>1, <1>2, BlocksAreKept, PTL DEF Spec, LogSpec, Log!Spec


-----------------------------------------------------------------------------
(* The index, in a log that began with two blocks or more.  A log of one   *)
(* block ends with the position 0, at which construct_index() stops before *)
(* it has written anything.                                                *)

LEMMA InitIndex ==
    ASSUME Init, StartBlocks >= 2
    PROVE  IndexInv
<1>1. StartBlocks \in Nat /\ indexFile = WholeIndex(StartBlocks) /\ status = "down"
  BY LogAssumption DEF Init
<1>2. ClosedIndex
  BY <1>1 DEF ClosedIndex, CutAt
<1> QED BY <1>1, <1>2, InitBlocks DEF IndexInv

\* An index that ends as the block file does is whole.
LEMMA UpToDate ==
    ASSUME NEW k \in Nat, k > 0, NEW f, f # << >>, Last(f) = Pos(2 * (k - 1)),
           \E n \in Nat : CutAt(f, WholeIndex(n))
    PROVE  f = WholeIndex(k)
<1>1. PICK n \in Nat : CutAt(f, WholeIndex(n))
  OBVIOUS
<1>2. Last(f).kind = "pos" /\ Last(f).val = 2 * (k - 1)
  BY CellFacts
<1>3. f = WholeIndex(n)
  BY <1>1, <1>2, IndexFacts, CutFacts, CellFacts
<1>4. n > 0 /\ Len(f) = n
  BY <1>3, IndexFacts
<1>5. Last(f) = Pos(2 * (n - 1))
  <2>1. n \in 1 .. n
    BY <1>4
  <2> QED BY <1>3, <1>4, <2>1, IndexFacts DEF Last
<1>6. 2 * (n - 1) = 2 * (k - 1)
  BY <1>2, <1>5, CellFacts
<1>7. n = k
  BY <1>6
<1> QED BY <1>3, <1>7

LEMMA OpenKeepsIndex ==
    ASSUME IndexInv, Open
    PROVE  IndexInv'
<1>1. BlocksInv /\ BlocksInv' /\ StartBlocks >= 2 /\ status = "down" /\ ClosedIndex
  BY OpenKeepsBlocks DEF IndexInv, Open
<1>2. StartBlocks \in Nat /\ flushed \in Nat /\ StartBlocks <= flushed
  BY <1>1, Types DEF BlocksInv
<1>3. flushed >= 2
  BY <1>1, <1>2
<1>4. CASE status' = "failed" /\ UNCHANGED indexFile
  <2>1. ClosedIndex'
    BY <1>1, <1>4 DEF ClosedIndex
  <2> QED BY <1>1, <1>4, <2>1 DEF IndexInv
<1>5. ASSUME NEW k \in Nat, k > 0, flushed <= k, Last(blockFile) = Pos(2 * (k - 1)),
             status' = "open", head' = k, indexBuf = << >>,
             IF IndexUpToDate
             THEN indexWrite' = FALSE /\ UNCHANGED <<indexFile, indexBuf>>
             ELSE ConstructIndex
      PROVE  IndexInv'
  <2>1. k >= 2 /\ WholeIndex(k) \in Seq(Cell)
    BY <1>2, <1>3, <1>5, IndexFacts
  <2>2. CASE IndexUpToDate
    <3>1. indexFile # << >> /\ Last(indexFile) = Pos(2 * (k - 1))
      BY <1>5, <2>2 DEF IndexUpToDate
    <3>2. indexFile = WholeIndex(k)
      BY <1>1, <1>5, <3>1, UpToDate DEF ClosedIndex
    <3>3. indexFile' \o indexBuf' = WholeIndex(k)
      <4>1. WholeIndex(k) \o << >> = WholeIndex(k)
        BY <2>1
      <4> QED BY <1>5, <2>2, <3>2, <4>1
    <3> QED BY <1>1, <1>5, <3>3 DEF IndexInv, OpenIndex
  <2>3. CASE ~IndexUpToDate
    <3>1. Last(blockFile).val = 2 * (k - 1)
      BY <1>5, CellFacts
    <3>2. indexFile' = << >> /\ indexBuf' = WholeIndex(k)
      BY <1>5, <2>1, <2>3, <3>1, ScannedFacts DEF ConstructIndex
    <3>3. << >> \o WholeIndex(k) = WholeIndex(k)
      BY <2>1
    <3> QED BY <1>1, <1>5, <3>2, <3>3 DEF IndexInv, OpenIndex
  <2> QED BY <2>2, <2>3
<1>6. flushed # 0
  BY <1>2, <1>3
<1> QED BY <1>1, <1>4, <1>5, <1>6, OpenFinds

LEMMA AppendFacts ==
    ASSUME NEW f \in Seq(Cell), NEW b \in Seq(Cell), NEW x \in Cell
    PROVE  /\ f \o Append(b, x) = Append(f \o b, x)
           /\ Append(f, x) \in Seq(Cell) /\ Len(Append(f, x)) = Len(f) + 1
           /\ Append(f, x)[Len(f) + 1] = x
           /\ \A i \in 1 .. Len(f) : Append(f, x)[i] = f[i]
OBVIOUS

\* The entry of a new block goes behind that of the last one.
LEMMA EntryExtends ==
    ASSUME NEW f \in Seq(Cell), NEW b \in Seq(Cell), NEW h \in Nat, f \o b = WholeIndex(h)
    PROVE  /\ Len(f) + Len(b) = h
           /\ f \o Append(b, Pos(2 * h)) = WholeIndex(h + 1)
<1> DEFINE x == Pos(2 * h)
           w == WholeIndex(h)
           v == WholeIndex(h + 1)
<1>1. /\ x \in Cell /\ h + 1 \in Nat
  BY CellFacts
<1>2. /\ w \in Seq(Cell) /\ Len(w) = h /\ \A i \in 1 .. h : w[i] = Pos(2 * (i - 1))
  BY IndexFacts
<1>3. /\ v \in Seq(Cell) /\ Len(v) = h + 1 /\ \A i \in 1 .. h + 1 : v[i] = Pos(2 * (i - 1))
  BY <1>1, IndexFacts
<1>4. v[h + 1] = x
  <2>1. h + 1 \in 1 .. h + 1 /\ 2 * ((h + 1) - 1) = 2 * h
    OBVIOUS
  <2> QED BY <1>3, <2>1
<1> HIDE DEF x, w, v
<1>5. f \o b = w
  BY DEF w
<1>6. Len(f) + Len(b) = h
  BY <1>2, <1>5, ConcatProperties
<1>7. f \o Append(b, x) = Append(w, x)
  <2>1. f \o Append(b, x) = Append(f \o b, x)
    <3>1. x \in Cell
      BY <1>1
    <3> QED BY <3>1, AppendFacts, ZenonT(60)
  <2> QED BY <1>5, <2>1
<1>8. /\ Append(w, x) \in Seq(Cell) /\ Len(Append(w, x)) = h + 1 /\ Append(w, x)[h + 1] = x
      /\ \A i \in 1 .. h : Append(w, x)[i] = w[i]
  <2>1. w \in Seq(Cell) /\ x \in Cell /\ Len(w) = h
    BY <1>1, <1>2
  <2>2. /\ Append(w, x) \in Seq(Cell) /\ Len(Append(w, x)) = Len(w) + 1
        /\ Append(w, x)[Len(w) + 1] = x
        /\ \A i \in 1 .. Len(w) : Append(w, x)[i] = w[i]
    BY <2>1, AppendFacts, Zenon
  <2> QED BY <2>1, <2>2
<1>9. \A i \in 1 .. h + 1 : Append(w, x)[i] = v[i]
  <2>1. \A i \in 1 .. h + 1 : i \in 1 .. h \/ i = h + 1
    OBVIOUS
  <2> QED BY <1>2, <1>3, <1>4, <1>8, <2>1
<1>10. Append(w, x) = v
  BY <1>3, <1>8, <1>9, SameSeq
<1> QED BY <1>6, <1>7, <1>10 DEF x, v

LEMMA AppendKeepsIndex ==
    ASSUME IndexInv, AppendBlock
    PROVE  IndexInv'
<1>1. /\ BlocksInv /\ BlocksInv' /\ StartBlocks >= 2 /\ status = "open" /\ status' = "open"
      /\ indexFile' = indexFile /\ indexFile \o indexBuf = WholeIndex(head)
      /\ blockFile \o blockBuf = LogPrefix(2 * head)
  BY AppendKeepsBlocks DEF IndexInv, BlocksInv, AppendBlock, OpenIndex, OpenBlocks
<1>2. /\ indexFile \in Seq(Cell) /\ indexBuf \in Seq(Cell) /\ head \in Nat
      /\ blockFile \in Seq(Cell) /\ blockBuf \in Seq(Cell)
  BY <1>1, Types
<1>3. IndexEnd = head /\ indexFile \o Append(indexBuf, Pos(2 * head)) = WholeIndex(head + 1)
  <2>1. /\ indexFile \in Seq(Cell) /\ indexBuf \in Seq(Cell) /\ head \in Nat
        /\ indexFile \o indexBuf = WholeIndex(head)
    BY <1>1, <1>2
  <2>2. Len(indexFile) + Len(indexBuf) = head
    BY <2>1, EntryExtends
  <2>3. indexFile \o Append(indexBuf, Pos(2 * head)) = WholeIndex(head + 1)
    BY <2>1, EntryExtends
  <2> QED BY <2>2, <2>3 DEF IndexEnd
<1>4. BlockEnd = 2 * head
  BY <1>1, <1>2, AppendExtends DEF BlockEnd
<1>5. indexBuf' = Append(indexBuf, Pos(2 * head)) /\ head' = head + 1
  BY <1>3, <1>4 DEF AppendBlock
<1>6. OpenIndex'
  BY <1>1, <1>3, <1>5 DEF OpenIndex
<1> QED BY <1>1, <1>6 DEF IndexInv

LEMMA WrittenOutKeepsIndex ==
    ASSUME IndexInv, BlocksInv', status = "open", status' = "open", head' = head,
           indexFile' = indexFile \o indexBuf, indexBuf' = << >>
    PROVE  IndexInv'
<1>1. /\ StartBlocks >= 2 /\ indexFile \o indexBuf = WholeIndex(head)
      /\ indexFile \in Seq(Cell) /\ indexBuf \in Seq(Cell)
  BY Types DEF IndexInv, OpenIndex
<1>2. indexFile' \o indexBuf' = WholeIndex(head)
  BY <1>1, WriteOut
<1> QED BY <1>1, <1>2 DEF IndexInv, OpenIndex

LEMMA CrashKeepsIndex ==
    ASSUME IndexInv, Crash
    PROVE  IndexInv'
<1>1. /\ BlocksInv /\ BlocksInv' /\ StartBlocks >= 2
      /\ status' = "down" /\ indexFile' \in Left(indexFile, indexBuf)
      /\ indexFile \o indexBuf = WholeIndex(head)
  BY CrashKeepsBlocks, CrashLeaves DEF IndexInv, OpenIndex
<1>2. indexFile \in Seq(Cell) /\ indexBuf \in Seq(Cell) /\ head \in Nat
  BY <1>1, Types
<1>3. ClosedIndex'
  BY <1>1, <1>2, LeftOfIndex DEF ClosedIndex
<1> QED BY <1>1, <1>3 DEF IndexInv

LEMMA NextIndex ==
    ASSUME IndexInv, [Next]_vars
    PROVE  IndexInv'
<1>1. BlocksInv /\ BlocksInv'
  BY NextBlocks DEF IndexInv
<1>2. CASE Flush
  BY <1>1, <1>2, WrittenOutKeepsIndex DEF Flush, FlushIndex
<1>3. ASSUME NEW n \in 1 .. MaxBlocks, ReadBlock(n)
      PROVE  IndexInv'
  BY <1>1, <1>3, ReadFacts, WrittenOutKeepsIndex
<1>4. CASE UNCHANGED vars
  <2>1. UNCHANGED <<indexFile, indexBuf, head, status>>
    BY <1>4 DEF vars, files
  <2>2. StartBlocks >= 2 /\ IF status = "open" THEN OpenIndex ELSE ClosedIndex
    BY DEF IndexInv
  <2>3. CASE status = "open"
    <3>1. OpenIndex'
      BY <2>1, <2>2, <2>3 DEF OpenIndex
    <3> QED BY <1>1, <2>1, <2>2, <2>3, <3>1 DEF IndexInv
  <2>4. CASE status # "open"
    <3>1. ClosedIndex'
      BY <2>1, <2>2, <2>4 DEF ClosedIndex
    <3> QED BY <1>1, <2>1, <2>2, <2>4, <3>1 DEF IndexInv
  <2> QED BY <2>3, <2>4
<1> QED BY <1>2, <1>3, <1>4, OpenKeepsIndex, AppendKeepsIndex, CrashKeepsIndex DEF Next


\* The invariant of the index.
THEOREM IndexIsKept ==
    StartBlocks >= 2 /\ Spec => []IndexInv
<1>1. StartBlocks >= 2 /\ Init => IndexInv
  BY InitIndex
<1>2. IndexInv /\ [Next]_vars => IndexInv'
  BY NextIndex
<1> QED BY <1>1, <1>2, PTL DEF Spec

\* Whatever a crash left of the index, and of the block file, in an open log
\* the index lists the position of every block; and so append() never meets
\* an index that ends anywhere else.
THEOREM IndexMirrors ==
    StartBlocks >= 2 /\ Spec => []IndexMirrorsLog
<1>1. IndexInv => IndexMirrorsLog
  BY DEF IndexInv, OpenIndex, IndexMirrorsLog
<1> QED BY <1>1, IndexIsKept, PTL

\* A read by number finds every block up to the head, before and after any
\* number of crashes and changes of the streams' mode.
THEOREM ReadsFindBlocks ==
    StartBlocks >= 2 /\ Spec => ReadsFind
<1>1. ASSUME IndexInv, [Next]_vars, NEW n \in 1 .. head, ReadBlock(n)
      PROVE  got' = n
  <2> DEFINE index == indexFile \o indexBuf
             log == blockFile \o blockBuf
  <2>1. status = "open"
    BY <1>1 DEF ReadBlock
  <2>2. index = WholeIndex(head) /\ log = LogPrefix(2 * head) /\ head \in Nat
    BY <1>1, <2>1, Types DEF IndexInv, BlocksInv, OpenIndex, OpenBlocks
  <2>3. n \in Nat /\ n > 0 /\ n <= head
    BY <2>2
  <2>4. Len(index) = head /\ index[n] = Pos(2 * (n - 1))
    BY <2>2, IndexFacts
  <2>5. index[n].val = 2 * (n - 1)
    BY <2>4, CellFacts
  <2> DEFINE m == n - 1
  <2>6. m \in Nat /\ m + 1 = n /\ 2 * m + 1 \in 1 .. 2 * head /\ 2 * head \in Nat
    BY <2>2, <2>3
  <2>7. log[2 * m + 1] = LogCell(2 * m + 1)
    BY <2>2, <2>6, PrefixFacts
  <2>8. log[index[n].val + 1] = Data(n)
    BY <2>5, <2>6, <2>7, LogCellFacts
  <2>9. got' = IF n \notin 1 .. head THEN 0
               ELSE IF Entry(n) <= Len(index) /\ log[index[Entry(n)].val + 1] = Data(n)
                    THEN n ELSE -1
    BY <1>1 DEF ReadBlock
  <2> HIDE DEF index, log
  <2> QED BY <2>2, <2>3, <2>4, <2>8, <2>9 DEF Entry
<1>2. IndexInv /\ [Next]_vars => [\A n \in 1 .. head : ReadBlock(n) => got' = n]_vars
  BY <1>1
<1> QED BY <1>2, IndexIsKept, PTL DEF Spec, ReadsFind
=============================================================================
