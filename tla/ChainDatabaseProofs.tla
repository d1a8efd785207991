------------------------ MODULE ChainDatabaseProofs ------------------------
(***************************************************************************)
(* The chain database, for every tree of blocks, every order of delivery   *)
(* and every number of crashes: the undo stack follows the chain, the      *)
(* state is what a replay of the blocks below the head gives, what became  *)
(* irreversible stays, and a quorum made it so.                            *)
(*                                                                         *)
(* None of that depends on the fork database being right: a block is       *)
(* applied only on top of the head it names.  The second half is about the *)
(* fork database and the block log, which are right as long as behaviour   *)
(* is Orderly.                                                             *)
(***************************************************************************)
EXTENDS ChainDatabase, NumberFacts, FiniteSetTheorems, SequenceTheorems, TLAPS

SignedBlock == [prev : Nat, producer : Producer, fault : Fault, path : Seq(Nat)]

\* Each block on the way to a block has the beginning of that way as its own.
TreeInv ==
    /\ blocks \in Seq(SignedBlock)
    /\ \A b \in Block :
          /\ Prev(b) \in 0 .. b - 1
          /\ Path(b) = Append(Path(Prev(b)), b)
          /\ \A n \in 1 .. Num(b) :
                Path(b)[n] \in 1 .. b /\ Path(Path(b)[n]) = SubSeq(Path(b), 1, n)

\* What is said of the blocks below is said of a sequence of blocks bs, so that
\* it can be compared with what was said before a block was added.
PathIn(bs, b) == IF b = NoBlock THEN << >> ELSE bs[b].path
NumIn(bs, b) == Len(PathIn(bs, b))
AncIn(bs, b, n) == IF n = 0 THEN NoBlock ELSE PathIn(bs, b)[n]

PostIn(bs, c, b) ==
    LET conf == [c.conf EXCEPT ![bs[b].producer] = NumIn(bs, b)]
    IN  [head |-> b, conf |-> conf, lib |-> NewLib(c.lib, conf, NumIn(bs, b))]

\* r lists the states on the way to b.
Replays(bs, r, b) ==
    /\ r[0] = Genesis
    /\ \A n \in 1 .. NumIn(bs, b) : r[n] = PostIn(bs, r[n - 1], AncIn(bs, b, n))

\* The last irreversible block number before the voting starts.
EarlyLib(n) == IF n > NumBobservers THEN n - NumBobservers ELSE 0

\* A state of the chain: who confirmed what on the way to the head, that voting
\* set the last irreversible block only with a quorum, and that a replay of the
\* blocks leads to it.
StateIn(bs, s) ==
    /\ s.lib <= NumIn(bs, s.head)
    /\ \A w \in Producer :
          /\ s.conf[w] <= NumIn(bs, s.head)
          /\ s.conf[w] # 0 => bs[AncIn(bs, s.head, s.conf[w])].producer = w
    /\ NumIn(bs, s.head) < StartVoting => s.lib = EarlyLib(NumIn(bs, s.head))
    /\ s.lib >= StartVoting => Cardinality({w \in Producer : s.conf[w] < s.lib}) <= Offset
    /\ \E r : Replays(bs, r, s.head) /\ s = r[NumIn(bs, s.head)]

\* The open sessions u are the blocks above the last irreversible one, in order,
\* and the last irreversible block never moved back under them.
UndoIn(bs, c, u) ==
    /\ \A k \in 1 .. Len(u) :
          /\ u[k].revision = NumIn(bs, c.head) - Len(u) + k
          /\ u[k].revision > c.lib
          /\ u[k].state.head = AncIn(bs, c.head, u[k].revision - 1)
          /\ u[k].state.lib <= c.lib
          /\ StateIn(bs, u[k].state)
    /\ \A j, k \in 1 .. Len(u) : j <= k => u[j].state.lib <= u[k].state.lib

\* What a call in progress has in its hands.
CallOK ==
    /\ pc = "push" => call.block \in Block
    /\ pc \in {"pop", "popbad"} =>
          call.mode = "switch" /\ call.at \in 1 .. Len(call.first) /\ call.second # << >>
    /\ pc \in {"apply", "log"} =>
          \/ call.mode = "direct" /\ call.block \in Block
          \/ call.mode = "switch" /\ call.at \in 1 .. Len(call.first) /\ call.second # << >>
          \/ call.mode = "restore" /\ call.at \in 1 .. Len(call.second)
    /\ pc \in {"replay", "halted"} => log # << >> /\ undo = << >>

Inv ==
    /\ TreeInv
    /\ TypeOK
    /\ StateIn(blocks, chain)
    /\ UndoIn(blocks, chain, undo)
    /\ (Running \/ undo # << >>) => rev = HeadNum
    /\ CallOK

-----------------------------------------------------------------------------
(* The tree of blocks.                                                     *)

LEMMA PathType ==
    ASSUME TreeInv, NEW b \in Block \cup {NoBlock}
    PROVE  /\ Path(b) \in Seq(Nat)
           /\ Num(b) \in Nat
           /\ Num(b) = 0 <=> b = NoBlock
           /\ b # NoBlock => b \in Block
<1>1. CASE b = NoBlock
  BY <1>1 DEF Path, Num
<1>2. CASE b \in Block
  <2>1. b # NoBlock /\ blocks[b] \in SignedBlock
    BY <1>2 DEF TreeInv, Block, NoBlock
  <2>2. Path(b) \in Seq(Nat)
    BY <2>1 DEF Path, SignedBlock
  <2>3. Prev(b) \in Block \cup {NoBlock}
    <3>1. Prev(b) \in 0 .. b - 1 /\ b \in 1 .. Len(blocks) /\ Len(blocks) \in Nat
      BY <1>2 DEF TreeInv, Block
    <3> QED BY <3>1 DEF Block, NoBlock
  <2>4. Path(Prev(b)) \in Seq(Nat)
    <3>1. CASE Prev(b) = NoBlock
      BY <3>1 DEF Path
    <3>2. CASE Prev(b) \in Block
      <4>1. Prev(b) # NoBlock /\ blocks[Prev(b)] \in SignedBlock
        BY <3>2 DEF TreeInv, Block, NoBlock
      <4> QED BY <4>1 DEF Path, SignedBlock
    <3> QED BY <2>3, <3>1, <3>2
  <2>5. Path(b) = Append(Path(Prev(b)), b)
    BY <1>2 DEF TreeInv
  <2>6. Len(Path(b)) = Len(Path(Prev(b))) + 1 /\ Len(Path(Prev(b))) \in Nat
    BY <2>4, <2>5
  <2> QED BY <1>2, <2>1, <2>2, <2>6 DEF Num
<1> QED BY <1>1, <1>2

\* The predecessor of a block is one number below it, on the same way.
LEMMA PrevFacts ==
    ASSUME TreeInv, NEW b \in Block
    PROVE  /\ Prev(b) \in Block \cup {NoBlock}
           /\ Prev(b) < b
           /\ Num(b) = Num(Prev(b)) + 1
           /\ Path(b) = Append(Path(Prev(b)), b)
           /\ Anc(b, Num(b)) = b
           /\ \A m \in 0 .. Num(Prev(b)) : Anc(b, m) = Anc(Prev(b), m)
<1>1. Prev(b) \in Block \cup {NoBlock} /\ Prev(b) < b
  <2>1. Prev(b) \in 0 .. b - 1 /\ b \in 1 .. Len(blocks) /\ Len(blocks) \in Nat
    BY DEF TreeInv, Block
  <2> QED BY <2>1 DEF Block, NoBlock
<1>2. Path(b) = Append(Path(Prev(b)), b)
  BY DEF TreeInv
<1>3. Path(Prev(b)) \in Seq(Nat) /\ b \in Nat
  <2>1. b \in Nat
    BY DEF Block
  <2> QED BY <1>1, <2>1, PathType
<1>4. /\ Len(Path(b)) = Len(Path(Prev(b))) + 1 /\ Len(Path(Prev(b))) \in Nat
      /\ Path(b)[Len(Path(b))] = b
      /\ \A m \in 1 .. Len(Path(Prev(b))) : Path(b)[m] = Path(Prev(b))[m]
  BY <1>2, <1>3
<1>5. Num(b) = Num(Prev(b)) + 1 /\ Num(b) # 0 /\ Num(Prev(b)) \in Nat
  BY <1>4 DEF Num
<1>6. Anc(b, Num(b)) = b
  BY <1>4, <1>5 DEF Anc, Num
<1>7. ASSUME NEW m \in 0 .. Num(Prev(b))
      PROVE  Anc(b, m) = Anc(Prev(b), m)
  BY <1>4, <1>5 DEF Anc, Num
<1> QED BY <1>1, <1>2, <1>5, <1>6, <1>7

\* The ancestors of a block, and theirs.
LEMMA AncFacts ==
    ASSUME TreeInv, NEW b \in Block \cup {NoBlock}, NEW n \in 0 .. Num(b)
    PROVE  /\ Anc(b, n) \in Block \cup {NoBlock}
           /\ n # 0 => Anc(b, n) \in Block
           /\ Path(Anc(b, n)) = SubSeq(Path(b), 1, n)
           /\ Num(Anc(b, n)) = n
           /\ \A m \in 0 .. n : Anc(Anc(b, n), m) = Anc(b, m)
<1>1. Path(b) \in Seq(Nat) /\ Num(b) \in Nat /\ Num(b) = Len(Path(b)) /\ n \in Nat
  BY PathType DEF Num
<1>2. CASE n = 0
  <2>1. Anc(b, n) = NoBlock /\ Path(NoBlock) = << >>
    BY <1>2 DEF Anc, Path
  <2>2. SubSeq(Path(b), 1, 0) = << >>
    BY <1>1
  <2> QED BY <1>2, <2>1, <2>2 DEF Num, Anc
<1>3. CASE n # 0
  <2>1. b \in Block /\ n \in 1 .. Num(b)
    <3>1. b # NoBlock
      BY <1>1, <1>3, PathType
    <3> QED BY <1>1, <1>3, <3>1
  <2>2. /\ Anc(b, n) = Path(b)[n]
        /\ Path(b)[n] \in 1 .. b
        /\ Path(Anc(b, n)) = SubSeq(Path(b), 1, n)
    BY <1>3, <2>1 DEF TreeInv, Anc
  <2>3. Anc(b, n) \in Block
    BY <2>1, <2>2 DEF Block, TreeInv
  <2>4. /\ Len(SubSeq(Path(b), 1, n)) = n
        /\ \A m \in 1 .. n : SubSeq(Path(b), 1, n)[m] = Path(b)[m]
    BY <1>1, <2>1
  <2>5. \A m \in 0 .. n : Anc(Anc(b, n), m) = Anc(b, m)
    BY <1>1, <2>2, <2>4 DEF Anc
  <2> QED BY <2>2, <2>3, <2>4, <2>5 DEF Num
<1> QED BY <1>2, <1>3

\* A block that is signed changes nothing about the blocks that exist.
LEMMA SignKeepsTree ==
    ASSUME TreeInv, NEW p \in 0 .. Len(blocks), NEW w \in Producer, NEW f \in Fault, Sign(p, w, f)
    PROVE  /\ TreeInv'
           /\ Len(blocks') = Len(blocks) + 1
           /\ \A b \in Block : blocks'[b] = blocks[b]
<1> DEFINE N == Len(blocks)
           path(b) == IF b = NoBlock THEN << >> ELSE blocks'[b].path
           new == [prev |-> p, producer |-> w, fault |-> f, path |-> Append(Path(p), N + 1)]
<1>1. blocks \in Seq(SignedBlock) /\ N \in Nat /\ p \in Nat /\ p <= N
  BY DEF TreeInv
<1>2. blocks' = Append(blocks, new)
  BY DEF Sign
<1>3. p \in Block \cup {NoBlock}
  BY <1>1 DEF Block, NoBlock
<1>4. Path(p) \in Seq(Nat) /\ Num(p) \in Nat /\ Len(Path(p)) = Num(p)
  BY <1>3, PathType DEF Num
<1>5. new \in SignedBlock /\ new.prev = p /\ new.path = Append(Path(p), N + 1)
  BY <1>1, <1>4 DEF SignedBlock
<1> HIDE DEF new
<1>6. /\ blocks' \in Seq(SignedBlock)
      /\ Len(blocks') = N + 1
      /\ blocks'[N + 1] = new
      /\ \A b \in 1 .. N : blocks'[b] = blocks[b]
  BY <1>1, <1>2, <1>5
<1> HIDE DEF N
<1>7. /\ \A b \in 0 .. N : path(b) = Path(b)
      /\ \A b \in 1 .. N : blocks'[b].prev = Prev(b)
      /\ path(N + 1) = Append(Path(p), N + 1) /\ blocks'[N + 1].prev = p
  <2>1. \A b \in 0 .. N : b # 0 => b \in 1 .. N
    BY <1>1
  <2>2. N + 1 # 0
    BY <1>1
  <2> QED BY <1>5, <1>6, <2>1, <2>2 DEF Path, Prev, NoBlock
<1> HIDE DEF path
<1>8. ASSUME NEW b \in 1 .. N + 1
      PROVE  /\ blocks'[b].prev \in 0 .. b - 1
             /\ path(b) = Append(path(blocks'[b].prev), b)
             /\ \A n \in 1 .. Len(path(b)) :
                   /\ path(b)[n] \in 1 .. b
                   /\ path(path(b)[n]) = SubSeq(path(b), 1, n)
  <2>1. CASE b \in 1 .. N
    <3>1. b \in Block /\ b \in 0 .. N
      BY <1>1, <2>1 DEF Block, N
    <3>2. blocks'[b].prev = Prev(b) /\ Prev(b) \in 0 .. b - 1 /\ Prev(b) \in 0 .. N
      BY <1>1, <1>7, <2>1, <3>1 DEF TreeInv
    <3>3. path(b) = Path(b) /\ Len(path(b)) = Num(b) /\ path(Prev(b)) = Path(Prev(b))
      BY <1>7, <3>1, <3>2 DEF Num
    <3>4. ASSUME NEW n \in 1 .. Num(b)
          PROVE  Path(b)[n] \in 1 .. b /\ path(Path(b)[n]) = SubSeq(Path(b), 1, n)
      <4>1. Path(b)[n] \in 1 .. b /\ Path(Path(b)[n]) = SubSeq(Path(b), 1, n)
        BY <3>1 DEF TreeInv
      <4>2. Path(b)[n] \in 0 .. N
        BY <1>1, <2>1, <4>1
      <4> QED BY <1>7, <4>1, <4>2
    <3>5. Path(b) = Append(Path(Prev(b)), b)
      BY <3>1 DEF TreeInv
    <3>6. path(blocks'[b].prev) = path(Prev(b))
      BY <3>2
    <3> QED BY <3>2, <3>3, <3>4, <3>5, <3>6
  <2>2. CASE b = N + 1
    <3>1. blocks'[b].prev = p /\ p \in 0 .. b - 1
      BY <1>1, <1>7, <2>2
    <3>2. path(b) = Append(Path(p), b) /\ path(p) = Path(p) /\ Len(path(p)) = Num(p)
      BY <1>1, <1>4, <1>7, <2>2
    <3>3. /\ Len(path(b)) = Num(p) + 1 /\ b \in Nat
          /\ path(b)[Num(p) + 1] = b
          /\ \A n \in 1 .. Num(p) : path(b)[n] = Path(p)[n]
          /\ path(b) \in Seq(Nat) /\ Len(path(b)) = Num(p) + 1
      <4>1. b \in Nat
        BY <1>1, <2>2
      <4>2. /\ Len(Append(Path(p), b)) = Num(p) + 1
            /\ Append(Path(p), b)[Num(p) + 1] = b
            /\ \A n \in 1 .. Num(p) : Append(Path(p), b)[n] = Path(p)[n]
            /\ Append(Path(p), b) \in Seq(Nat)
        BY <1>4, <4>1
      <4> QED BY <3>2, <4>1, <4>2
    <3>4. ASSUME NEW n \in 1 .. Num(p) + 1
          PROVE  path(b)[n] \in 1 .. b /\ path(path(b)[n]) = SubSeq(path(b), 1, n)
      <4>1. CASE n = Num(p) + 1
        <5>1. SubSeq(path(b), 1, n) = path(b)
          BY <1>4, <3>3, <4>1
        <5>2. path(b)[n] = b /\ b \in 1 .. b
          BY <3>3, <4>1
        <5> QED BY <5>1, <5>2
      <4>2. CASE n \in 1 .. Num(p)
        <5>1. p \in Block /\ p \in 1 .. N
          <6>1. p # NoBlock
            BY <1>3, <1>4, <4>2, PathType
          <6> QED BY <1>3, <6>1 DEF Block, N
        <5>2. Path(p)[n] \in 1 .. p /\ Path(Path(p)[n]) = SubSeq(Path(p), 1, n)
          BY <4>2, <5>1 DEF TreeInv
        <5>3. Path(p)[n] \in 0 .. N /\ Path(p)[n] \in 1 .. b
          BY <1>1, <2>2, <5>1, <5>2
        <5>4. path(Path(p)[n]) = SubSeq(Path(p), 1, n)
          BY <1>7, <5>2, <5>3
        <5>5. SubSeq(Append(Path(p), b), 1, n) = SubSeq(Path(p), 1, n)
          <6>1. b \in Nat
            BY <3>3
          <6> QED BY <1>4, <4>2, <6>1
        <5>6. path(b)[n] = Path(p)[n]
          BY <3>3, <4>2
        <5> QED BY <3>2, <5>3, <5>4, <5>5, <5>6
      <4> QED BY <1>4, <4>1, <4>2
    <3>5. path(blocks'[b].prev) = path(p)
      BY <3>1
    <3> QED BY <3>1, <3>2, <3>3, <3>4, <3>5
  <2> QED BY <1>1, <2>1, <2>2
<1>9. TreeInv'
  BY <1>6, <1>8 DEF TreeInv, Block, Num, Prev, Path, path
<1> QED BY <1>6, <1>9 DEF Block, N

LEMMA SameIn ==
    ASSUME NEW b
    PROVE  /\ Path(b) = PathIn(blocks, b) /\ Num(b) = NumIn(blocks, b)
           /\ \A n : Anc(b, n) = AncIn(blocks, b, n)
           /\ \A c : Post(c, b) = PostIn(blocks, c, b)
<1>1. Path(b) = PathIn(blocks, b)
  BY DEF Path, PathIn
<1>2. Num(b) = NumIn(blocks, b)
  BY <1>1 DEF Num, NumIn
<1>3. \A n : Anc(b, n) = AncIn(blocks, b, n)
  BY <1>1 DEF Anc, AncIn
<1>4. \A c : Post(c, b) = PostIn(blocks, c, b)
  BY <1>2 DEF Post, PostIn
<1> QED BY <1>1, <1>2, <1>3, <1>4

\* bs has the blocks that exist, and perhaps more.
Extends(bs) == \A b \in Block : bs[b] = blocks[b]

\* More blocks do not change what is known about the ones that exist.
LEMMA MoreBlocks ==
    ASSUME TreeInv, NEW bs, Extends(bs), NEW b \in Block \cup {NoBlock}
    PROVE  /\ PathIn(bs, b) = PathIn(blocks, b) /\ NumIn(bs, b) = NumIn(blocks, b)
           /\ \A n : AncIn(bs, b, n) = AncIn(blocks, b, n)
           /\ b # NoBlock => \A c : PostIn(bs, c, b) = PostIn(blocks, c, b)
<1>1. PathIn(bs, b) = PathIn(blocks, b)
  BY PathType DEF PathIn, Extends
<1>2. NumIn(bs, b) = NumIn(blocks, b)
  BY <1>1 DEF NumIn
<1>3. \A n : AncIn(bs, b, n) = AncIn(blocks, b, n)
  BY <1>1 DEF AncIn
<1>4. b # NoBlock => \A c : PostIn(bs, c, b) = PostIn(blocks, c, b)
  BY <1>2, PathType DEF PostIn, Extends
<1> QED BY <1>1, <1>2, <1>3, <1>4

LEMMA StateStays ==
    ASSUME TreeInv, NEW bs, Extends(bs), NEW s \in State, StateIn(blocks, s)
    PROVE  StateIn(bs, s)
<1> DEFINE h == s.head
           N == NumIn(blocks, h)
<1>1. h \in Block \cup {NoBlock} /\ \A w \in Producer : s.conf[w] \in Nat
  BY DEF State
<1>2. N \in Nat /\ N = Num(h)
  BY <1>1, PathType, SameIn
<1>3. /\ NumIn(bs, h) = N
      /\ \A n : AncIn(bs, h, n) = AncIn(blocks, h, n)
  BY <1>1, MoreBlocks
<1>4. \A n \in 1 .. N : AncIn(blocks, h, n) \in Block
  BY <1>1, <1>2, AncFacts, SameIn
<1>5. \A n \in 1 .. N : /\ bs[AncIn(blocks, h, n)] = blocks[AncIn(blocks, h, n)]
                        /\ \A c : PostIn(bs, c, AncIn(blocks, h, n)) = PostIn(blocks, c, AncIn(blocks, h, n))
  <2> SUFFICES ASSUME NEW n \in 1 .. N
               PROVE  /\ bs[AncIn(blocks, h, n)] = blocks[AncIn(blocks, h, n)]
                      /\ \A c : PostIn(bs, c, AncIn(blocks, h, n)) = PostIn(blocks, c, AncIn(blocks, h, n))
    OBVIOUS
  <2>1. AncIn(blocks, h, n) \in Block /\ AncIn(blocks, h, n) # NoBlock
    BY <1>4 DEF Block, NoBlock
  <2> QED BY <2>1, MoreBlocks DEF Extends
<1> HIDE DEF h, N
<1>6. ASSUME NEW w \in Producer
      PROVE  /\ s.conf[w] <= NumIn(bs, h)
             /\ s.conf[w] # 0 => bs[AncIn(bs, h, s.conf[w])].producer = w
  <2>1. s.conf[w] <= N /\ (s.conf[w] # 0 => blocks[AncIn(blocks, h, s.conf[w])].producer = w)
    BY DEF StateIn, h, N
  <2>2. s.conf[w] # 0 => s.conf[w] \in 1 .. N
    BY <1>1, <1>2, <2>1
  <2> QED BY <1>3, <1>5, <2>1, <2>2
<1>7. PICK r : Replays(blocks, r, h) /\ s = r[N]
  BY DEF StateIn, h, N
<1>8. Replays(bs, r, h)
  BY <1>3, <1>5, <1>7 DEF Replays, N
<1>9. /\ s.lib <= N
      /\ N < StartVoting => s.lib = EarlyLib(N)
      /\ s.lib >= StartVoting => Cardinality({w \in Producer : s.conf[w] < s.lib}) <= Offset
  BY DEF StateIn, h, N
<1> QED BY <1>3, <1>6, <1>7, <1>8, <1>9 DEF StateIn, h

-----------------------------------------------------------------------------
(* The last irreversible block.                                            *)

LEMMA ChainConstants ==
    /\ IsFiniteSet(Producer) /\ NumBobservers \in Nat
    /\ StartVoting \in Nat /\ StartVoting > 0
    /\ IrreversiblePercent \in 1 .. 100 /\ MaxUndoHistory \in Nat
  BY ChainAssumption

\* The offset of the threshold leaves the threshold's share above it, and is
\* inside the vector that nth_element() works on.
LEMMA OffsetFacts ==
    /\ Cardinality(Producer) \in Nat /\ Offset \in Nat
    /\ 100 * Offset <= 100 * Cardinality(Producer) - IrreversiblePercent * Cardinality(Producer)
    /\ Producer # {} => Offset < Cardinality(Producer)
<1> DEFINE C == Cardinality(Producer)
           P == IrreversiblePercent
           x == (100 - P) * C
<1>1. C \in Nat /\ P \in 1 .. 100 /\ 100 - P \in Nat
  BY ChainConstants, FS_CardinalityType
<1>2. Producer # {} => C # 0
  BY ChainConstants, FS_EmptySet
<1> HIDE DEF C, P
<1>3. x \in Nat
  BY <1>1
<1>4. P * C \in Nat /\ x = 100 * C - P * C
  BY <1>1
<1>5. C # 0 => P * C >= 1
  <2> SUFFICES ASSUME C # 0 PROVE P * C >= 1
    OBVIOUS
  <2>1. P - 1 \in Nat /\ C >= 1 /\ P = (P - 1) + 1
    BY <1>1
  <2>2. (P - 1) * C \in Nat
    BY <1>1, <2>1
  <2>3. P * C = (P - 1) * C + C
    BY <1>1
  <2> QED BY <1>1, <2>1, <2>2, <2>3
<1> HIDE DEF x
<1>6. x \div 100 \in Nat /\ 100 * (x \div 100) <= x
  BY <1>3
<1>7. Offset = x \div 100
  BY DEF Offset, x, C, P
<1>8. Producer # {} => Offset < C
  <2> SUFFICES ASSUME Producer # {} PROVE x \div 100 < C
    BY <1>7
  <2> DEFINE q == x \div 100
             y == P * C
  <2>1. q \in Nat /\ 100 * q <= x /\ x = 100 * C - y /\ y >= 1 /\ y \in Nat
    BY <1>2, <1>4, <1>5, <1>6
  <2> HIDE DEF q, y
  <2>2. q < C
    BY <1>1, <2>1
  <2> QED BY <2>2 DEF q
<1> QED BY <1>1, <1>4, <1>6, <1>7, <1>8 DEF C, P

\* nth_element() finds its element.  top stands for the new block, which is the
\* most recent confirmation.
LEMMA NthFacts ==
    ASSUME NEW conf \in [Producer -> Nat], NEW top \in Producer,
           \A w \in Producer : conf[w] <= conf[top]
    PROVE  /\ Nth(conf, Offset) \in Nat
           /\ Nth(conf, Offset) <= conf[top]
           /\ Cardinality({w \in Producer : conf[w] < Nth(conf, Offset)}) <= Offset
<1> DEFINE V == {conf[w] : w \in Producer}
           Upto(v) == {w \in Producer : conf[w] <= v}
           Below(v) == {w \in Producer : conf[w] < v}
           Good(v) == Cardinality(Below(v)) <= Offset /\ Cardinality(Upto(v)) > Offset
           T == {v \in V : Cardinality(Upto(v)) > Offset}
<1>1. Offset \in Nat /\ Offset < Cardinality(Producer) /\ Cardinality(Producer) \in Nat
  BY OffsetFacts
<1>2. \A S \in SUBSET Producer : IsFiniteSet(S) /\ Cardinality(S) \in Nat
  BY ChainConstants, FS_Subset, FS_CardinalityType
<1>3. \A v : /\ Below(v) \in SUBSET Producer /\ Cardinality(Below(v)) \in Nat
             /\ Upto(v) \in SUBSET Producer /\ Cardinality(Upto(v)) \in Nat
  BY <1>2
<1>4. V \subseteq 0 .. conf[top] /\ conf[top] \in Nat /\ conf[top] \in V
  OBVIOUS
<1>5. Upto(conf[top]) = Producer
  OBVIOUS
<1>6. /\ \A v, w : w \in Upto(v) <=> w \in Producer /\ conf[w] <= v
      /\ \A v, w : w \in Below(v) <=> w \in Producer /\ conf[w] < v
      /\ \A x : x \in V <=> \E w \in Producer : x = conf[w]
  OBVIOUS
<1>7. Nth(conf, Offset) = CHOOSE x \in V : Good(x)
  BY DEF Nth
<1> HIDE DEF V, Upto, Below
<1>8. conf[top] \in T /\ T \subseteq Nat
  <2>1. V \subseteq Nat
    BY <1>4
  <2>2. Cardinality(Upto(conf[top])) > Offset
    BY <1>1, <1>5
  <2> QED BY <1>4, <2>1, <2>2, Zenon
<1>t. \A x : x \in T <=> x \in V /\ Cardinality(Upto(x)) > Offset
  OBVIOUS
<1> HIDE DEF T
<1>9. PICK v \in T : \A y \in T : v <= y
  BY <1>8, NatMin
<1>10. v \in V /\ v \in Nat /\ Cardinality(Upto(v)) > Offset
  BY <1>t, <1>8
<1>11. Cardinality(Below(v)) <= Offset
  <2>1. ASSUME Cardinality(Below(v)) > Offset
        PROVE  FALSE
    <3> DEFINE B == {conf[w] : w \in Below(v)}
    <3>1. Below(v) # {}
      BY <1>1, <2>1, FS_EmptySet
    <3>2. B \subseteq 0 .. conf[top] /\ B # {}
      BY <1>4, <1>6, <3>1
    <3>a. (\A w \in Below(v) : conf[w] \in B) /\ (\A y \in B : \E w \in Below(v) : y = conf[w])
      BY Zenon
    <3> HIDE DEF B
    <3>3. PICK u \in B : \A y \in B : y <= u
      BY <1>4, <3>2, NatMax
    <3>4. PICK o \in Below(v) : u = conf[o]
      BY <3>3, <3>a
    <3>5. \A w \in Below(v) : conf[w] <= u
      BY <3>3, <3>a, Zenon
    <3>6. u \in V /\ u \in Nat /\ u < v
      BY <1>4, <1>6, <1>10, <3>4
    <3>7. \A w : w \in Upto(u) <=> w \in Below(v)
      <4> TAKE w
      <4>1. w \in Producer => conf[w] \in Nat
        OBVIOUS
      <4> QED BY <1>6, <1>10, <3>5, <3>6, <4>1
    <3>8. Upto(u) = Below(v)
      BY <3>7
    <3>9. u \in T
      BY <1>t, <2>1, <3>6, <3>8
    <3>10. v <= u
      BY <1>9, <3>9
    <3> QED BY <1>10, <3>6, <3>10
  <2> QED BY <1>1, <1>3, <2>1
<1>12. v \in V /\ Good(v)
  BY <1>10, <1>11
<1> HIDE DEF Good
<1>13. Nth(conf, Offset) \in V /\ Good(Nth(conf, Offset))
  BY <1>7, <1>12
<1>14. Nth(conf, Offset) \in 0 .. conf[top]
  BY <1>4, <1>13
<1> QED BY <1>4, <1>13, <1>14 DEF Good, Below

\* _apply_block() leaves a state as it has to be, and never moves the last
\* irreversible block back.
LEMMA PostKeeps ==
    ASSUME TreeInv, NEW s \in State, StateIn(blocks, s), NEW b \in Block, Prev(b) = s.head
    PROVE  /\ Post(s, b) \in State
           /\ Post(s, b).head = b
           /\ s.lib <= Post(s, b).lib
           /\ StateIn(blocks, Post(s, b))
<1> DEFINE h == s.head
           N == Num(h)
           p == blocks[b].producer
           conf == [s.conf EXCEPT ![p] = N + 1]
           lib == NewLib(s.lib, conf, N + 1)
           t == Post(s, b)
<1>1. /\ h \in Block \cup {NoBlock} /\ s.lib \in Nat /\ s.conf \in [Producer -> Nat]
  BY DEF State
<1>2. N \in Nat /\ N = NumIn(blocks, h) /\ Num(b) = N + 1 /\ NumIn(blocks, b) = N + 1
  BY <1>1, PathType, PrevFacts, SameIn
<1>3. p \in Producer
  <2>1. blocks[b] \in SignedBlock
    BY DEF TreeInv, Block
  <2> QED BY <2>1 DEF SignedBlock
<1>4. t = [head |-> b, conf |-> conf, lib |-> lib]
  BY <1>2 DEF Post
<1>5. /\ t.head = b /\ t.conf = conf /\ t.lib = lib
  BY <1>4
<1>6. /\ s.lib <= N
      /\ \A w \in Producer : /\ s.conf[w] <= N
                             /\ s.conf[w] # 0 => blocks[AncIn(blocks, h, s.conf[w])].producer = w
      /\ N < StartVoting => s.lib = EarlyLib(N)
      /\ s.lib >= StartVoting => Cardinality({w \in Producer : s.conf[w] < s.lib}) <= Offset
  BY <1>2 DEF StateIn
<1>7. /\ conf \in [Producer -> Nat] /\ conf[p] = N + 1
      /\ \A w \in Producer : /\ w # p => conf[w] = s.conf[w]
                             /\ s.conf[w] <= conf[w] /\ conf[w] <= N + 1
                             /\ conf[w] \in Nat /\ s.conf[w] \in Nat
  BY <1>1, <1>2, <1>3, <1>6
<1> HIDE DEF conf
<1>8. /\ lib \in Nat /\ s.lib <= lib /\ lib <= N + 1
      /\ N + 1 < StartVoting => lib = EarlyLib(N + 1)
      /\ lib >= StartVoting => Cardinality({w \in Producer : conf[w] < lib}) <= Offset
  <2>1. CASE N + 1 < StartVoting
    <3>1. lib = IF N + 1 > NumBobservers THEN (N + 1) - NumBobservers ELSE s.lib
      BY <2>1, Zenon DEF NewLib
    <3>2. s.lib = IF N > NumBobservers THEN N - NumBobservers ELSE 0
      BY <1>2, <1>6, <2>1, ChainConstants DEF EarlyLib
    <3> HIDE DEF lib
    <3>3. lib \in Nat /\ s.lib <= lib /\ lib <= N + 1 /\ lib = EarlyLib(N + 1) /\ lib < StartVoting
      BY <1>1, <1>2, <2>1, <3>1, <3>2, ChainConstants DEF EarlyLib
    <3> QED BY <3>3, ChainConstants
  <2>2. CASE N + 1 >= StartVoting
    <3> DEFINE v == Nth(conf, Offset)
    <3>1. v \in Nat /\ v <= N + 1 /\ Cardinality({w \in Producer : conf[w] < v}) <= Offset
      <4>1. \A w \in Producer : conf[w] <= conf[p]
        BY <1>7, Zenon
      <4>2. v \in Nat /\ v <= conf[p] /\ Cardinality({w \in Producer : conf[w] < v}) <= Offset
        BY <1>3, <1>7, <4>1, NthFacts, Zenon
      <4> QED BY <1>7, <4>2
    <3>2. ~(N + 1 < StartVoting)
      BY <1>2, <2>2, ChainConstants
    <3>3. lib = IF v > s.lib THEN v ELSE s.lib
      BY <3>2 DEF NewLib
    <3> HIDE DEF v, lib
    <3>4. CASE v > s.lib
      BY <1>1, <3>1, <3>2, <3>3, <3>4
    <3>5. CASE ~(v > s.lib)
      <4>1. lib = s.lib
        BY <3>3, <3>5
      <4>2. ASSUME lib >= StartVoting
            PROVE  Cardinality({w \in Producer : conf[w] < lib}) <= Offset
        <5> DEFINE A == {w \in Producer : conf[w] < lib}
                   B == {w \in Producer : s.conf[w] < lib}
        <5>1. A \in SUBSET B
          BY <1>1, <1>7, <4>1
        <5>2. B \in SUBSET Producer
          OBVIOUS
        <5>3. Cardinality(B) <= Offset
          BY <1>6, <4>1, <4>2
        <5> HIDE DEF A, B
        <5>4. IsFiniteSet(B)
          BY <5>2, ChainConstants, FS_Subset
        <5>5. Cardinality(A) <= Cardinality(B) /\ Cardinality(A) \in Nat /\ Cardinality(B) \in Nat
          BY <5>1, <5>4, FS_Subset, FS_CardinalityType
        <5>6. Cardinality(A) <= Offset
          BY <5>3, <5>5, OffsetFacts
        <5> QED BY <5>6 DEF A
      <4> QED BY <1>1, <1>2, <1>6, <3>2, <4>1, <4>2
    <3> QED BY <3>4, <3>5
  <2> QED BY <1>2, <2>1, <2>2, ChainConstants
<1> HIDE DEF lib
<1>9. t \in State
  BY <1>4, <1>7, <1>8 DEF State
<1>10. ASSUME NEW w \in Producer
       PROVE  /\ conf[w] <= N + 1
              /\ conf[w] # 0 => blocks[AncIn(blocks, b, conf[w])].producer = w
  <2>1. CASE w = p
    <3>1. AncIn(blocks, b, N + 1) = b
      BY <1>2, PrevFacts, SameIn
    <3> QED BY <1>7, <2>1, <3>1
  <2>2. CASE w # p
    <3>1. conf[w] = s.conf[w] /\ conf[w] \in 0 .. N
      BY <1>2, <1>6, <1>7, <2>2
    <3>2. AncIn(blocks, b, conf[w]) = AncIn(blocks, h, conf[w])
      <4>1. Anc(b, conf[w]) = Anc(h, conf[w])
        BY <3>1, PrevFacts
      <4> QED BY <4>1, SameIn
    <3> QED BY <1>6, <1>7, <3>1, <3>2
  <2> QED BY <2>1, <2>2
<1>11. \E r : Replays(blocks, r, b) /\ t = r[N + 1]
  <2>1. PICK r : Replays(blocks, r, h) /\ s = r[N]
    BY <1>2 DEF StateIn
  <2> DEFINE q == [n \in 0 .. N + 1 |-> IF n = N + 1 THEN t ELSE r[n]]
  <2>2. /\ q[N + 1] = t /\ q[0] = Genesis
        /\ \A n \in 0 .. N : q[n] = r[n]
    BY <1>2, <2>1 DEF Replays
  <2>3. ASSUME NEW n \in 1 .. N + 1
        PROVE  q[n] = PostIn(blocks, q[n - 1], AncIn(blocks, b, n))
    <3>1. CASE n = N + 1
      <4>1. q[n - 1] = s
        BY <1>2, <2>1, <2>2, <3>1
      <4>2. AncIn(blocks, b, n) = b
        BY <1>2, <3>1, PrevFacts, SameIn
      <4> QED BY <2>2, <3>1, <4>1, <4>2, SameIn
    <3>2. CASE n \in 1 .. N
      <4>1. q[n] = r[n] /\ q[n - 1] = r[n - 1]
        BY <1>2, <2>2, <3>2
      <4>2. r[n] = PostIn(blocks, r[n - 1], AncIn(blocks, h, n))
        BY <1>2, <2>1, <3>2 DEF Replays
      <4>3. AncIn(blocks, b, n) = AncIn(blocks, h, n)
        <5>1. Anc(b, n) = Anc(h, n)
          BY <1>2, <3>2, PrevFacts
        <5> QED BY <5>1, SameIn
      <4> QED BY <4>1, <4>2, <4>3
    <3> QED BY <1>2, <3>1, <3>2
  <2>4. Replays(blocks, q, b)
    BY <1>2, <2>2, <2>3 DEF Replays
  <2> QED BY <2>2, <2>4
<1>12. StateIn(blocks, t)
  <2> HIDE DEF t
  <2> QED BY <1>2, <1>5, <1>8, <1>10, <1>11 DEF StateIn
<1> QED BY <1>5, <1>8, <1>9, <1>12

-----------------------------------------------------------------------------
(* The undo stack.                                                         *)

Session == [state : State, revision : Nat]

\* What a session is, with the operators of the current tree.
LEMMA SessionFacts ==
    ASSUME TreeInv, NEW c \in State, NEW u \in Seq(Session), UndoIn(blocks, c, u),
           NEW k \in 1 .. Len(u)
    PROVE  /\ u[k] \in Session /\ u[k].state \in State /\ StateIn(blocks, u[k].state)
           /\ u[k].revision = Num(c.head) - Len(u) + k
           /\ u[k].revision \in 1 .. Num(c.head)
           /\ u[k].revision - 1 >= c.lib
           /\ u[k].state.head = Anc(c.head, u[k].revision - 1)
           /\ Num(u[k].state.head) = u[k].revision - 1
           /\ u[k].state.lib <= c.lib
<1>1. u[k] \in Session /\ Len(u) \in Nat
  OBVIOUS
<1>2. u[k].state \in State /\ u[k].revision \in Nat
  BY <1>1 DEF Session
<1>3. c.head \in Block \cup {NoBlock} /\ c.lib \in Nat /\ Num(c.head) \in Nat
  BY PathType DEF State
<1>4. /\ u[k].revision = Num(c.head) - Len(u) + k
      /\ u[k].revision > c.lib
      /\ u[k].state.head = Anc(c.head, u[k].revision - 1)
      /\ u[k].state.lib <= c.lib
      /\ StateIn(blocks, u[k].state)
  BY SameIn DEF UndoIn
<1>5. u[k].revision \in 1 .. Num(c.head) /\ u[k].revision - 1 >= c.lib
      /\ u[k].revision - 1 \in 0 .. Num(c.head)
  <2> DEFINE r == u[k].revision
             n == Num(c.head)
             l == c.lib
             m == Len(u)
  <2>1. r \in Nat /\ n \in Nat /\ l \in Nat /\ m \in Nat /\ k \in 1 .. m /\ r = n - m + k /\ r > l
    BY <1>1, <1>2, <1>3, <1>4
  <2> HIDE DEF r, n, l, m
  <2>2. r \in 1 .. n /\ r - 1 >= l /\ r - 1 \in 0 .. n
    BY <2>1
  <2> QED BY <2>2 DEF r, n, l
<1>6. Num(u[k].state.head) = u[k].revision - 1
  BY <1>3, <1>4, <1>5, AncFacts
<1> QED BY <1>1, <1>2, <1>4, <1>5, <1>6

\* More blocks do not change it.
LEMMA UndoStays ==
    ASSUME TreeInv, NEW c \in State, NEW u \in Seq(Session), UndoIn(blocks, c, u),
           NEW bs, Extends(bs)
    PROVE  UndoIn(bs, c, u)
<1>1. c.head \in Block \cup {NoBlock}
  BY DEF State
<1>2. NumIn(bs, c.head) = NumIn(blocks, c.head)
      /\ \A n : AncIn(bs, c.head, n) = AncIn(blocks, c.head, n)
  BY <1>1, MoreBlocks
<1>3. \A k \in 1 .. Len(u) : StateIn(bs, u[k].state)
  BY SessionFacts, StateStays
<1> QED BY <1>2, <1>3 DEF UndoIn

\* undo() leads to the state before the head block.
LEMMA UndoPop ==
    ASSUME TreeInv, NEW c \in State, NEW u \in Seq(Session), UndoIn(blocks, c, u), u # << >>
    PROVE  /\ Last(u).state \in State /\ StateIn(blocks, Last(u).state)
           /\ Num(c.head) # 0
           /\ Last(u).state.head = Anc(c.head, Num(c.head) - 1)
           /\ Num(Last(u).state.head) = Num(c.head) - 1
           /\ c.lib <= Num(c.head) - 1
           /\ Front(u) \in Seq(Session)
           /\ UndoIn(blocks, Last(u).state, Front(u))
<1> DEFINE L == Len(u)
           N == Num(c.head)
           d == u[L].state
           f == SubSeq(u, 1, L - 1)
<1>1. L \in Nat /\ L \in 1 .. L
  BY EmptySeq
<1>2. c.head \in Block \cup {NoBlock} /\ c.lib \in Nat /\ N \in Nat
  BY PathType DEF State
<1>3. /\ d \in State /\ StateIn(blocks, d)
      /\ u[L].revision = N - L + L /\ u[L].revision \in 1 .. N /\ u[L].revision - 1 >= c.lib
      /\ d.head = Anc(c.head, u[L].revision - 1)
      /\ Num(d.head) = u[L].revision - 1
      /\ d.lib <= c.lib
  BY <1>1, SessionFacts
<1>4. u[L].revision = N /\ N # 0 /\ c.lib <= N - 1
  BY <1>1, <1>2, <1>3
<1>5. /\ f \in Seq(Session) /\ Len(f) = L - 1
      /\ \A k \in 1 .. L - 1 : f[k] = u[k] /\ k \in 1 .. L
  <2>1. 1 \in 1 .. L + 1 /\ L - 1 \in 1 - 1 .. L
    BY <1>1
  <2>2. /\ f \in Seq(Session) /\ Len(f) = L - 1 - 1 + 1
        /\ \A k \in 1 .. L - 1 - 1 + 1 : f[k] = u[1 + k - 1] /\ 1 + k - 1 \in 1 .. L
    BY <2>1, PartOfSeq, Zenon
  <2>3. L - 1 - 1 + 1 = L - 1 /\ \A k \in 1 .. L - 1 : 1 + k - 1 = k
    BY <1>1
  <2> QED BY <2>2, <2>3
<1>6. d.lib \in Nat
  BY <1>3 DEF State
<1> HIDE DEF L, N, d, f
<1>7. ASSUME NEW k \in 1 .. L - 1
      PROVE  /\ f[k].revision = Num(d.head) - (L - 1) + k
             /\ f[k].revision > d.lib
             /\ f[k].state.head = Anc(d.head, f[k].revision - 1)
             /\ f[k].state.lib <= d.lib
             /\ StateIn(blocks, f[k].state)
  <2>1. f[k] = u[k] /\ k \in 1 .. L
    BY <1>5
  <2>2. /\ StateIn(blocks, u[k].state)
        /\ u[k].revision = N - L + k /\ u[k].revision \in 1 .. N /\ u[k].revision - 1 >= c.lib
        /\ u[k].state.head = Anc(c.head, u[k].revision - 1)
    BY <2>1, SessionFacts DEF L, N
  <2>3. u[k].state.lib <= d.lib
    BY <1>1, <2>1 DEF UndoIn, L, d
  <2>4. u[k].revision - 1 \in 0 .. N - 1 /\ u[k].revision > d.lib
    <3> DEFINE r == u[k].revision
               l == c.lib
               e == d.lib
    <3>1. r \in 1 .. N /\ r - 1 >= l /\ e <= l /\ N \in Nat /\ l \in Nat /\ e \in Nat
      BY <1>2, <1>3, <1>6, <2>2
    <3> HIDE DEF r, l, e
    <3>2. r - 1 \in 0 .. N - 1 /\ r > e
      BY <3>1
    <3> QED BY <3>2 DEF r, e
  <2>5. Anc(d.head, u[k].revision - 1) = Anc(c.head, u[k].revision - 1)
    <3>1. d.head = Anc(c.head, N - 1) /\ N - 1 \in 0 .. Num(c.head)
      BY <1>2, <1>3, <1>4 DEF N
    <3> QED BY <1>2, <2>4, <3>1, AncFacts
  <2>6. u[k].revision = Num(d.head) - (L - 1) + k
    BY <1>1, <1>2, <1>3, <1>4, <2>2
  <2> QED BY <2>1, <2>2, <2>3, <2>4, <2>5, <2>6
<1>8. \A j, k \in 1 .. L - 1 : j <= k => f[j].state.lib <= f[k].state.lib
  BY <1>5 DEF UndoIn, L
<1>9. UndoIn(blocks, d, f)
  BY <1>5, <1>7, <1>8, SameIn DEF UndoIn
<1>10. Last(u) = u[L] /\ Front(u) = f
  BY DEF Last, Front, L, f
<1> QED BY <1>3, <1>4, <1>5, <1>9, <1>10 DEF N, d

\* A new session for a block, and the commit of the sessions of the blocks that
\* it made irreversible, leave exactly the reversible blocks on the stack.
LEMMA UndoPush ==
    ASSUME TreeInv, NEW c \in State, StateIn(blocks, c),
           NEW u \in Seq(Session), UndoIn(blocks, c, u),
           NEW b \in Block, Prev(b) = c.head, NEW v,
           Committed(Append(u, [state |-> c, revision |-> Num(c.head) + 1]), Post(c, b).lib, v)
    PROVE  v \in Seq(Session) /\ UndoIn(blocks, Post(c, b), v)
<1> DEFINE N == Num(c.head)
           e == [state |-> c, revision |-> N + 1]
           t == Append(u, e)
           L == Len(u) + 1
           p == Post(c, b)
<1>1. c.head \in Block \cup {NoBlock} /\ c.lib \in Nat /\ N \in Nat /\ L \in Nat /\ Len(u) \in Nat
  BY PathType DEF State
<1>2. p \in State /\ p.head = b /\ c.lib <= p.lib /\ p.lib \in Nat
  BY PostKeeps DEF State
<1>3. Num(b) = N + 1 /\ \A m \in 0 .. N : Anc(b, m) = Anc(c.head, m)
  BY PrevFacts
<1>4. Anc(c.head, N) = c.head
  <2>1. CASE c.head = NoBlock
    BY <2>1, PathType DEF Anc
  <2>2. CASE c.head # NoBlock
    BY <1>1, <2>2, PrevFacts
  <2> QED BY <2>1, <2>2
<1>5. e \in Session /\ e.state = c /\ e.revision = N + 1
  BY <1>1 DEF Session
<1> HIDE DEF e
<1>6. /\ t \in Seq(Session) /\ Len(t) = L /\ t[L] = e
      /\ \A k \in 1 .. Len(u) : t[k] = u[k]
  BY <1>1, <1>5
<1>7. PICK m \in 0 .. L :
          /\ \A i \in 1 .. m : t[i].revision <= p.lib
          /\ m < L => t[m + 1].revision > p.lib
          /\ v = SubSeq(t, m + 1, L)
  BY <1>6 DEF Committed, e
<1> HIDE DEF N, t, L, p
<1>8. ASSUME NEW k \in 1 .. L
      PROVE  /\ t[k].revision = N + 1 - L + k
             /\ t[k].revision \in 1 .. N + 1
             /\ t[k].state.head = Anc(b, t[k].revision - 1)
             /\ t[k].state.lib <= p.lib /\ t[k].state.lib \in Nat
             /\ StateIn(blocks, t[k].state)
             /\ t[k].state.lib <= c.lib
  <2>1. CASE k = L
    <3>1. t[k].revision = N + 1 /\ t[k].state = c
      BY <1>5, <1>6, <2>1
    <3>2. N + 1 = N + 1 - L + k /\ N + 1 \in 1 .. N + 1 /\ (N + 1) - 1 = N
      BY <1>1, <2>1
    <3>3. c.head = Anc(b, N)
      BY <1>1, <1>3, <1>4
    <3>4. c.lib <= c.lib
      BY <1>1
    <3> QED BY <1>1, <1>2, <3>1, <3>2, <3>3, <3>4, Zenon
  <2>2. CASE k \in 1 .. Len(u)
    <3>1. t[k] = u[k]
      BY <1>6, <2>2
    <3>2. /\ StateIn(blocks, u[k].state) /\ u[k].state \in State
          /\ u[k].revision = N - Len(u) + k
          /\ u[k].revision \in 1 .. N
          /\ u[k].state.head = Anc(c.head, u[k].revision - 1)
          /\ u[k].state.lib <= c.lib
      BY <2>2, SessionFacts DEF N
    <3>3. u[k].state.lib \in Nat
      BY <3>2 DEF State
    <3>4. u[k].state.lib <= p.lib
      <4> DEFINE x == u[k].state.lib
                 y == c.lib
                 z == p.lib
      <4>1. x \in Nat /\ y \in Nat /\ z \in Nat /\ x <= y /\ y <= z
        BY <1>1, <1>2, <3>2, <3>3
      <4> HIDE DEF x, y, z
      <4>2. x <= z
        BY <4>1
      <4> QED BY <4>2 DEF x, z
    <3>5. N - Len(u) + k = N + 1 - L + k
      BY <1>1, <2>2 DEF L
    <3>6. u[k].revision - 1 \in 0 .. N /\ u[k].revision \in 1 .. N + 1
      BY <1>1, <3>2
    <3> QED BY <1>3, <3>1, <3>2, <3>3, <3>4, <3>5, <3>6
  <2> QED BY <1>1, <2>1, <2>2 DEF L
<1>9. \A j, k \in 1 .. L : j <= k => t[j].state.lib <= t[k].state.lib
  <2> SUFFICES ASSUME NEW j \in 1 .. L, NEW k \in 1 .. L, j <= k
               PROVE  t[j].state.lib <= t[k].state.lib
    OBVIOUS
  <2>1. CASE k = L
    <3>1. t[k].state = c
      BY <1>5, <1>6, <2>1
    <3> QED BY <1>8, <3>1
  <2>2. CASE k \in 1 .. Len(u)
    <3>1. j \in 1 .. Len(u)
      BY <1>1, <2>2
    <3> QED BY <1>6, <2>2, <3>1 DEF UndoIn
  <2> QED BY <1>1, <2>1, <2>2 DEF L
<1>10. /\ v \in Seq(Session) /\ Len(v) = L - m
       /\ \A k \in 1 .. L - m : v[k] = t[m + k] /\ m + k \in 1 .. L
  <2>1. m + 1 \in 1 .. L + 1 /\ L \in m + 1 - 1 .. L
    BY <1>1
  <2>2. /\ v \in Seq(Session) /\ Len(v) = L - (m + 1) + 1
        /\ \A k \in 1 .. L - (m + 1) + 1 : v[k] = t[(m + 1) + k - 1] /\ (m + 1) + k - 1 \in 1 .. L
    BY <1>6, <1>7, <2>1, PartOfSeq
  <2>3. L - (m + 1) + 1 = L - m /\ \A k \in 1 .. L - m : (m + 1) + k - 1 = m + k
    BY <1>1
  <2> QED BY <2>2, <2>3
<1>11. ASSUME NEW k \in 1 .. L - m
       PROVE  /\ v[k].revision = Num(b) - (L - m) + k
              /\ v[k].revision > p.lib
              /\ v[k].state.head = Anc(b, v[k].revision - 1)
              /\ v[k].state.lib <= p.lib
              /\ StateIn(blocks, v[k].state)
  <2>1. v[k] = t[m + k] /\ m + k \in 1 .. L /\ m + 1 \in 1 .. L /\ m < L
    BY <1>1, <1>10
  <2>2. t[m + k].revision = N + 1 - L + (m + k) /\ t[m + 1].revision = N + 1 - L + (m + 1)
    BY <1>8, <2>1
  <2>3. t[m + 1].revision > p.lib
    BY <1>7, <2>1
  <2>4. N + 1 - L + (m + k) > p.lib
    <3> DEFINE z == p.lib
    <3>1. N + 1 - L + (m + 1) > z /\ z \in Nat
      BY <1>2, <2>2, <2>3
    <3> HIDE DEF z
    <3>2. N + 1 - L + (m + k) > z
      BY <1>1, <3>1
    <3> QED BY <3>2 DEF z
  <2>5. N + 1 - L + (m + k) = Num(b) - (L - m) + k
    BY <1>1, <1>3
  <2> QED BY <1>8, <2>1, <2>2, <2>4, <2>5
<1>12. \A j, k \in 1 .. L - m : j <= k => v[j].state.lib <= v[k].state.lib
  <2> SUFFICES ASSUME NEW j \in 1 .. L - m, NEW k \in 1 .. L - m, j <= k
               PROVE  v[j].state.lib <= v[k].state.lib
    OBVIOUS
  <2>1. m + j \in 1 .. L /\ m + k \in 1 .. L /\ m + j <= m + k
    BY <1>1
  <2> QED BY <1>9, <1>10, <2>1
<1>13. UndoIn(blocks, p, v)
  BY <1>2, <1>10, <1>11, <1>12, SameIn DEF UndoIn
<1> QED BY <1>10, <1>13 DEF p

-----------------------------------------------------------------------------
(* The fork database holds blocks that exist.                              *)

LEMMA SweepType ==
    ASSUME NEW f \in ForkDb, NEW held \in SUBSET Block
    PROVE  Sweep(f, held) \in ForkDb /\ Sweep(f, held).head = f.head
<1> DEFINE alive == f.index \cup held \cup {f.head}
           cut(b) == Prev(b) = NoBlock \/ Prev(b) \notin alive
           x == {b \in f.index \cup held : b \in f.expired \/ cut(b)}
           y == f.head = NoBlock \/ f.headCut \/ cut(f.head)
<1>1. x \in SUBSET Block
  BY DEF ForkDb
<1>2. y \in BOOLEAN
  OBVIOUS
<1>3. Sweep(f, held) = [f EXCEPT !.expired = x, !.headCut = y]
  BY DEF Sweep
<1> HIDE DEF x, y
<1> QED BY <1>1, <1>2, <1>3 DEF ForkDb

LEMMA WithHeadType ==
    ASSUME NEW f \in ForkDb, NEW b \in Block \cup {NoBlock}
    PROVE  WithHead(f, b) \in ForkDb /\ WithHead(f, b).head = b
<1>1. (b \in f.expired) \in BOOLEAN
  OBVIOUS
<1> QED BY <1>1 DEF WithHead, ForkDb

\* What each operation of the fork database leaves.
LEMMA ForkDbTypes ==
    ASSUME TreeInv, NEW f \in ForkDb, NEW held \in SUBSET Block
    PROVE  /\ EmptyForkDb \in ForkDb
           /\ \A b \in Block : /\ PushItem(f, b) \in ForkDb /\ PushItem(f, b).head \in Block
                               /\ SetHead(f, b, held) \in ForkDb
                               /\ StartBlock(f, b) \in ForkDb
           /\ CanPop(f) => PopHead(f, held) \in ForkDb
           /\ \A bs : RemoveAll(f, bs, held) \in ForkDb
           /\ \A s \in Nat : SetMaxSize(f, s, held) \in ForkDb
<1>1. EmptyForkDb \in ForkDb
  BY ForkDbAssumption DEF EmptyForkDb, ForkDb
<1>2. {} \in SUBSET Block
  OBVIOUS
<1>3. ASSUME NEW b \in Block
      PROVE  PushItem(f, b) \in ForkDb /\ PushItem(f, b).head \in Block
  <2> DEFINE fresh == b \notin f.index
             wins == f.head = NoBlock \/ Num(b) > Num(f.head)
             i == f.index \cup {b}
             x == IF fresh THEN (f.expired \ {b}) \cup {c \in f.index : Prev(c) = b} ELSE f.expired
             h == IF wins THEN b ELSE f.head
             y == ~wins /\ f.headCut
             g == [f EXCEPT !.index = i, !.expired = x, !.head = h, !.headCut = y]
  <2>1. i \in SUBSET Block /\ x \in SUBSET Block
    BY DEF ForkDb
  <2>2. h \in Block
    BY DEF ForkDb
  <2>3. y \in BOOLEAN
    OBVIOUS
  <2>4. PushItem(f, b) = Sweep(g, {})
    BY DEF PushItem
  <2> HIDE DEF i, x, h, y
  <2>5. g \in ForkDb /\ g.head = h
    BY <2>1, <2>2, <2>3 DEF ForkDb
  <2> HIDE DEF g
  <2> QED BY <1>2, <2>2, <2>4, <2>5, SweepType
<1>4. ASSUME NEW b \in Block
      PROVE  SetHead(f, b, held) \in ForkDb
  BY WithHeadType, SweepType DEF SetHead
<1>5. ASSUME NEW b \in Block
      PROVE  StartBlock(f, b) \in ForkDb
  <2>1. [f EXCEPT !.index = {b}, !.head = b] \in ForkDb
    BY DEF ForkDb
  <2> QED BY <1>2, <2>1, SweepType DEF StartBlock
<1>6. ASSUME CanPop(f)
      PROVE  PopHead(f, held) \in ForkDb
  <2>1. f.head \in Block
    BY <1>6 DEF CanPop, ForkDb
  <2>2. Prev(f.head) \in Block \cup {NoBlock}
    BY <2>1, PrevFacts
  <2> QED BY <2>2, WithHeadType, SweepType DEF PopHead
<1>7. ASSUME NEW bs
      PROVE  RemoveAll(f, bs, held) \in ForkDb
  <2>1. [f EXCEPT !.index = f.index \ bs] \in ForkDb
    BY DEF ForkDb
  <2> QED BY <2>1, SweepType DEF RemoveAll
<1>8. ASSUME NEW s \in Nat
      PROVE  SetMaxSize(f, s, held) \in ForkDb
  <2>1. [f EXCEPT !.maxSize = s] \in ForkDb
    BY DEF ForkDb
  <2> DEFINE i == {b \in f.index : Num(b) >= Num(f.head) - s}
  <2>2. i \in SUBSET Block
    BY DEF ForkDb
  <2>3. SetMaxSize(f, s, held) = IF f.head = NoBlock THEN [f EXCEPT !.maxSize = s]
                                 ELSE Sweep([f EXCEPT !.maxSize = s, !.index = i], held)
    BY DEF SetMaxSize
  <2> HIDE DEF i
  <2>4. [f EXCEPT !.maxSize = s, !.index = i] \in ForkDb
    BY <2>2 DEF ForkDb
  <2> QED BY <2>1, <2>3, <2>4, SweepType
<1> QED BY <1>1, <1>3, <1>4, <1>5, <1>6, <1>7, <1>8

\* fetch_branch_from() leaves at least the block it started from.
LEMMA BranchType ==
    ASSUME TreeInv, NEW a \in Block, NEW b \in Block \cup {NoBlock}
    PROVE  Branch(a, b) \in Seq(Block) /\ Len(Branch(a, b)) \in Nat /\ Len(Branch(a, b)) >= 1
<1> DEFINE N == Num(a)
           A == Apart(a, b)
           C == Cardinality(A)
<1>1. N \in Nat /\ N # 0
  BY PathType DEF Block, NoBlock
<1>2. N \in A /\ A \subseteq 1 .. N
  BY <1>1 DEF Apart
<1> HIDE DEF A
<1>3. IsFiniteSet(1 .. N) /\ Cardinality(1 .. N) = N
  BY <1>1, FS_Interval
<1>4. IsFiniteSet(A) /\ C <= N
  BY <1>2, <1>3, FS_Subset
<1>5. C \in Nat /\ C # 0
  BY <1>2, <1>4, FS_CardinalityType, FS_EmptySet
<1>6. Branch(a, b) = [i \in 1 .. C |-> Anc(a, N + 1 - i)]
  BY DEF Branch, A
<1> HIDE DEF C, N
<1>7. ASSUME NEW i \in 1 .. C
      PROVE  Anc(a, N + 1 - i) \in Block
  <2>1. N + 1 - i \in 0 .. Num(a) /\ N + 1 - i # 0
    BY <1>1, <1>4, <1>5 DEF N
  <2> QED BY <2>1, AncFacts
<1>8. Branch(a, b) \in Seq(Block) /\ Len(Branch(a, b)) = C
  BY <1>5, <1>6, <1>7
<1> QED BY <1>5, <1>8

-----------------------------------------------------------------------------
(* The block log.                                                          *)

\* fetch_block_on_main_branch_by_number() finds a block or nothing.
LEMMA FetchType ==
    ASSUME TreeInv, NEW f \in ForkDb, NEW n \in Nat
    PROVE  FetchOnMainBranch(f, n) \in Block \cup {NoBlock}
<1> DEFINE same == {b \in f.index : Num(b) = n}
           lost == n < Num(f.head) /\
                   (f.headCut \/ \E m \in n + 1 .. Num(f.head) - 1 : Anc(f.head, m) \in f.expired)
<1>1. f.index \subseteq Block /\ f.head \in Block \cup {NoBlock}
  BY DEF ForkDb
<1>2. Num(f.head) \in Nat
  BY <1>1, PathType
<1>3. FetchOnMainBranch(f, n) = IF Cardinality(same) = 1 THEN CHOOSE b \in same : TRUE
                                ELSE IF same = {} \/ n > Num(f.head) \/ lost THEN NoBlock
                                ELSE Anc(f.head, n)
  BY DEF FetchOnMainBranch
<1>4. same \subseteq Block
  BY <1>1
<1> HIDE DEF same, lost
<1>5. CASE Cardinality(same) = 1
  <2>1. same # {}
    BY <1>5, FS_EmptySet
  <2>2. (CHOOSE b \in same : TRUE) \in same
    BY <2>1
  <2> QED BY <1>3, <1>4, <1>5, <2>2
<1>6. CASE Cardinality(same) # 1 /\ (same = {} \/ n > Num(f.head) \/ lost)
  BY <1>3, <1>6
<1>7. CASE Cardinality(same) # 1 /\ ~(same = {} \/ n > Num(f.head) \/ lost)
  <2>1. n \in 0 .. Num(f.head)
    BY <1>2, <1>7
  <2>2. FetchOnMainBranch(f, n) = Anc(f.head, n)
    BY <1>3, <1>7
  <2> QED BY <1>1, <2>1, <2>2, AncFacts
<1> QED BY <1>5, <1>6, <1>7

\* The blocks before the first that is not found are the first ones, and they
\* are blocks: whatever part of them is appended, the log holds blocks.
LEMMA LogType ==
    ASSUME TreeInv, fdb \in ForkDb, chain \in State, log \in Seq(Block)
    PROVE  /\ AllFound => log \o ToLog \in Seq(Block)
           /\ \A k \in Found : log \o SubSeq(ToLog, 1, k) \in Seq(Block)
           /\ log \o SubSeq(ToLog, 1, Cardinality(Found)) \in Seq(Block)
<1> DEFINE d == chain.lib - Len(log)
           n == IF d > 0 THEN d ELSE 0
           C == Cardinality(Found)
<1>1. chain.lib \in Nat /\ Len(log) \in Nat /\ d \in Int /\ n \in Nat
  BY DEF State
<1>2. 1 .. d = 1 .. n
  BY <1>1
<1>3. ToLog = [i \in 1 .. n |-> FetchOnMainBranch(fdb, Len(log) + i)]
  BY <1>2 DEF ToLog
<1> HIDE DEF d, n
<1>4. \A i \in 1 .. n : ToLog[i] \in Block \cup {NoBlock}
  <2> SUFFICES ASSUME NEW i \in 1 .. n
               PROVE  FetchOnMainBranch(fdb, Len(log) + i) \in Block \cup {NoBlock}
    BY <1>3
  <2>1. Len(log) + i \in Nat
    BY <1>1
  <2> QED BY <2>1, FetchType
<1>5. ToLog \in Seq(Block \cup {NoBlock}) /\ Len(ToLog) = n /\ DOMAIN ToLog = 1 .. n
  BY <1>1, <1>3, <1>4
<1>6. Found = {i \in 1 .. n : \A j \in 1 .. i : ToLog[j] # NoBlock}
  BY <1>5 DEF Found
<1>7. ASSUME NEW k \in 0 .. n, \A i \in 1 .. k : i \in Found
      PROVE  log \o SubSeq(ToLog, 1, k) \in Seq(Block)
  <2>1. 1 \in 1 .. Len(ToLog) + 1 /\ k \in 1 - 1 .. Len(ToLog) /\ k \in Nat
    BY <1>1, <1>5
  <2>2. /\ SubSeq(ToLog, 1, k) \in Seq(Block \cup {NoBlock})
        /\ Len(SubSeq(ToLog, 1, k)) = k - 1 + 1
        /\ \A i \in 1 .. k - 1 + 1 : SubSeq(ToLog, 1, k)[i] = ToLog[1 + i - 1]
    BY <1>5, <2>1, PartOfSeq
  <2>3. k - 1 + 1 = k /\ \A i \in 1 .. k : 1 + i - 1 = i
    BY <2>1
  <2>4. \A i \in 1 .. k : i \in 1 .. n /\ i \in 1 .. i
    BY <1>1, <2>1
  <2>5. \A i \in 1 .. k : SubSeq(ToLog, 1, k)[i] \in Block
    BY <1>4, <1>6, <1>7, <2>2, <2>3, <2>4
  <2>6. Len(SubSeq(ToLog, 1, k)) = k
    BY <2>2, <2>3
  <2> DEFINE s == SubSeq(ToLog, 1, k)
  <2> HIDE DEF s
  <2>7. s \in Seq(Block)
    BY <2>1, <2>2, <2>5, <2>6 DEF s
  <2>8. log \o s \in Seq(Block)
    BY <2>7
  <2> QED BY <2>8 DEF s
<1>8. ASSUME NEW k \in Found
      PROVE  k \in 0 .. n /\ \A i \in 1 .. k : i \in Found
  <2>1. k \in 1 .. n /\ \A j \in 1 .. k : ToLog[j] # NoBlock
    BY <1>6
  <2>2. \A i \in 1 .. k : i \in 1 .. n /\ \A j \in 1 .. i : j \in 1 .. k
    BY <1>1, <2>1
  <2> QED BY <1>1, <1>6, <2>1, <2>2
<1>9. IsFiniteSet(Found) /\ C \in Nat /\ C <= n
  <2>1. IsFiniteSet(1 .. n) /\ Cardinality(1 .. n) = n
    BY <1>1, UpTo
  <2>2. Found \in SUBSET (1 .. n)
    BY <1>6
  <2> QED BY <2>1, <2>2, FS_Subset, FS_CardinalityType
<1>10. ASSUME NEW i \in 1 .. C
       PROVE  i \in Found
  <2>1. ASSUME i \notin Found
        PROVE  FALSE
    <3>1. \A k \in Found : k \in 1 .. i - 1
      <4> SUFFICES ASSUME NEW k \in Found
                   PROVE  k \in 1 .. i - 1
        OBVIOUS
      <4>1. k \in 1 .. n /\ ~(i \in 1 .. k)
        BY <1>6, <1>8, <2>1
      <4> QED BY <1>1, <1>9, <4>1
    <3>2. IsFiniteSet(1 .. i - 1) /\ Cardinality(1 .. i - 1) = i - 1
      <4>1. i - 1 \in Nat
        BY <1>9
      <4> QED BY <4>1, UpTo
    <3>3. Found \in SUBSET (1 .. i - 1)
      BY <3>1
    <3>4. C <= i - 1
      BY <3>2, <3>3, FS_Subset
    <3> QED BY <1>9, <3>4
  <2> QED BY <2>1
<1> HIDE DEF C
<1>11. C \in 0 .. n
  BY <1>1, <1>9
<1>12. log \o SubSeq(ToLog, 1, C) \in Seq(Block)
  BY <1>7, <1>10, <1>11
<1>13. ASSUME AllFound
       PROVE  log \o ToLog \in Seq(Block)
  <2>1. \A i \in 1 .. n : i \in Found
    BY <1>5, <1>13 DEF AllFound
  <2>2. \A i \in 1 .. n : ToLog[i] \in Block
    <3>1. \A i \in 1 .. n : i \in 1 .. i
      BY <1>1
    <3> QED BY <1>4, <1>6, <2>1, <3>1
  <2>3. ToLog \in Seq(Block)
    BY <1>1, <1>3, <2>2
  <2> HIDE DEF ToLog
  <2> QED BY <2>3
<1> QED BY <1>7, <1>8, <1>12, <1>13 DEF C

-----------------------------------------------------------------------------
(* The steps of push_block(), of a crash and of a restart.                 *)

Call == [block : Block \cup {NoBlock}, mode : {"none", "direct", "switch", "restore"},
         first : Seq(Block), second : Seq(Block), at : Nat,
         entry : Block \cup {NoBlock}]
Place == {"idle", "push", "pop", "popbad", "apply", "log", "down", "replay", "halted"}

\* The parts of the invariant, in the words of the lemmas.
LEMMA Parts ==
    ASSUME Inv
    PROVE  /\ TreeInv /\ fdb \in ForkDb /\ chain \in State /\ undo \in Seq(Session)
           /\ rev \in Nat /\ log \in Seq(Block) /\ pc \in Place /\ call \in Call
           /\ result \in {"ok", "error"} /\ crashes \in Nat
           /\ StateIn(blocks, chain) /\ UndoIn(blocks, chain, undo)
           /\ (Running \/ undo # << >>) => rev = HeadNum
           /\ CallOK
           /\ chain.head \in Block \cup {NoBlock} /\ HeadNum \in Nat
           /\ chain.lib \in Nat /\ chain.lib <= HeadNum
<1>1. /\ TreeInv /\ fdb \in ForkDb /\ chain \in State /\ undo \in Seq(Session)
      /\ rev \in Nat /\ log \in Seq(Block) /\ pc \in Place /\ call \in Call
      /\ result \in {"ok", "error"} /\ crashes \in Nat
      /\ StateIn(blocks, chain) /\ UndoIn(blocks, chain, undo)
      /\ (Running \/ undo # << >>) => rev = HeadNum
      /\ CallOK
  BY DEF Inv, TypeOK, Session, Place, Call
<1>2. chain.head \in Block \cup {NoBlock} /\ chain.lib \in Nat
  BY <1>1 DEF State
<1>3. HeadNum \in Nat /\ HeadNum = NumIn(blocks, chain.head)
  BY <1>1, <1>2, PathType, SameIn DEF HeadNum
<1>4. chain.lib <= NumIn(blocks, chain.head)
  BY <1>1 DEF StateIn
<1> QED BY <1>1, <1>2, <1>3, <1>4

\* A step that adds no block keeps the invariant when its parts hold after it.
LEMMA Assemble ==
    ASSUME TreeInv, blocks' = blocks,
           fdb' \in ForkDb, chain' \in State, undo' \in Seq(Session), rev' \in Nat,
           log' \in Seq(Block), pc' \in Place, call' \in Call,
           result' \in {"ok", "error"}, crashes' \in Nat,
           StateIn(blocks, chain'), UndoIn(blocks, chain', undo'),
           pc' \notin {"down", "replay", "halted"} \/ undo' # << >> => rev' = Num(chain'.head),
           CallOK'
    PROVE  Inv'
<1>1. TreeInv'
  BY DEF TreeInv, Block, Prev, Path, Num
<1>2. TreeOK
  <2>1. \A b \in Block : blocks[b] \in SignedBlock
    BY DEF TreeInv, Block
  <2>2. \A b \in Block : blocks[b].producer \in Producer /\ blocks[b].fault \in Fault
    BY <2>1 DEF SignedBlock
  <2> QED BY <2>2 DEF TreeInv, TreeOK
<1>3. TreeOK'
  BY <1>2 DEF TreeOK, Block, Prev, Path
<1>4. Block' = Block
  BY DEF Block
<1>5. TypeOK'
  BY <1>3, <1>4 DEF TypeOK, ForkDb, State, Session, Place, Call
<1>6. (Running \/ undo # << >> => rev = HeadNum)'
  BY DEF Running, HeadNum, Num, Path
<1>7. StateIn(blocks, chain)' /\ UndoIn(blocks, chain, undo)'
  <2>1. StateIn(blocks', chain') /\ UndoIn(blocks', chain', undo')
    OBVIOUS
  <2> QED BY <2>1 DEF StateIn, UndoIn
<1> QED BY <1>1, <1>5, <1>6, <1>7 DEF Inv

LEMMA ReturnType ==
    ASSUME NEW f \in ForkDb, NEW r \in {"ok", "error"}, Return(r, f)
    PROVE  /\ fdb' \in ForkDb /\ pc' = "idle" /\ pc' \in Place
           /\ call' \in Call /\ result' \in {"ok", "error"}
<1>1. Sweep(f, {}) \in ForkDb
  BY SweepType
<1>2. NoCall \in Call
  <2>1. << >> \in Seq(Block)
    OBVIOUS
  <2> QED BY <2>1 DEF NoCall, Call, NoBlock
<1> QED BY <1>1, <1>2 DEF Return, Place

LEMMA HeldType ==
    ASSUME NEW c \in Call
    PROVE  Held(c) \in SUBSET Block
<1>1. c.first \in Seq(Block) /\ c.second \in Seq(Block)
  BY DEF Call
<1>2. \A i \in DOMAIN c.first : c.first[i] \in Block
  BY <1>1
<1>3. \A i \in DOMAIN c.second : c.second[i] \in Block
  BY <1>1
<1> QED BY <1>2, <1>3 DEF Held, ToSet

LEMMA CurrentType ==
    ASSUME Inv, pc \in {"apply", "log"}
    PROVE  Current \in Block
<1>1. call.first \in Seq(Block) /\ call.second \in Seq(Block)
  BY Parts DEF Call
<1>2. \/ call.mode = "direct" /\ call.block \in Block
      \/ call.mode = "switch" /\ call.at \in 1 .. Len(call.first)
      \/ call.mode = "restore" /\ call.at \in 1 .. Len(call.second)
  BY Parts DEF CallOK
<1>3. CASE call.mode = "direct" /\ call.block \in Block
  BY <1>3 DEF Current
<1>4. CASE call.mode = "switch" /\ call.at \in 1 .. Len(call.first)
  <2>1. Current = call.first[call.at]
    BY <1>4 DEF Current
  <2> QED BY <1>1, <1>4, <2>1
<1>5. CASE call.mode = "restore" /\ call.at \in 1 .. Len(call.second)
  <2>1. Current = call.second[call.at]
    BY <1>5 DEF Current
  <2> QED BY <1>1, <1>5, <2>1
<1> QED BY <1>2, <1>3, <1>4, <1>5

\* Unwinding ends the call, or goes on with the branches it holds.
LEMMA UnwindType ==
    ASSUME Inv, pc \in {"apply", "log"}, NEW f \in ForkDb, Unwind(f)
    PROVE  /\ fdb' \in ForkDb /\ pc' \in Place /\ pc' \in {"idle", "popbad"}
           /\ call' \in Call /\ result' \in {"ok", "error"}
           /\ CallOK'
<1> DEFINE bad == ToSet(SubSeq(call.first, 1, call.at))
<1>1. Held(call) \in SUBSET Block /\ TreeInv /\ {} \in SUBSET Block
  BY Parts, HeldType
<1>2. RemoveAll(f, {call.block}, {}) \in ForkDb
  BY <1>1, ForkDbTypes
<1>3. RemoveAll(f, bad, Held(call)) \in ForkDb
  BY <1>1, ForkDbTypes
<1>4. CASE call.mode = "direct" /\ Return("error", RemoveAll(f, {call.block}, {}))
  <2>1. /\ fdb' \in ForkDb /\ pc' = "idle" /\ pc' \in Place
        /\ call' \in Call /\ result' \in {"ok", "error"}
    BY <1>2, <1>4, ReturnType
  <2> QED BY <2>1 DEF CallOK
<1>5. CASE /\ call.mode = "switch"
           /\ fdb' = SetHead(RemoveAll(f, bad, Held(call)), Head(call.second), Held(call))
           /\ pc' = "popbad"
           /\ UNCHANGED <<call, result>>
  <2>1. call.mode = "switch" /\ call.at \in 1 .. Len(call.first) /\ call.second # << >>
    BY <1>5, Parts DEF CallOK
  <2>2. call.second \in Seq(Block)
    BY Parts DEF Call
  <2>3. Head(call.second) \in Block
    BY <2>1, <2>2
  <2>4. fdb' \in ForkDb
    BY <1>1, <1>3, <1>5, <2>3, ForkDbTypes
  <2>5. CallOK'
    BY <1>5, <2>1 DEF CallOK
  <2> QED BY <1>5, <2>4, <2>5, Parts DEF Place
<1>6. CASE call.mode = "restore" /\ Return("error", f)
  <2>1. /\ fdb' \in ForkDb /\ pc' = "idle" /\ pc' \in Place
        /\ call' \in Call /\ result' \in {"ok", "error"}
    BY <1>6, ReturnType
  <2> QED BY <2>1 DEF CallOK
<1> QED BY <1>4, <1>5, <1>6 DEF Unwind

\* Taking back the last block.
LEMMA UndoLastKeeps ==
    ASSUME Inv, UndoLast, Running
    PROVE  /\ chain' \in State /\ undo' \in Seq(Session) /\ rev' \in Nat
           /\ StateIn(blocks, chain') /\ UndoIn(blocks, chain', undo')
           /\ rev' = Num(chain'.head)
<1>1. rev = HeadNum /\ HeadNum \in Nat
  BY Parts
<1>2. CASE undo = << >>
  BY <1>1, <1>2, Parts DEF UndoLast, HeadNum
<1>3. CASE undo # << >>
  <2>1. chain' = Last(undo).state /\ undo' = Front(undo) /\ rev' = rev - 1
    BY <1>3 DEF UndoLast
  <2>2. /\ Last(undo).state \in State /\ StateIn(blocks, Last(undo).state)
        /\ Num(chain.head) # 0
        /\ Num(Last(undo).state.head) = Num(chain.head) - 1
        /\ Front(undo) \in Seq(Session)
        /\ UndoIn(blocks, Last(undo).state, Front(undo))
    BY <1>3, Parts, UndoPop
  <2>3. rev - 1 \in Nat
    BY <1>1, <2>2 DEF HeadNum
  <2> QED BY <1>1, <2>1, <2>2, <2>3 DEF HeadNum
<1> QED BY <1>2, <1>3

\* The state before the first block.
LEMMA GenesisOK ==
    ASSUME NEW bs
    PROVE  /\ Genesis \in State /\ Genesis.head = NoBlock /\ Genesis.lib = 0
           /\ NumIn(bs, NoBlock) = 0
           /\ StateIn(bs, Genesis)
<1>1. /\ Genesis \in State /\ Genesis.head = NoBlock /\ Genesis.lib = 0
      /\ \A w \in Producer : Genesis.conf[w] = 0
  BY DEF Genesis, State
<1>2. NumIn(bs, NoBlock) = 0
  BY DEF NumIn, PathIn
<1>3. EarlyLib(0) = 0
  BY ChainConstants DEF EarlyLib
<1>4. ~(0 >= StartVoting)
  BY ChainConstants
<1>5. \E r : Replays(bs, r, NoBlock) /\ Genesis = r[0]
  <2> DEFINE r == [n \in 0 .. 0 |-> Genesis]
  <2>1. r[0] = Genesis
    OBVIOUS
  <2>2. Replays(bs, r, NoBlock)
    BY <1>2, <2>1 DEF Replays
  <2> QED BY <2>1, <2>2
<1> HIDE DEF Genesis
<1> QED BY <1>1, <1>2, <1>3, <1>4, <1>5 DEF StateIn

LEMMA InitInv ==
    Init => Inv
<1> SUFFICES ASSUME Init
             PROVE  Inv
  OBVIOUS
<1>1. blocks = << >> /\ Len(blocks) = 0 /\ Block = {}
  BY DEF Init, Block
<1>2. TreeInv
  BY <1>1 DEF TreeInv
<1>3. TreeOK
  BY <1>1 DEF TreeOK
<1>4. Genesis \in State /\ Genesis.head = NoBlock /\ Genesis.lib = 0
      /\ Genesis.conf = [w \in Producer |-> 0]
  BY DEF Genesis, State
<1>5. EmptyForkDb \in ForkDb
  BY ForkDbAssumption DEF ForkDb, EmptyForkDb
<1>6. NoCall \in Call
  <2>1. << >> \in Seq(Block)
    OBVIOUS
  <2> QED BY <2>1 DEF NoCall, Call, NoBlock
<1>7. TypeOK
  <2>1. << >> \in Seq(Block) /\ << >> \in Seq([state : State, revision : Nat])
    OBVIOUS
  <2> QED BY <1>3, <1>4, <1>5, <1>6, <2>1 DEF TypeOK, Init, Call
<1>8. StateIn(blocks, chain)
  BY GenesisOK DEF Init
<1>9. UndoIn(blocks, chain, undo)
  BY DEF UndoIn, Init
<1>10. HeadNum = 0
  BY <1>4 DEF HeadNum, Num, Path, Init
<1>11. CallOK
  BY DEF CallOK, Init
<1> QED BY <1>2, <1>7, <1>8, <1>9, <1>10, <1>11 DEF Inv, Init

\* A block is signed, and perhaps delivered.
LEMMA SignInv ==
    ASSUME Inv, NEW p \in 0 .. Len(blocks), NEW w \in Producer, NEW f \in Fault, Sign(p, w, f),
           UNCHANGED <<fdb, chain, undo, rev, log, result, crashes>>,
           \/ UNCHANGED <<pc, call>>
           \/ /\ pc' = "push"
              /\ call' = [NoCall EXCEPT !.block = Len(blocks) + 1, !.entry = chain.head]
              /\ pc = "idle"
    PROVE  Inv'
<1>1. /\ TreeInv' /\ Len(blocks') = Len(blocks) + 1
      /\ \A b \in Block : blocks'[b] = blocks[b]
  BY Parts, SignKeepsTree
<1>2. Len(blocks) \in Nat
  BY Parts DEF TreeInv
<1>3. Extends(blocks')
  BY <1>1 DEF Extends
<1>4. \A b \in Block : b \in Block'
  BY <1>1, <1>2 DEF Block
<1>5. Len(blocks) + 1 \in Block'
  BY <1>1, <1>2 DEF Block
<1>6. fdb' \in ForkDb' /\ chain' \in State' /\ log' \in Seq(Block')
  <2>1. fdb' \in ForkDb'
    BY <1>4, Parts DEF ForkDb
  <2>2. chain' \in State'
    BY <1>4, Parts DEF State
  <2>3. log' \in Seq(Block')
    <3>1. \A i \in 1 .. Len(log) : log[i] \in Block
      BY Parts
    <3>2. \A i \in 1 .. Len(log) : log[i] \in Block'
      BY <1>4, <3>1
    <3> QED BY <3>2, Parts
  <2> QED BY <2>1, <2>2, <2>3
<1>7. undo' \in Seq(Session')
  <2>1. \A s \in State : s \in State'
    BY <1>4 DEF State
  <2>2. \A s \in Session : s \in Session'
    BY <2>1 DEF Session
  <2>3. \A i \in 1 .. Len(undo) : undo[i] \in Session
    BY Parts
  <2>4. \A i \in 1 .. Len(undo) : undo[i] \in Session'
    BY <2>2, <2>3
  <2> QED BY <2>4, Parts
<1>8. call' \in Call' /\ CallOK' /\ pc' \in Place
  <2>1. CASE UNCHANGED <<pc, call>>
    <3>1. call.first \in Seq(Block) /\ call.second \in Seq(Block)
      BY Parts DEF Call
    <3>2. \A i \in 1 .. Len(call.first) : call.first[i] \in Block'
      BY <1>4, <3>1
    <3>3. \A i \in 1 .. Len(call.second) : call.second[i] \in Block'
      BY <1>4, <3>1
    <3>4. call.first \in Seq(Block') /\ call.second \in Seq(Block')
      BY <3>1, <3>2, <3>3, SMTT(30)
    <3>5. call \in Call'
      BY <1>4, <3>4, Parts DEF Call
    <3> QED BY <1>4, <2>1, <3>5, Parts DEF CallOK
  <2>2. CASE /\ pc' = "push"
             /\ call' = [NoCall EXCEPT !.block = Len(blocks) + 1, !.entry = chain.head]
    <3>1. << >> \in Seq(Block')
      OBVIOUS
    <3>2. chain.head \in Block' \cup {NoBlock}
      BY <1>4, Parts
    <3>3. call' \in Call' /\ call'.block = Len(blocks) + 1
      BY <1>5, <2>2, <3>1, <3>2 DEF Call, NoCall, NoBlock
    <3> QED BY <1>5, <2>2, <3>3 DEF CallOK, Place
  <2> QED BY <2>1, <2>2
<1>9. TreeOK'
  <2>1. \A b \in Block' : blocks'[b] \in SignedBlock
    BY <1>1 DEF TreeInv, Block
  <2>2. \A b \in Block' : blocks'[b].producer \in Producer /\ blocks'[b].fault \in Fault
    BY <2>1 DEF SignedBlock
  <2> QED BY <1>1, <2>2 DEF TreeInv, TreeOK
<1>10. TypeOK'
  <2>1. result' \in {"ok", "error"} /\ crashes' \in Nat /\ rev' \in Nat
    BY Parts
  <2> QED BY <1>6, <1>7, <1>8, <1>9, <2>1 DEF TypeOK, Session, Call, Place
<1>11. StateIn(blocks', chain) /\ UndoIn(blocks', chain, undo)
  BY <1>3, Parts, StateStays, UndoStays
<1>12. StateIn(blocks', chain') /\ UndoIn(blocks', chain', undo')
  BY <1>11
<1>13. HeadNum' = HeadNum
  <2>1. NumIn(blocks', chain.head) = NumIn(blocks, chain.head)
    BY <1>3, Parts, MoreBlocks
  <2>2. HeadNum = NumIn(blocks, chain.head) /\ HeadNum' = NumIn(blocks', chain.head)
    BY DEF HeadNum, Num, Path, NumIn, PathIn
  <2> QED BY <2>1, <2>2
<1>14. (Running \/ undo # << >> => rev = HeadNum)'
  <2>1. Running' \/ undo' # << >> => Running \/ undo # << >>
    BY DEF Running
  <2> QED BY <1>13, <2>1, Parts
<1>15. (StateIn(blocks, chain) /\ UndoIn(blocks, chain, undo))'
  BY <1>12 DEF StateIn, UndoIn
<1> QED BY <1>1, <1>8, <1>10, <1>14, <1>15 DEF Inv

LEMMA DeliverKnownInv ==
    ASSUME Inv, NEW b \in Block, DeliverKnown(b)
    PROVE  Inv'
<1>1. /\ pc = "idle" /\ pc' = "push" /\ blocks' = blocks
      /\ call' = [NoCall EXCEPT !.block = b, !.entry = chain.head]
      /\ UNCHANGED <<fdb, chain, undo, rev, log, result, crashes>>
  BY DEF DeliverKnown, Deliver
<1>2. << >> \in Seq(Block)
  OBVIOUS
<1>3. call' \in Call /\ call'.block = b
  BY <1>1, <1>2, Parts DEF Call, NoCall, NoBlock
<1>4. CallOK' /\ pc' \in Place
  BY <1>1, <1>3 DEF CallOK, Place, Block
<1>5. rev = Num(chain.head)
  BY <1>1, Parts DEF Running, HeadNum
<1> QED BY <1>1, <1>3, <1>4, <1>5, Parts, Assemble

\* A step that leaves the state and the undo stack alone.
LEMMA SameState ==
    ASSUME Inv, UNCHANGED <<blocks, chain, undo, rev>>,
           fdb' \in ForkDb, log' \in Seq(Block), pc' \in Place, call' \in Call,
           result' \in {"ok", "error"}, crashes' \in Nat, CallOK',
           Running \/ pc' \in {"down", "halted"}
    PROVE  Inv'
<1>1. pc' \notin {"down", "replay", "halted"} \/ undo' # << >> => rev' = Num(chain'.head)
  BY Parts DEF HeadNum
<1> QED BY <1>1, Parts, Assemble

LEMMA PushBlockInv ==
    ASSUME Inv, PushBlock
    PROVE  Inv'
<1> DEFINE f == PushItem(fdb, call.block)
           h == f.head
           extends == Prev(h) = chain.head
           switches == ~extends /\ Num(h) > HeadNum
<1>1. pc = "push" /\ UNCHANGED <<blocks, chain, undo, rev, log, crashes>> /\ Running
  BY DEF PushBlock, Running
<1>2. call.block \in Block /\ call \in Call
  BY <1>1, Parts DEF CallOK
<1>3. f \in ForkDb /\ h \in Block
  <2>1. {} \in SUBSET Block
    OBVIOUS
  <2> QED BY <1>2, <2>1, Parts, ForkDbTypes
<1>4. \/ Return("error", fdb)
      \/ /\ pc' = "apply"
         /\ call' = [call EXCEPT !.mode = "direct", !.at = 1]
         /\ fdb' = f
         /\ UNCHANGED result
      \/ Return("ok", f)
      \/ Return("error", f)
      \/ /\ CanFetchBranches(f, h, chain.head)
         /\ pc' = "pop"
         /\ call' = [call EXCEPT !.mode   = "switch",
                                 !.first  = Branch(h, chain.head),
                                 !.second = Branch(chain.head, h),
                                 !.at     = Len(Branch(h, chain.head))]
         /\ fdb' = f
         /\ UNCHANGED result
  BY DEF PushBlock
<1> HIDE DEF f, h
<1>5. ASSUME NEW g \in ForkDb, NEW r \in {"ok", "error"}, Return(r, g)
      PROVE  Inv'
  <2>1. /\ fdb' \in ForkDb /\ pc' = "idle" /\ pc' \in Place
        /\ call' \in Call /\ result' \in {"ok", "error"}
    BY <1>5, ReturnType
  <2>2. CallOK'
    BY <2>1 DEF CallOK
  <2> QED BY <1>1, <2>1, <2>2, Parts, SameState
<1>6. CASE /\ pc' = "apply"
           /\ call' = [call EXCEPT !.mode = "direct", !.at = 1]
           /\ fdb' = f
           /\ UNCHANGED result
  <2>1. call' \in Call /\ call'.mode = "direct" /\ call'.block = call.block
    BY <1>2, <1>6 DEF Call
  <2>2. CallOK' /\ pc' \in Place
    BY <1>1, <1>2, <1>6, <2>1 DEF CallOK, Place, Block
  <2> QED BY <1>1, <1>3, <1>6, <2>1, <2>2, Parts, SameState
<1>7. CASE /\ CanFetchBranches(f, h, chain.head)
           /\ pc' = "pop"
           /\ call' = [call EXCEPT !.mode   = "switch",
                                   !.first  = Branch(h, chain.head),
                                   !.second = Branch(chain.head, h),
                                   !.at     = Len(Branch(h, chain.head))]
           /\ fdb' = f
           /\ UNCHANGED result
  <2>1. chain.head \in Block
    BY <1>3, <1>7 DEF CanFetchBranches, ForkDb
  <2>2. /\ Branch(h, chain.head) \in Seq(Block) /\ Branch(chain.head, h) \in Seq(Block)
        /\ Len(Branch(h, chain.head)) \in Nat /\ Len(Branch(h, chain.head)) >= 1
        /\ Len(Branch(chain.head, h)) >= 1
    BY <1>3, <2>1, Parts, BranchType
  <2>3. /\ call' \in Call /\ call'.mode = "switch" /\ call'.second = Branch(chain.head, h)
        /\ call'.first = Branch(h, chain.head) /\ call'.at = Len(Branch(h, chain.head))
    BY <1>2, <1>7, <2>2 DEF Call
  <2>4. call'.at \in 1 .. Len(call'.first) /\ call'.second # << >>
    BY <2>2, <2>3
  <2>5. CallOK' /\ pc' \in Place
    BY <1>7, <2>3, <2>4 DEF CallOK, Place
  <2> QED BY <1>1, <1>3, <1>7, <2>3, <2>5, Parts, SameState
<1> QED BY <1>3, <1>4, <1>5, <1>6, <1>7, Parts

LEMMA PopStepInv ==
    ASSUME Inv, PopStep
    PROVE  Inv'
<1>1. pc \in {"pop", "popbad"} /\ UNCHANGED <<blocks, log, crashes>> /\ Running /\ PopBlock
  BY DEF PopStep, Running
<1>2. \/ /\ CanPop(fdb)
         /\ fdb' = PopHead(fdb, Held(call))
         /\ UndoLast
         /\ UNCHANGED <<pc, call, result>>
      \/ /\ Return("error", fdb)
         /\ UNCHANGED <<chain, undo, rev>>
  BY <1>1 DEF PopBlock
<1>3. CASE /\ CanPop(fdb)
           /\ fdb' = PopHead(fdb, Held(call))
           /\ UndoLast
           /\ UNCHANGED <<pc, call, result>>
  <2>1. Held(call) \in SUBSET Block
    BY Parts, HeldType
  <2>2. fdb' \in ForkDb
    BY <1>3, <2>1, Parts, ForkDbTypes
  <2>3. /\ chain' \in State /\ undo' \in Seq(Session) /\ rev' \in Nat
        /\ StateIn(blocks, chain') /\ UndoIn(blocks, chain', undo')
        /\ rev' = Num(chain'.head)
    BY <1>1, <1>3, UndoLastKeeps
  <2>4. CallOK'
    BY <1>1, <1>3, Parts DEF CallOK
  <2> QED BY <1>1, <1>3, <2>2, <2>3, <2>4, Parts, Assemble
<1>4. CASE Return("error", fdb) /\ UNCHANGED <<chain, undo, rev>>
  <2>1. /\ fdb' \in ForkDb /\ pc' = "idle" /\ pc' \in Place
        /\ call' \in Call /\ result' \in {"ok", "error"}
    BY <1>4, Parts, ReturnType
  <2>2. CallOK'
    BY <2>1 DEF CallOK
  <2> QED BY <1>1, <1>4, <2>1, <2>2, Parts, SameState
<1> QED BY <1>2, <1>3, <1>4

LEMMA PopDoneInv ==
    ASSUME Inv, PopDone \/ PopBadDone
    PROVE  Inv'
<1>1. CASE PopDone
  <2>1. /\ pc = "pop" /\ pc' = "apply" /\ Running
        /\ UNCHANGED <<blocks, fdb, chain, undo, rev, log, call, result, crashes>>
    BY <1>1 DEF PopDone, Running
  <2>2. CallOK' /\ pc' \in Place
    BY <2>1, Parts DEF CallOK, Place
  <2> QED BY <2>1, <2>2, Parts, SameState
<1>2. CASE PopBadDone
  <2>1. /\ pc = "popbad" /\ pc' = "apply" /\ Running
        /\ UNCHANGED <<blocks, fdb, chain, undo, rev, log, result, crashes>>
        /\ call' = [call EXCEPT !.mode = "restore", !.at = Len(call.second)]
    BY <1>2 DEF PopBadDone, Running
  <2>2. call \in Call /\ call.second \in Seq(Block) /\ call.second # << >>
    BY <2>1, Parts DEF CallOK, Call
  <2>3. Len(call.second) \in Nat /\ Len(call.second) >= 1
    BY <2>2
  <2>4. /\ call' \in Call /\ call'.mode = "restore" /\ call'.second = call.second
        /\ call'.at = Len(call.second)
    BY <2>1, <2>2, <2>3 DEF Call
  <2>5. call'.at \in 1 .. Len(call'.second)
    BY <2>3, <2>4
  <2>6. CallOK' /\ pc' \in Place
    BY <2>1, <2>4, <2>5 DEF CallOK, Place
  <2> QED BY <2>1, <2>4, <2>6, Parts, SameState
<1> QED BY <1>1, <1>2

LEMMA ApplyBlockInv ==
    ASSUME Inv, ApplyBlock
    PROVE  Inv'
<1> DEFINE b == Current
           u == Append(undo, [state |-> chain, revision |-> rev + 1])
<1>1. /\ pc = "apply" /\ pc' = "log" /\ Running
      /\ Prev(b) = chain.head
      /\ chain' = Post(chain, b)
      /\ Committed(u, chain'.lib, undo')
      /\ rev' = rev + 1
      /\ UNCHANGED <<blocks, fdb, log, call, result, crashes>>
  BY DEF ApplyBlock, Applies, Running
<1>2. b \in Block
  BY <1>1, CurrentType
<1> HIDE DEF b
<1>3. rev = Num(chain.head) /\ rev \in Nat
  BY <1>1, Parts DEF HeadNum
<1>4. /\ Post(chain, b) \in State /\ Post(chain, b).head = b
      /\ StateIn(blocks, Post(chain, b))
  BY <1>1, <1>2, Parts, PostKeeps
<1>5. Committed(Append(undo, [state |-> chain, revision |-> Num(chain.head) + 1]),
                Post(chain, b).lib, undo')
  BY <1>1, <1>3
<1>6. undo' \in Seq(Session) /\ UndoIn(blocks, Post(chain, b), undo')
  BY <1>1, <1>2, <1>5, Parts, UndoPush
<1>7. rev' = Num(b) /\ rev' \in Nat
  BY <1>1, <1>2, <1>3, Parts, PrevFacts
<1>8. CallOK' /\ pc' \in Place
  BY <1>1, Parts DEF CallOK, Place, Block
<1> QED BY <1>1, <1>4, <1>6, <1>7, <1>8, Parts, Assemble

LEMMA RejectBlockInv ==
    ASSUME Inv, RejectBlock
    PROVE  Inv'
<1>1. /\ pc = "apply" /\ Unwind(fdb) /\ Running
      /\ UNCHANGED <<blocks, chain, undo, rev, log, crashes>>
  BY DEF RejectBlock, Running
<1>2. /\ fdb' \in ForkDb /\ pc' \in Place /\ call' \in Call
      /\ result' \in {"ok", "error"} /\ CallOK'
  BY <1>1, Parts, UnwindType
<1> QED BY <1>1, <1>2, Parts, SameState

\* The size that update_last_irreversible_block() sets is a size.
LEMMA SizeType ==
    ASSUME Inv
    PROVE  SetMaxSize(fdb, HeadNum - chain.lib + 1, Held(call)) \in ForkDb
<1>1. HeadNum - chain.lib + 1 \in Nat
  BY Parts
<1>2. Held(call) \in SUBSET Block
  BY Parts, HeldType
<1> QED BY <1>1, <1>2, Parts, ForkDbTypes

LEMMA LogBlocksInv ==
    ASSUME Inv, LogBlocks
    PROVE  Inv'
<1> DEFINE f == SetMaxSize(fdb, HeadNum - chain.lib + 1, Held(call))
<1>1. /\ pc = "log" /\ AllFound /\ log' = log \o ToLog /\ Running
      /\ NextBlock(f)
      /\ UNCHANGED <<blocks, chain, undo, rev, crashes>>
  BY DEF LogBlocks, Running
<1>2. log' \in Seq(Block)
  BY <1>1, Parts, LogType
<1>3. f \in ForkDb
  BY SizeType
<1> HIDE DEF f
<1>4. CASE call.at > 1
  <2>1. pc' = "apply" /\ call' = [call EXCEPT !.at = @ - 1] /\ fdb' = f /\ UNCHANGED result
    BY <1>1, <1>4 DEF NextBlock
  <2>2. call \in Call /\ call.at \in Nat /\ call.at - 1 \in Nat
    BY <1>4, Parts DEF Call
  <2>3. /\ call' \in Call /\ call'.mode = call.mode /\ call'.block = call.block
        /\ call'.first = call.first /\ call'.second = call.second /\ call'.at = call.at - 1
    BY <2>1, <2>2 DEF Call
  <2>4. \/ call.mode = "direct" /\ call.block \in Block
        \/ call.mode = "switch" /\ call.at \in 1 .. Len(call.first) /\ call.second # << >>
        \/ call.mode = "restore" /\ call.at \in 1 .. Len(call.second)
    BY <1>1, Parts DEF CallOK
  <2>5. \A n \in Nat : call.at \in 1 .. n => call.at - 1 \in 1 .. n
    BY <1>4, <2>2
  <2>6. Len(call.first) \in Nat /\ Len(call.second) \in Nat
    BY Parts DEF Call
  <2>7. CallOK' /\ pc' \in Place
    BY <1>1, <2>1, <2>3, <2>4, <2>5, <2>6 DEF CallOK, Place, Block
  <2> QED BY <1>1, <1>2, <1>3, <2>1, <2>3, <2>7, Parts, SameState
<1>5. CASE ~(call.at > 1)
  <2>1. PICK r \in {"ok", "error"} : Return(r, f)
    BY <1>1, <1>5 DEF NextBlock
  <2>2. /\ fdb' \in ForkDb /\ pc' = "idle" /\ pc' \in Place
        /\ call' \in Call /\ result' \in {"ok", "error"}
    BY <1>3, <2>1, ReturnType
  <2>3. CallOK'
    BY <2>2 DEF CallOK
  <2> QED BY <1>1, <1>2, <2>2, <2>3, Parts, SameState
<1> QED BY <1>4, <1>5

LEMMA FailLateInv ==
    ASSUME Inv, FailLate
    PROVE  Inv'
<1> DEFINE f == IF AllFound THEN SetMaxSize(fdb, HeadNum - chain.lib + 1, Held(call)) ELSE fdb
<1>1. /\ pc = "log" /\ log' = log \o SubSeq(ToLog, 1, Cardinality(Found)) /\ Running
      /\ UndoLast /\ Unwind(f) /\ UNCHANGED <<blocks, crashes>>
  BY DEF FailLate, Running
<1>2. log' \in Seq(Block)
  BY <1>1, Parts, LogType
<1>3. f \in ForkDb
  BY SizeType, Parts
<1> HIDE DEF f
<1>4. /\ fdb' \in ForkDb /\ pc' \in Place /\ call' \in Call
      /\ result' \in {"ok", "error"} /\ CallOK'
  BY <1>1, <1>3, UnwindType
<1>5. /\ chain' \in State /\ undo' \in Seq(Session) /\ rev' \in Nat
      /\ StateIn(blocks, chain') /\ UndoIn(blocks, chain', undo')
      /\ rev' = Num(chain'.head)
  BY <1>1, UndoLastKeeps
<1> QED BY <1>1, <1>2, <1>4, <1>5, Parts, Assemble

LEMMA CrashInv ==
    ASSUME Inv, Crash
    PROVE  Inv'
<1>1. /\ pc' = "down" /\ fdb' = EmptyForkDb /\ call' = NoCall /\ crashes' = crashes + 1
      /\ log' = log \/ \E k \in Found : log' = log \o SubSeq(ToLog, 1, k)
      /\ UNCHANGED <<blocks, chain, undo, rev, result>>
  BY DEF Crash
<1>2. log' \in Seq(Block)
  BY <1>1, Parts, LogType
<1>3. EmptyForkDb \in ForkDb /\ NoCall \in Call
  <2>1. {} \in SUBSET Block /\ << >> \in Seq(Block)
    OBVIOUS
  <2> QED BY <2>1, Parts, ForkDbTypes DEF NoCall, Call, NoBlock
<1>4. CallOK' /\ pc' \in Place /\ crashes' \in Nat
  BY <1>1, Parts DEF CallOK, Place
<1> QED BY <1>1, <1>2, <1>3, <1>4, Parts, SameState

\* What open() goes back to is a state of the chain.
LEMMA RewoundType ==
    ASSUME Inv
    PROVE  /\ Rewound \in State /\ StateIn(blocks, Rewound)
           /\ Num(Rewound.head) \in Nat /\ Rewound.head \in Block \cup {NoBlock}
           /\ undo # << >> => /\ Rewound.head = Anc(chain.head, HeadNum - Len(undo))
                              /\ HeadNum - Len(undo) \in chain.lib .. HeadNum
<1>1. /\ Rewound \in State /\ StateIn(blocks, Rewound)
      /\ undo # << >> => /\ Rewound.head = Anc(chain.head, HeadNum - Len(undo))
                         /\ HeadNum - Len(undo) \in chain.lib .. HeadNum
  <2>1. CASE undo = << >>
    BY <2>1, Parts DEF Rewound
  <2>2. CASE undo # << >>
    <3>1. 1 \in 1 .. Len(undo) /\ Len(undo) \in Nat
      BY <2>2, Parts
    <3>2. /\ undo[1].state \in State /\ StateIn(blocks, undo[1].state)
          /\ undo[1].revision = Num(chain.head) - Len(undo) + 1
          /\ undo[1].revision \in 1 .. Num(chain.head)
          /\ undo[1].revision - 1 >= chain.lib
          /\ undo[1].state.head = Anc(chain.head, undo[1].revision - 1)
      BY <3>1, Parts, SessionFacts
    <3>3. undo[1].revision - 1 = HeadNum - Len(undo) /\ HeadNum - Len(undo) \in chain.lib .. HeadNum
      <4> DEFINE r == undo[1].revision
                 H == HeadNum
                 lib == chain.lib
                 L == Len(undo)
      <4>1. /\ r = H - L + 1 /\ r \in 1 .. H /\ r - 1 >= lib
            /\ H \in Nat /\ L \in Nat /\ lib \in Nat
        BY <3>1, <3>2, Parts DEF HeadNum
      <4> HIDE DEF r, H, lib, L
      <4>2. r - 1 = H - L /\ H - L \in lib .. H
        BY <4>1
      <4> QED BY <4>2 DEF r, H, lib, L
    <3> QED BY <2>2, <3>2, <3>3 DEF Rewound
  <2> QED BY <2>1, <2>2
<1>2. Rewound.head \in Block \cup {NoBlock}
  BY <1>1 DEF State
<1> QED BY <1>1, <1>2, Parts, PathType

LEMMA OpenInv ==
    ASSUME Inv, Open
    PROVE  Inv'
<1>1. /\ RewoundRev = Num(Rewound.head)
      /\ chain' = Rewound /\ undo' = << >> /\ rev' = RewoundRev /\ pc' = "idle"
      /\ fdb' = IF Rewound.head = NoBlock THEN fdb ELSE StartBlock(fdb, Rewound.head)
      /\ UNCHANGED <<blocks, log, call, result, crashes>>
  BY DEF Open
<1>2. fdb' \in ForkDb
  <2>1. {} \in SUBSET Block
    OBVIOUS
  <2> QED BY <1>1, <2>1, Parts, RewoundType, ForkDbTypes
<1>3. UndoIn(blocks, chain', undo') /\ undo' \in Seq(Session)
  BY <1>1 DEF UndoIn
<1>4. CallOK' /\ pc' \in Place
  BY <1>1 DEF CallOK, Place
<1> QED BY <1>1, <1>2, <1>3, <1>4, Parts, RewoundType, Assemble

LEMMA ReindexInv ==
    ASSUME Inv, Reindex
    PROVE  Inv'
<1>1. /\ chain' = Genesis /\ undo' = << >> /\ rev' = 0
      /\ pc' = IF log = << >> THEN "idle" ELSE "replay"
      /\ UNCHANGED <<blocks, fdb, log, call, result, crashes>>
  BY DEF Reindex
<1>2. Genesis \in State /\ StateIn(blocks, Genesis) /\ Num(Genesis.head) = 0
  BY GenesisOK DEF Num, Path
<1>3. UndoIn(blocks, chain', undo') /\ undo' \in Seq(Session)
  BY <1>1 DEF UndoIn
<1>4. CallOK' /\ pc' \in Place
  BY <1>1 DEF CallOK, Place
<1> QED BY <1>1, <1>2, <1>3, <1>4, Parts, Assemble

LEMMA ReplayInv ==
    ASSUME Inv, Replay
    PROVE  Inv'
<1> DEFINE b == log[HeadNum + 1]
<1>1. /\ pc = "replay" /\ HeadNum < Len(log)
      /\ UNCHANGED <<blocks, undo, rev, log, call, result, crashes>>
      /\ \/ /\ Applies(chain, b)
            /\ chain' = Post(chain, b)
            /\ fdb' = SetMaxSize(fdb, Num(b) - Post(chain, b).lib + 1, {})
            /\ UNCHANGED pc
         \/ /\ pc' = "halted"
            /\ UNCHANGED <<chain, fdb>>
  BY DEF Replay
<1>2. b \in Block /\ log # << >> /\ undo = << >>
  <2>1. Len(log) \in Nat /\ HeadNum + 1 \in 1 .. Len(log) /\ log \in Seq(Block)
    BY <1>1, Parts
  <2> QED BY <1>1, <2>1, Parts DEF CallOK
<1> HIDE DEF b
<1>3. CASE /\ Applies(chain, b)
           /\ chain' = Post(chain, b)
           /\ fdb' = SetMaxSize(fdb, Num(b) - Post(chain, b).lib + 1, {})
           /\ UNCHANGED pc
  <2>1. Prev(b) = chain.head
    BY <1>3 DEF Applies
  <2>2. /\ Post(chain, b) \in State /\ Post(chain, b).head = b
        /\ StateIn(blocks, Post(chain, b))
    BY <1>2, <2>1, Parts, PostKeeps
  <2>3. Post(chain, b).lib <= Num(b) /\ Post(chain, b).lib \in Nat /\ Num(b) \in Nat
    <3>1. Post(chain, b).lib <= NumIn(blocks, b)
      BY <2>2 DEF StateIn
    <3> QED BY <1>2, <2>2, <3>1, Parts, PathType, SameIn DEF State
  <2>4. Num(b) - Post(chain, b).lib + 1 \in Nat /\ {} \in SUBSET Block
    BY <2>3
  <2>5. fdb' \in ForkDb
    BY <1>3, <2>4, Parts, ForkDbTypes
  <2>6. UndoIn(blocks, chain', undo') /\ undo' \in Seq(Session)
    BY <1>1, <1>2, Parts DEF UndoIn
  <2>7. CallOK' /\ pc' \in Place
    BY <1>1, <1>2, <1>3, Parts DEF CallOK, Place
  <2> QED BY <1>1, <1>2, <1>3, <2>2, <2>5, <2>6, <2>7, Parts, Assemble
<1>4. CASE pc' = "halted" /\ UNCHANGED <<chain, fdb>>
  <2>1. CallOK' /\ pc' \in Place
    BY <1>1, <1>2, <1>4 DEF CallOK, Place
  <2> QED BY <1>1, <1>4, <2>1, Parts, SameState
<1> QED BY <1>1, <1>3, <1>4

LEMMA ReplayDoneInv ==
    ASSUME Inv, ReplayDone
    PROVE  Inv'
<1>1. /\ pc = "replay" /\ rev' = HeadNum /\ pc' = "idle"
      /\ fdb' = StartBlock(fdb, Last(log))
      /\ UNCHANGED <<blocks, chain, undo, log, call, result, crashes>>
  BY DEF ReplayDone
<1>2. log # << >> /\ log \in Seq(Block)
  BY <1>1, Parts DEF CallOK
<1>3. Last(log) \in Block
  BY <1>2 DEF Last
<1>4. fdb' \in ForkDb
  <2>1. {} \in SUBSET Block
    OBVIOUS
  <2> QED BY <1>1, <1>3, <2>1, Parts, ForkDbTypes
<1>5. CallOK' /\ pc' \in Place
  BY <1>1 DEF CallOK, Place
<1>6. rev' = Num(chain'.head) /\ rev' \in Nat
  BY <1>1, Parts DEF HeadNum
<1> QED BY <1>1, <1>4, <1>5, <1>6, Parts, Assemble

LEMMA StutterInv ==
    ASSUME Inv, UNCHANGED vars
    PROVE  Inv'
<1>1. UNCHANGED <<blocks, fdb, chain, undo, rev, log, pc, call, result, crashes>>
  BY DEF vars
<1>2. CallOK'
  BY <1>1, Parts DEF CallOK, Block
<1>3. pc' \notin {"down", "replay", "halted"} \/ undo' # << >> => rev' = Num(chain'.head)
  BY <1>1, Parts DEF Running, HeadNum
<1> QED BY <1>1, <1>2, <1>3, Parts, Assemble

LEMMA NextInv ==
    Inv /\ [Next]_vars => Inv'
<1> SUFFICES ASSUME Inv, [Next]_vars
             PROVE  Inv'
  OBVIOUS
<1>1. ASSUME NEW p \in 0 .. Len(blocks), NEW w \in Producer, NEW f \in Fault, Produce(p, w, f)
      PROVE  Inv'
  BY <1>1, SignInv DEF Produce
<1>2. ASSUME NEW p \in 0 .. Len(blocks), NEW w \in Producer, NEW f \in Fault, DeliverNew(p, w, f)
      PROVE  Inv'
  BY <1>2, SignInv DEF DeliverNew, Deliver
<1>3. ASSUME NEW b \in Block, DeliverKnown(b)
      PROVE  Inv'
  BY <1>3, DeliverKnownInv
<1>4. CASE Step
  BY <1>4, PushBlockInv, PopStepInv, PopDoneInv, ApplyBlockInv, RejectBlockInv, LogBlocksInv,
     FailLateInv, OpenInv, ReindexInv, ReplayInv, ReplayDoneInv DEF Step
<1>5. CASE Crash
  BY <1>5, CrashInv
<1>6. CASE UNCHANGED vars
  BY <1>6, StutterInv
<1> QED BY <1>1, <1>2, <1>3, <1>4, <1>5, <1>6 DEF Next

\* Whatever is delivered, refused, unwound, lost in a crash or replayed, the
\* chain database is in a state the invariant describes.
THEOREM Safety ==
    Spec => []Inv
  BY InitInv, NextInv, PTL DEF Spec

\* The variables have their types.
THEOREM TypeCorrect ==
    Spec => []TypeOK
<1>1. Inv => TypeOK
  BY DEF Inv
<1> QED BY <1>1, Safety, PTL

\* The revision is the head block number, and each open session takes back one
\* block of the chain: what open() and commit() rely on.
THEOREM UndoFollows ==
    Spec => []UndoFollowsChain
<1>1. Inv => UndoFollowsChain
  <2> SUFFICES ASSUME Inv, Running
               PROVE  /\ rev = HeadNum
                      /\ chain.lib \in 0 .. HeadNum
                      /\ \A k \in 1 .. Len(undo) :
                            /\ undo[k].revision = rev - Len(undo) + k
                            /\ undo[k].state.head = Anc(chain.head, undo[k].revision - 1)
    BY DEF UndoFollowsChain
  <2>1. rev = HeadNum /\ chain.lib \in 0 .. HeadNum
    BY Parts
  <2>2. ASSUME NEW k \in 1 .. Len(undo)
        PROVE  /\ undo[k].revision = rev - Len(undo) + k
               /\ undo[k].state.head = Anc(chain.head, undo[k].revision - 1)
    BY <2>1, Parts, SessionFacts DEF HeadNum
  <2> QED BY <2>1, <2>2
<1> QED BY <1>1, Safety, PTL

\* A replay of the blocks up to b has one outcome.
LEMMA ReplayedIs ==
    ASSUME TreeInv, NEW b \in Block \cup {NoBlock}, NEW r, Replays(blocks, r, b)
    PROVE  Replayed(b) = r[Num(b)]
<1> DEFINE N == Num(b)
           Step1(g, n) == IF n = 0 THEN Genesis ELSE Post(g[n - 1], Anc(b, n))
           g0 == [n \in 0 .. N |-> r[n]]
           Solves(g) == g = [n \in 0 .. N |-> IF n = 0 THEN Genesis ELSE Post(g[n - 1], Anc(b, n))]
<1>1. N \in Nat /\ N = NumIn(blocks, b)
  BY PathType, SameIn
<1>2. /\ r[0] = Genesis
      /\ \A n \in 1 .. N : r[n] = Post(r[n - 1], Anc(b, n))
  <2>1. r[0] = Genesis /\ \A n \in 1 .. N : r[n] = PostIn(blocks, r[n - 1], AncIn(blocks, b, n))
    BY <1>1 DEF Replays
  <2> QED BY <2>1, SameIn
<1>3. Replayed(b) = (CHOOSE g : Solves(g))[N]
  BY DEF Replayed
<1> HIDE DEF N
<1>4. \A n \in 0 .. N : n = 0 \/ (n \in 1 .. N /\ n - 1 \in 0 .. N)
  BY <1>1
<1>5. Solves(g0)
  <2>1. \A n \in 0 .. N : g0[n] = IF n = 0 THEN Genesis ELSE Post(g0[n - 1], Anc(b, n))
    BY <1>2, <1>4
  <2> QED BY <2>1
<1>6. ASSUME NEW g, Solves(g)
      PROVE  g[N] = r[N]
  <2> DEFINE bad == {n \in 0 .. N : g[n] # r[n]}
  <2>1. \A n \in 0 .. N : g[n] = IF n = 0 THEN Genesis ELSE Post(g[n - 1], Anc(b, n))
    BY <1>6
  <2> HIDE DEF Solves
  <2>2. ASSUME bad # {}
        PROVE  FALSE
    <3>1. bad \subseteq Nat
      BY <1>1
    <3>2. PICK m \in bad : \A y \in bad : m <= y
      BY <2>2, <3>1, NatMin
    <3>3. m \in 0 .. N /\ g[m] # r[m]
      OBVIOUS
    <3>4. m # 0
      BY <1>2, <2>1, <3>3
    <3>5. m \in 1 .. N /\ m - 1 \in 0 .. N /\ ~(m <= m - 1)
      BY <1>1, <3>3, <3>4
    <3>6. g[m - 1] = r[m - 1]
      BY <3>2, <3>5
    <3>7. g[m] = Post(g[m - 1], Anc(b, m)) /\ r[m] = Post(r[m - 1], Anc(b, m))
      BY <1>2, <2>1, <3>3, <3>4, <3>5
    <3> QED BY <3>3, <3>6, <3>7
  <2>3. N \in 0 .. N
    BY <1>1
  <2> QED BY <2>2, <2>3
<1>7. Solves(CHOOSE g : Solves(g))
  <2> HIDE DEF Solves
  <2> QED BY <1>5
<1>8. (CHOOSE g : Solves(g))[N] = r[N]
  <2> HIDE DEF Solves
  <2> QED BY <1>6, <1>7
<1> QED BY <1>3, <1>8 DEF N

\* The state, and every state an open session can take it back to, is what a
\* replay of the blocks below its head gives, after any history of switches,
\* failed pushes, crashes and reindexes.
THEOREM StateReplays ==
    Spec => []StateIsReplay
<1>1. ASSUME Inv, NEW s \in State, StateIn(blocks, s)
      PROVE  s = Replayed(s.head)
  <2>1. s.head \in Block \cup {NoBlock} /\ TreeInv
    BY <1>1, Parts DEF State
  <2>2. PICK r : Replays(blocks, r, s.head) /\ s = r[NumIn(blocks, s.head)]
    BY <1>1 DEF StateIn
  <2>3. Replayed(s.head) = r[Num(s.head)]
    BY <2>1, <2>2, ReplayedIs
  <2> QED BY <2>2, <2>3, SameIn
<1>2. Inv => StateIsReplay
  <2> SUFFICES ASSUME Inv
               PROVE  StateIsReplay
    OBVIOUS
  <2>1. chain = Replayed(chain.head)
    BY <1>1, Parts
  <2>2. ASSUME NEW k \in 1 .. Len(undo)
        PROVE  undo[k].state = Replayed(undo[k].state.head)
    BY <1>1, Parts, SessionFacts
  <2> QED BY <2>1, <2>2 DEF StateIsReplay
<1> QED BY <1>2, Safety, PTL

\* A block that voting made irreversible has the threshold's share of the
\* bobservers behind it on this chain.
THEOREM LibQuorum ==
    Spec => []LibHasQuorum
<1>1. Inv => LibHasQuorum
  <2> DEFINE lib == chain.lib
             H == HeadNum
             C == Cardinality(Producer)
             below == {w \in Producer : chain.conf[w] < lib}
             above == {blocks[Anc(chain.head, n)].producer : n \in lib .. H}
  <2> SUFFICES ASSUME Inv, lib >= StartVoting
               PROVE  100 * Cardinality(above) >= IrreversiblePercent * C
    BY DEF LibHasQuorum
  <2>1. lib \in Nat /\ H \in Nat /\ lib > 0 /\ StartVoting \in Nat
    BY Parts, ChainConstants
  <2>2. H = NumIn(blocks, chain.head) /\ \A n : Anc(chain.head, n) = AncIn(blocks, chain.head, n)
    BY SameIn DEF HeadNum
  <2>3. Cardinality(below) <= Offset
    BY Parts DEF StateIn
  <2>4. \A w \in Producer : /\ chain.conf[w] \in Nat /\ chain.conf[w] <= H
                            /\ chain.conf[w] # 0 => blocks[Anc(chain.head, chain.conf[w])].producer = w
    <3>1. chain.conf \in [Producer -> Nat]
      BY Parts DEF State
    <3>2. StateIn(blocks, chain)
      BY Parts
    <3>3. \A w \in Producer :
             /\ chain.conf[w] <= NumIn(blocks, chain.head)
             /\ chain.conf[w] # 0 =>
                   blocks[AncIn(blocks, chain.head, chain.conf[w])].producer = w
      BY <3>2, Zenon DEF StateIn
    <3>4. \A w \in Producer : chain.conf[w] \in Nat
      BY <3>1
    <3> QED BY <2>2, <3>3, <3>4, Zenon
  <2>5. \A w \in Producer : w \notin below => w \in above
    <3> SUFFICES ASSUME NEW w \in Producer, w \notin below
                 PROVE  w \in above
      BY Zenon
    <3> DEFINE n == chain.conf[w]
    <3>0. ~(chain.conf[w] < lib)
      BY Zenon
    <3>1. n \in Nat /\ n <= H /\ ~(n < lib)
      BY <2>4, <3>0
    <3>2. n # 0 => blocks[Anc(chain.head, n)].producer = w
      BY <2>4
    <3> HIDE DEF n, lib, H
    <3>3. n \in lib .. H /\ n # 0
      BY <2>1, <3>1
    <3> QED BY <3>2, <3>3
  <2>6. \A w \in above : w \in Producer
    <3> SUFFICES ASSUME NEW n \in lib .. H
                 PROVE  blocks[Anc(chain.head, n)].producer \in Producer
      OBVIOUS
    <3>1. n \in 0 .. Num(chain.head) /\ n # 0
      BY <2>1 DEF HeadNum
    <3>2. Anc(chain.head, n) \in Block
      BY <3>1, Parts, AncFacts
    <3>3. blocks[Anc(chain.head, n)] \in SignedBlock
      <4>1. blocks \in Seq(SignedBlock)
        BY Parts DEF TreeInv
      <4> QED BY <3>2, <4>1 DEF Block
    <3> QED BY <3>3 DEF SignedBlock
  <2> HIDE DEF above, below, lib, H
  <2>7. below \in SUBSET Producer
    BY DEF below
  <2>8. IsFiniteSet(Producer) /\ IsFiniteSet(below) /\ IsFiniteSet(above) /\ IsFiniteSet(Producer \ below)
    <3>1. above \in SUBSET Producer /\ Producer \ below \in SUBSET Producer
      BY <2>6
    <3> QED BY <2>7, <3>1, ChainConstants, FS_Subset
  <2>9. Cardinality(Producer \ below) = C - Cardinality(Producer \cap below)
    BY <2>8, FS_Difference
  <2>10. Producer \cap below = below
    BY <2>7
  <2>11. Cardinality(Producer \ below) <= Cardinality(above)
    <3>1. Producer \ below \in SUBSET above
      BY <2>5
    <3> QED BY <2>8, <3>1, FS_Subset
  <2>12. C \in Nat /\ Cardinality(below) \in Nat /\ Cardinality(above) \in Nat
    BY <2>8, FS_CardinalityType
  <2> DEFINE B == Cardinality(below)
             A == Cardinality(above)
             Q == IrreversiblePercent * C
  <2>13. C - B <= A /\ B <= Offset /\ C \in Nat /\ B \in Nat /\ A \in Nat
    BY <2>3, <2>9, <2>10, <2>11, <2>12
  <2>14. Offset \in Nat /\ 100 * Offset <= 100 * C - Q
    BY OffsetFacts
  <2>15. Q \in Int
    BY <2>12, ChainConstants
  <2> HIDE DEF A, B, C, Q
  <2>16. 100 * A >= Q
    BY <2>13, <2>14, <2>15
  <2> QED BY <2>16 DEF A, Q, C
<1> QED BY <1>1, Safety, PTL

LEMMA PrefixOf ==
    ASSUME NEW s \in Seq(Nat), NEW t \in Seq(Nat), NEW n \in 0 .. Len(s), n <= Len(t),
           \A i \in 1 .. n : s[i] = t[i]
    PROVE  IsPrefix(SubSeq(s, 1, n), t)
<1>1. n \in Nat /\ n <= Len(s) /\ Len(s) \in Nat /\ Len(t) \in Nat
  OBVIOUS
<1> DEFINE p == SubSeq(s, 1, n)
<1>2. p \in Seq(Nat) /\ Len(p) = n /\ \A i \in 1 .. n : p[i] = s[i]
  BY <1>1
<1> HIDE DEF p
<1>3. SubSeq(p, 1, n) = SubSeq(t, 1, n)
  <2>1. \A q \in Seq(Nat) : n <= Len(q) => /\ SubSeq(q, 1, n) \in Seq(Nat)
                                          /\ Len(SubSeq(q, 1, n)) = n
                                          /\ \A i \in 1 .. n : SubSeq(q, 1, n)[i] = q[i]
    BY <1>1
  <2> DEFINE a == SubSeq(p, 1, n)
             c == SubSeq(t, 1, n)
  <2>2. /\ a \in Seq(Nat) /\ Len(a) = n /\ \A i \in 1 .. n : a[i] = p[i]
        /\ c \in Seq(Nat) /\ Len(c) = n /\ \A i \in 1 .. n : c[i] = t[i]
    BY <1>1, <1>2, <2>1
  <2> HIDE DEF a, c
  <2>3. a = c
    BY <1>2, <2>2, SeqEqual
  <2> QED BY <2>3 DEF a, c
<1> QED BY <1>1, <1>2, <1>3 DEF IsPrefix, p

\* How a step moves the head: to a block on top of it, or down to an ancestor
\* that is not below the last irreversible block.
LEMMA HeadMoves ==
    ASSUME Inv, [Next]_vars, ~Reindex, pc # "replay"
    PROVE  \/ Extends(blocks') /\ chain'.head = chain.head
           \/ /\ blocks' = blocks
              /\ \E b \in Block : Prev(b) = chain.head /\ chain'.head = b
           \/ /\ blocks' = blocks
              /\ \E n \in chain.lib .. HeadNum : chain'.head = Anc(chain.head, n)
<1>1. ASSUME NEW p \in 0 .. Len(blocks), NEW w \in Producer, NEW f \in Fault,
             Produce(p, w, f) \/ DeliverNew(p, w, f)
      PROVE  Extends(blocks') /\ chain' = chain
  <2>1. Sign(p, w, f) /\ chain' = chain
    BY <1>1 DEF Produce, DeliverNew, Deliver
  <2> QED BY <2>1, Parts, SignKeepsTree DEF Extends
<1>2. ASSUME blocks' = blocks, chain' = chain
      PROVE  Extends(blocks') /\ chain'.head = chain.head
  BY <1>2 DEF Extends
<1>3. ASSUME UndoLast, blocks' = blocks
      PROVE  \/ chain' = chain
             \/ \E n \in chain.lib .. HeadNum : chain'.head = Anc(chain.head, n)
  <2>1. CASE undo = << >>
    BY <1>3, <2>1 DEF UndoLast
  <2>2. CASE undo # << >>
    <3>1. chain' = Last(undo).state
      BY <1>3, <2>2 DEF UndoLast
    <3>2. /\ HeadNum # 0
          /\ Last(undo).state.head = Anc(chain.head, HeadNum - 1)
          /\ chain.lib <= HeadNum - 1
      BY <2>2, Parts, UndoPop DEF HeadNum
    <3>3. HeadNum - 1 \in chain.lib .. HeadNum
      BY <3>2, Parts
    <3> QED BY <3>1, <3>2, <3>3
  <2> QED BY <2>1, <2>2
<1>4. CASE PushBlock \/ PopDone \/ PopBadDone \/ RejectBlock \/ LogBlocks \/ Crash \/ ReplayDone
  BY <1>2, <1>4 DEF PushBlock, PopDone, PopBadDone, RejectBlock, LogBlocks, Crash, ReplayDone
<1>5. CASE PopStep
  <2>1. blocks' = blocks /\ (UndoLast \/ chain' = chain)
    BY <1>5 DEF PopStep, PopBlock
  <2> QED BY <1>2, <1>3, <2>1
<1>6. CASE FailLate
  <2>1. blocks' = blocks /\ UndoLast
    BY <1>6 DEF FailLate
  <2> QED BY <1>2, <1>3, <2>1
<1>7. CASE ApplyBlock
  <2>1. /\ pc = "apply" /\ Prev(Current) = chain.head /\ blocks' = blocks
        /\ chain' = Post(chain, Current)
    BY <1>7 DEF ApplyBlock, Applies
  <2>2. Current \in Block
    BY <2>1, CurrentType
  <2>3. chain'.head = Current
    BY <2>1 DEF Post
  <2> QED BY <2>1, <2>2, <2>3
<1>8. CASE Open
  <2>1. blocks' = blocks /\ chain' = Rewound
    BY <1>8 DEF Open
  <2>2. CASE undo = << >>
    BY <1>2, <2>1, <2>2 DEF Rewound
  <2>3. CASE undo # << >>
    BY <2>1, <2>3, RewoundType
  <2> QED BY <2>2, <2>3
<1>9. CASE \E b \in Block : DeliverKnown(b)
  BY <1>2, <1>9 DEF DeliverKnown, Deliver
<1>10. CASE UNCHANGED vars
  BY <1>2, <1>10 DEF vars
<1>11. ~Replay
  BY DEF Replay
<1> QED BY <1>1, <1>4, <1>5, <1>6, <1>7, <1>8, <1>9, <1>10, <1>11 DEF Next, Step

\* No switch of forks, no failed push and no restart takes back an irreversible
\* block: it stays on the chain until a reindex starts again from the block log.
THEOREM IrreversibleStays ==
    Spec => CommittedStay
<1>1. ASSUME Inv, [Next]_vars, ~Reindex, pc # "replay"
      PROVE  IsPrefix(SubSeq(Path(chain.head), 1, chain.lib), Path(chain.head)')
  <2> DEFINE s == Path(chain.head)
             n == chain.lib
             t == PathIn(blocks', chain'.head)
  <2>1. Path(chain.head)' = t
    BY DEF Path, PathIn
  <2>2. /\ s \in Seq(Nat) /\ n \in 0 .. Len(s) /\ n \in Nat /\ s = PathIn(blocks, chain.head)
        /\ Len(s) = HeadNum /\ chain.head \in Block \cup {NoBlock} /\ TreeInv
    <3>1. s \in Seq(Nat) /\ Len(s) = HeadNum
      BY <1>1, Parts, PathType DEF HeadNum, Num
    <3> QED BY <1>1, <3>1, Parts, SameIn
  <2>3. t \in Seq(Nat) /\ n <= Len(t) /\ \A i \in 1 .. n : s[i] = t[i]
    <3>1. CASE Extends(blocks') /\ chain'.head = chain.head
      <4>1. t = s
        BY <2>2, <3>1, MoreBlocks
      <4> HIDE DEF t, s, n
      <4> QED BY <2>2, <4>1
    <3>2. CASE /\ blocks' = blocks
               /\ \E b \in Block : Prev(b) = chain.head /\ chain'.head = b
      <4>1. PICK b \in Block : Prev(b) = chain.head /\ chain'.head = b
        BY <3>2
      <4>2. t = Append(s, b) /\ b \in Nat
        <5>1. t = Path(b)
          BY <3>2, <4>1, SameIn
        <5> QED BY <2>2, <4>1, <5>1, PrevFacts DEF Block
      <4> HIDE DEF t, s, n
      <4> QED BY <2>2, <4>2
    <3>3. CASE /\ blocks' = blocks
               /\ \E m \in chain.lib .. HeadNum : chain'.head = Anc(chain.head, m)
      <4>1. PICK m \in n .. HeadNum : chain'.head = Anc(chain.head, m)
        BY <3>3
      <4>2. m \in 0 .. Num(chain.head) /\ m \in Nat /\ m <= Len(s) /\ n <= m
        BY <2>2 DEF HeadNum
      <4>3. t = SubSeq(s, 1, m)
        <5>1. Path(Anc(chain.head, m)) = SubSeq(s, 1, m)
          BY <2>2, <4>2, AncFacts
        <5> QED BY <3>3, <4>1, <5>1, SameIn
      <4> HIDE DEF t, s, n
      <4>4. Len(t) = m /\ t \in Seq(Nat) /\ \A i \in 1 .. m : t[i] = s[i]
        BY <2>2, <4>2, <4>3
      <4>5. \A i \in 1 .. n : i \in 1 .. m
        BY <2>2, <4>2
      <4> QED BY <2>2, <4>2, <4>4, <4>5
    <3> QED BY <1>1, <3>1, <3>2, <3>3, HeadMoves
  <2> HIDE DEF s, t, n
  <2>4. IsPrefix(SubSeq(s, 1, n), t)
    BY <2>2, <2>3, PrefixOf
  <2> QED BY <2>1, <2>4 DEF s, n
<1>2. Inv /\ [Next]_vars =>
         [~Reindex /\ pc # "replay" =>
             IsPrefix(SubSeq(Path(chain.head), 1, chain.lib), Path(chain.head)')]_vars
  BY <1>1
<1> QED BY <1>2, Safety, PTL DEF Spec, CommittedStay

-----------------------------------------------------------------------------
(* What does depend on the fork database: that the head is in it, that the *)
(* irreversible blocks are found in it and logged, that a switch gets      *)
(* through and that a restart finds the head in the log.  It holds as long *)
(* as the two things the code does not guard against do not happen.        *)

\* b is on the chain that the block log l holds, as far as both go.
Agrees(b, l) == \A n \in 1 .. Len(l) : n <= Num(b) => Anc(b, n) = l[n]

\* A block that is higher than the chain is built on the blocks of the log; a
\* switch makes no block irreversible beyond the first of the branch it puts on;
\* and the blocks that get as far as being applied are valid, and not too far
\* above the last irreversible one.  Nothing is said of stale forks, of the order
\* of delivery or of crashes.
Orderly ==
    /\ pc = "push" /\ Num(call.block) > HeadNum => Agrees(call.block, log)
    /\ pc = "log" /\ call.mode = "switch" => chain.lib <= Num(ForkPoint) + 1
    /\ pc \in {"apply", "log"} => blocks[Current].fault = "ok"
    /\ pc = "apply" => Num(Current) - chain.lib < MaxUndoHistory

\* From a block above number n the weak pointers lead down through the index.
Closed(f, n) ==
    \A b \in f.index : Num(b) > 1 /\ Num(b) > n => Prev(b) \in f.index /\ b \notin f.expired

\* The fork database f in use: it has the head of the chain c, and nothing above
\* number top.
Kept(f, c, n, top) ==
    /\ f.head # NoBlock
    /\ c.head # NoBlock => c.head \in f.index
    /\ \A b \in f.index : Num(b) <= top
    /\ Closed(f, n)

Bare(f) == f.head = NoBlock /\ f.index = {}

\* Between calls.  Before the first block is applied the fork database takes any
\* block as its first; one above number 1 then stays its head.
AtRest(f, c, l) ==
    \/ c.head = NoBlock /\ (Bare(f) \/ Num(f.head) >= 2)
    \/ c.head # NoBlock /\ Kept(f, c, Len(l), Num(c.head)) /\ Num(f.head) <= Num(c.head)

\* The block below both branches, and the new branch, in the hands of call k.
Fork(k) == Prev(Last(k.second))
NewBranch(k) ==
    /\ Fork(k) \in Block \cup {NoBlock}
    /\ Len(k.first) = Num(k.block) - Num(Fork(k))
    /\ \A i \in 1 .. Len(k.first) : k.first[i] = Anc(k.block, Num(k.block) + 1 - i)

\* In the middle of a call: the head of the fork database is on the way to the
\* block that was pushed, though not always at its end.
Midway(f, c, l, k) ==
    /\ k.block \in f.index
    /\ Kept(f, c, Len(l), Num(k.block))
    /\ Agrees(k.block, l)
    /\ f.head = Anc(k.block, Num(f.head)) /\ Num(f.head) <= Num(k.block)
    /\ k.mode = "direct" => f.head = k.block
    /\ k.mode = "switch" => NewBranch(k) /\ Len(l) <= Num(c.head)

\* Taking off the old branch: the fork database's head comes down with it.
Popping(f, c, l, k) ==
    /\ k.mode = "switch"
    /\ k.at = Len(k.first)
    /\ Num(f.head) = Num(c.head) + 1
    /\ Num(c.head) >= 1 => ~f.headCut
    /\ Len(l) <= Num(Fork(k)) /\ Num(Fork(k)) <= Num(c.head)
    /\ Anc(k.block, Num(Fork(k))) = Fork(k)
    /\ Anc(c.head, Num(Fork(k))) = Fork(k)

\* Putting on the new branch: d is 1 when the block at k.at is on.
Putting(f, c, l, k, d) ==
    /\ k.mode \in {"direct", "switch"}
    /\ k.mode = "direct" => k.at = 1
    /\ k.mode = "switch" => Num(f.head) = Num(Fork(k)) + 1
    /\ k.at \in 1 .. Num(k.block)
    /\ c.head = Anc(k.block, Num(k.block) - k.at + d)
    /\ Num(f.head) <= Num(k.block) - k.at + 1
    /\ Num(f.head) > 1 /\ Num(f.head) > Len(l) + 1 => ~f.headCut

\* The block log holds one chain.
LogChain(l) == \A n \in 1 .. Len(l) : Num(l[n]) = n /\ Agrees(l[n], l)

\* The log is behind the last irreversible block only until the call that moved
\* it has logged what became irreversible, and no session below it is needed.
LogOK(c, u, l, p) ==
    /\ LogChain(l)
    /\ p \in {"idle", "push", "pop", "apply", "log"} =>
          /\ Agrees(c.head, l)
          /\ \/ Num(c.head) - Len(u) <= Len(l)
             \/ p = "log" /\ Num(c.head) - Len(u) <= c.lib
          /\ p # "log" => c.lib <= Len(l)
    /\ p = "replay" /\ c.head # NoBlock => Num(c.head) <= Len(l) /\ c.head = l[Num(c.head)]

\* Where the call is.
CallAt(f, c, l, p, k) ==
    /\ p # "popbad"
    /\ p \in {"down", "replay"} => Bare(f)
    /\ p \in {"idle", "push"} => AtRest(f, c, l)
    /\ p = "push" => k.entry = c.head
    /\ p \in {"pop", "apply", "log"} => Midway(f, c, l, k)
    /\ p = "pop" => Popping(f, c, l, k)
    /\ p = "apply" => Putting(f, c, l, k, 0)
    /\ p = "log" => Putting(f, c, l, k, 1)

ForkInv == LogOK(chain, undo, log, pc) /\ CallAt(fdb, chain, log, pc, call)

-----------------------------------------------------------------------------
LEMMA NumFacts ==
    ASSUME TreeInv
    PROVE  /\ \A b \in Block \cup {NoBlock} : Num(b) \in Nat
           /\ \A b \in Block : Num(b) >= 1 /\ b # NoBlock
           /\ \A b \in Block : /\ Prev(b) \in Block \cup {NoBlock} /\ Num(Prev(b)) = Num(b) - 1
                               /\ Prev(b) = Anc(b, Num(b) - 1)
                               /\ Prev(b) = NoBlock <=> Num(b) = 1
           /\ Num(NoBlock) = 0
<1>1. \A b \in Block \cup {NoBlock} : Num(b) \in Nat /\ (Num(b) = 0 <=> b = NoBlock)
  BY PathType
<1>2. \A b \in Block : b # NoBlock
  BY DEF Block, NoBlock
<1>3. \A b \in Block : Num(b) >= 1
  BY <1>1, <1>2
<1>4. ASSUME NEW b \in Block
      PROVE  /\ Prev(b) \in Block \cup {NoBlock} /\ Num(Prev(b)) = Num(b) - 1
             /\ Prev(b) = Anc(b, Num(b) - 1)
             /\ Prev(b) = NoBlock <=> Num(b) = 1
  <2>1. /\ Prev(b) \in Block \cup {NoBlock}
        /\ Num(b) = Num(Prev(b)) + 1
        /\ \A m \in 0 .. Num(Prev(b)) : Anc(b, m) = Anc(Prev(b), m)
    BY PrevFacts
  <2>2. Num(Prev(b)) \in Nat /\ (Num(Prev(b)) = 0 <=> Prev(b) = NoBlock)
    BY <1>1, <2>1
  <2>3. Num(Prev(b)) = Num(b) - 1 /\ Num(b) - 1 \in 0 .. Num(Prev(b))
    BY <2>1, <2>2
  <2>4. Anc(Prev(b), Num(Prev(b))) = Prev(b)
    <3>1. CASE Prev(b) = NoBlock
      BY <2>2, <3>1 DEF Anc
    <3>2. CASE Prev(b) \in Block
      BY <3>2, PrevFacts
    <3> QED BY <2>1, <3>1, <3>2
  <2>5. Prev(b) = NoBlock <=> Num(b) = 1
    BY <2>1, <2>2
  <2>6. Anc(b, Num(b) - 1) = Anc(Prev(b), Num(Prev(b)))
    BY <2>1, <2>3
  <2> QED BY <2>1, <2>3, <2>4, <2>5, <2>6
<1> QED BY <1>1, <1>2, <1>3, <1>4

\* Between two ancestors of a block.
LEMMA AncPrev ==
    ASSUME TreeInv, NEW b \in Block \cup {NoBlock}, NEW n \in 1 .. Num(b)
    PROVE  /\ Anc(b, n) \in Block /\ Num(Anc(b, n)) = n /\ Prev(Anc(b, n)) = Anc(b, n - 1)
           /\ Anc(b, Num(b)) = b
<1>1. n \in 0 .. Num(b) /\ n # 0 /\ n - 1 \in 0 .. n /\ Num(b) \in Nat
  BY NumFacts
<1>2. Anc(b, n) \in Block /\ Num(Anc(b, n)) = n /\ \A m \in 0 .. n : Anc(Anc(b, n), m) = Anc(b, m)
  BY <1>1, AncFacts
<1>3. Prev(Anc(b, n)) = Anc(Anc(b, n), n - 1)
  BY <1>2, NumFacts
<1>4. b \in Block
  BY <1>1, NumFacts
<1> QED BY <1>1, <1>2, <1>3, <1>4, PrevFacts

\* The weak pointers lead from a block of the index to its ancestors.
LEMMA ClosedBelow ==
    ASSUME TreeInv, NEW f \in ForkDb, NEW l \in Nat, Closed(f, l), NEW b \in f.index,
           NEW n \in 1 .. Num(b), n >= l
    PROVE  /\ Anc(b, n) \in f.index
           /\ n > l /\ n > 1 => Anc(b, n) \notin f.expired
<1> DEFINE bad == {m \in n .. Num(b) : Anc(b, m) \notin f.index}
           N == Num(b)
<1>1. b \in Block /\ N \in Nat /\ N >= 1 /\ Anc(b, N) = b
  <2>1. b \in Block
    BY DEF ForkDb
  <2> QED BY <2>1, NumFacts, PrevFacts
<1>2. ASSUME bad # {}
      PROVE  FALSE
  <2>1. bad \subseteq 0 .. N
    BY <1>1
  <2>2. PICK m \in bad : \A y \in bad : y <= m
    BY <1>1, <1>2, <2>1, NatMax
  <2>3. m \in n .. N /\ Anc(b, m) \notin f.index
    OBVIOUS
  <2>4. m # N
    BY <1>1, <2>3
  <2>5. m + 1 \in n .. N /\ m + 1 \in 1 .. N /\ ~(m + 1 <= m) /\ m + 1 > l /\ m + 1 > 1 /\ m + 1 - 1 = m
    BY <1>1, <2>3, <2>4
  <2>6. Anc(b, m + 1) \in f.index
    BY <2>2, <2>5
  <2>7. Num(Anc(b, m + 1)) = m + 1 /\ Prev(Anc(b, m + 1)) = Anc(b, m)
    BY <1>1, <2>5, AncPrev
  <2> QED BY <2>3, <2>5, <2>6, <2>7 DEF Closed
<1>3. Anc(b, n) \in f.index
  BY <1>1, <1>2
<1>4. Num(Anc(b, n)) = n
  BY <1>1, AncPrev
<1> QED BY <1>3, <1>4 DEF Closed

\* Sweeping empties weak pointers only to what is gone.
LEMMA SweepFacts ==
    ASSUME NEW f \in ForkDb, NEW held
    PROVE  /\ Sweep(f, held).index = f.index /\ Sweep(f, held).head = f.head
           /\ \A b \in f.index : b \notin f.expired /\ Prev(b) # NoBlock /\ Prev(b) \in f.index
                                    => b \notin Sweep(f, held).expired
           /\ f.head # NoBlock /\ ~f.headCut /\ Prev(f.head) # NoBlock /\ Prev(f.head) \in f.index
                 => ~Sweep(f, held).headCut
<1> DEFINE alive == f.index \cup held \cup {f.head}
           cut(b) == Prev(b) = NoBlock \/ Prev(b) \notin alive
           x == {b \in f.index \cup held : b \in f.expired \/ cut(b)}
           y == f.head = NoBlock \/ f.headCut \/ cut(f.head)
<1>1. Sweep(f, held) = [f EXCEPT !.expired = x, !.headCut = y]
  BY DEF Sweep
<1>2. ASSUME NEW b \in f.index, b \notin f.expired, Prev(b) # NoBlock, Prev(b) \in f.index
      PROVE  b \notin x
  BY <1>2
<1>3. ASSUME f.head # NoBlock, ~f.headCut, Prev(f.head) # NoBlock, Prev(f.head) \in f.index
      PROVE  ~y
  BY <1>3
<1> HIDE DEF x, y
<1>4. /\ Sweep(f, held).index = f.index /\ Sweep(f, held).head = f.head
      /\ Sweep(f, held).expired = x /\ Sweep(f, held).headCut = y
  BY <1>1 DEF ForkDb
<1> QED BY <1>2, <1>3, <1>4

LEMMA SweepKeeps ==
    ASSUME TreeInv, NEW f \in ForkDb, NEW held
    PROVE  /\ \A n : Closed(f, n) => Closed(Sweep(f, held), n)
           /\ \A c, n, top : Kept(f, c, n, top) => Kept(Sweep(f, held), c, n, top)
           /\ Bare(f) => Bare(Sweep(f, held))
<1>1. f.index \subseteq Block
  BY DEF ForkDb
<1>2. ASSUME NEW n, Closed(f, n)
      PROVE  Closed(Sweep(f, held), n)
  <2> SUFFICES ASSUME NEW b \in f.index, Num(b) > 1, Num(b) > n
               PROVE  Prev(b) \in f.index /\ b \notin Sweep(f, held).expired
    BY SweepFacts DEF Closed
  <2>1. Prev(b) \in f.index /\ b \notin f.expired
    BY <1>2 DEF Closed
  <2>2. Prev(b) # NoBlock
    BY <1>1, <2>1 DEF Block, NoBlock
  <2> QED BY <2>1, <2>2, SweepFacts
<1>3. ASSUME NEW c, NEW n, NEW top, Kept(f, c, n, top)
      PROVE  Kept(Sweep(f, held), c, n, top)
  BY <1>2, <1>3, SweepFacts DEF Kept
<1>4. Bare(f) => Bare(Sweep(f, held))
  BY SweepFacts DEF Bare
<1> QED BY <1>2, <1>3, <1>4

\* A block that links enters the index, and becomes the head when it is higher.
LEMMA PushFacts ==
    ASSUME TreeInv, NEW f \in ForkDb, NEW b \in Block
    PROVE  /\ PushItem(f, b).index = f.index \cup {b}
           /\ f.head = NoBlock \/ Num(b) > Num(f.head) => PushItem(f, b).head = b
           /\ ~(f.head = NoBlock \/ Num(b) > Num(f.head)) => PushItem(f, b).head = f.head
           /\ (f.head = NoBlock \/ Num(b) > Num(f.head)) /\ Prev(b) \in f.index
                 => ~PushItem(f, b).headCut
           /\ \A n : Closed(f, n) /\ (Prev(b) = NoBlock \/ Prev(b) \in f.index)
                        => Closed(PushItem(f, b), n)
<1> DEFINE fresh == b \notin f.index
           wins == f.head = NoBlock \/ Num(b) > Num(f.head)
           i == f.index \cup {b}
           x == IF fresh THEN (f.expired \ {b}) \cup {c \in f.index : Prev(c) = b} ELSE f.expired
           h == IF wins THEN b ELSE f.head
           y == ~wins /\ f.headCut
           g == [f EXCEPT !.index = i, !.expired = x, !.head = h, !.headCut = y]
<1>1. i \in SUBSET Block /\ x \in SUBSET Block
  BY DEF ForkDb
<1>2. h \in Block
  BY DEF ForkDb
<1>3. y \in BOOLEAN /\ (wins => h = b /\ ~y) /\ (~wins => h = f.head)
  OBVIOUS
<1>4. PushItem(f, b) = Sweep(g, {})
  BY DEF PushItem
<1>5. /\ \A c \in i : c \in f.index \/ c = b
      /\ f.index \subseteq i /\ b \in i
      /\ fresh => b \notin x /\ \A c \in f.index : c \in x => c \in f.expired \/ Prev(c) = b
      /\ ~fresh => x = f.expired
  <2>1. b \notin {c \in f.index : Prev(c) = b} \/ ~fresh
    OBVIOUS
  <2> QED BY <2>1
<1> HIDE DEF i, x, h, y
<1>6. g \in ForkDb /\ g.index = i /\ g.expired = x /\ g.head = h /\ g.headCut = y
  BY <1>1, <1>2, <1>3 DEF ForkDb
<1> HIDE DEF g
<1>7. PushItem(f, b).index = i /\ PushItem(f, b).head = h
  BY <1>4, <1>6, SweepFacts
<1>8. ASSUME wins, Prev(b) \in f.index
      PROVE  ~PushItem(f, b).headCut
  <2>1. Prev(b) # NoBlock /\ b # NoBlock
    BY <1>8, NumFacts DEF ForkDb
  <2> QED BY <1>3, <1>4, <1>5, <1>6, <1>8, <2>1, SweepFacts
<1>9. ASSUME NEW n, Closed(f, n), Prev(b) = NoBlock \/ Prev(b) \in f.index
      PROVE  Closed(PushItem(f, b), n)
  <2>1. Closed(g, n)
    <3> SUFFICES ASSUME NEW c \in i, Num(c) > 1, Num(c) > n
                 PROVE  Prev(c) \in i /\ c \notin x
      BY <1>6 DEF Closed
    <3>1. CASE c \in f.index
      <4>1. Prev(c) \in f.index /\ c \notin f.expired
        BY <1>9, <3>1 DEF Closed
      <4>2. c \notin x
        BY <1>5, <3>1, <4>1
      <4> QED BY <1>5, <4>1, <4>2
    <3>2. CASE c = b /\ c \notin f.index
      <4>1. Num(b) # 1
        BY <3>2, NumFacts
      <4>2. Prev(b) \in f.index
        BY <1>9, <4>1, NumFacts
      <4> QED BY <1>5, <3>2, <4>2
    <3> QED BY <1>5, <3>1, <3>2
  <2> QED BY <1>4, <1>6, <2>1, SweepKeeps
<1>10. i = f.index \cup {b}
  BY DEF i
<1> QED BY <1>3, <1>7, <1>8, <1>9, <1>10

\* pop_block() leaves the index as it is.
LEMMA PopFacts ==
    ASSUME TreeInv, NEW f \in ForkDb, NEW held, f.head \in Block
    PROVE  /\ PopHead(f, held).index = f.index /\ PopHead(f, held).head = Prev(f.head)
           /\ \A c, n, top : Kept(f, c, n, top) /\ Prev(f.head) # NoBlock
                                => Kept(PopHead(f, held), c, n, top)
           /\ LET h == Prev(f.head)
              IN  h # NoBlock /\ h \notin f.expired /\ Prev(h) # NoBlock /\ Prev(h) \in f.index
                     => ~PopHead(f, held).headCut
<1> DEFINE h == Prev(f.head)
           g == WithHead(f, h)
<1>1. h \in Block \cup {NoBlock}
  BY NumFacts
<1>2. /\ g \in ForkDb /\ g.head = h /\ g.index = f.index /\ g.expired = f.expired
      /\ g.headCut = (h \in f.expired)
  <2>1. g \in ForkDb /\ g.head = h
    BY <1>1, WithHeadType
  <2>2. g = [f EXCEPT !.head = h, !.headCut = h \in f.expired]
    BY DEF WithHead
  <2> QED BY <2>1, <2>2 DEF ForkDb
<1>3. PopHead(f, held) = Sweep(g, held)
  BY DEF PopHead
<1> HIDE DEF g, h
<1>4. ASSUME NEW c, NEW n, NEW top, Kept(f, c, n, top), h # NoBlock
      PROVE  Kept(PopHead(f, held), c, n, top)
  <2>1. Kept(g, c, n, top)
    BY <1>2, <1>4 DEF Kept, Closed
  <2> QED BY <1>2, <1>3, <2>1, SweepKeeps
<1>5. h # NoBlock /\ h \notin f.expired /\ Prev(h) # NoBlock /\ Prev(h) \in f.index
         => ~PopHead(f, held).headCut
  BY <1>2, <1>3, SweepFacts
<1> QED BY <1>2, <1>3, <1>4, <1>5, SweepFacts DEF h

\* set_max_size() with the number of reversible blocks forgets only what is below
\* the last irreversible block.
LEMMA SizeKeeps ==
    ASSUME TreeInv, NEW f \in ForkDb, NEW held \in SUBSET Block, NEW c \in State,
           NEW n \in Nat, NEW m \in Nat, NEW top \in Nat, n <= m, c.lib <= m,
           c.lib <= Num(c.head), Num(f.head) <= Num(c.head), Kept(f, c, n, top)
    PROVE  LET g == SetMaxSize(f, Num(c.head) - c.lib + 1, held)
           IN  /\ g \in ForkDb
               /\ Kept(g, c, m, top)
               /\ \A b \in f.index : Num(b) >= Num(c.head) => b \in g.index
               /\ g.head = f.head
               /\ ~f.headCut /\ f.head \in f.index /\ Num(f.head) > 1 /\ Num(f.head) > m + 1
                     => ~g.headCut
<1> DEFINE H == Num(c.head)
           s == H - c.lib + 1
           i == {b \in f.index : Num(b) >= Num(f.head) - s}
           e == [f EXCEPT !.maxSize = s, !.index = i]
           g == SetMaxSize(f, s, held)
<1>1. H \in Nat /\ c.lib \in Nat /\ s \in Nat /\ Num(f.head) \in Nat /\ c.head \in Block \cup {NoBlock}
  <2>1. c.head \in Block \cup {NoBlock} /\ c.lib \in Nat /\ f.head \in Block \cup {NoBlock}
    BY DEF State, ForkDb
  <2> QED BY <2>1, NumFacts
<1>2. g \in ForkDb
  BY <1>1, ForkDbTypes
<1>3. g = Sweep(e, held)
  BY DEF SetMaxSize, Kept
<1>4. i \in SUBSET Block /\ i \subseteq f.index /\ \A b \in f.index : b \in Block /\ Num(b) \in Nat
  BY NumFacts DEF ForkDb
<1>5. \A b \in f.index : Num(b) >= c.lib - 1 => b \in i
  <2> SUFFICES ASSUME NEW b \in f.index, Num(b) >= c.lib - 1
               PROVE  Num(b) >= Num(f.head) - s
    OBVIOUS
  <2> QED BY <1>1, <1>4
<1>6. e \in ForkDb /\ e.index = i /\ e.head = f.head /\ e.expired = f.expired /\ e.headCut = f.headCut
  <2> HIDE DEF i, s
  <2> QED BY <1>1, <1>4 DEF ForkDb
<1> HIDE DEF i, e, s, g
<1>7. Closed(e, m)
  <2> SUFFICES ASSUME NEW b \in i, Num(b) > 1, Num(b) > m
               PROVE  Prev(b) \in i /\ b \notin f.expired
    BY <1>6 DEF Closed
  <2>1. b \in f.index /\ b \in Block /\ Num(b) > n /\ Num(b) \in Nat
    BY <1>4
  <2>2. Prev(b) \in f.index /\ b \notin f.expired
    BY <2>1 DEF Kept, Closed
  <2>3. Num(Prev(b)) = Num(b) - 1
    BY <2>1, NumFacts
  <2>4. Num(Prev(b)) >= c.lib - 1
    BY <1>1, <2>1, <2>3
  <2> QED BY <1>5, <2>2, <2>4
<1>8. c.head # NoBlock => c.head \in i
  <2>1. H >= c.lib - 1
    BY <1>1
  <2> QED BY <1>5, <2>1 DEF Kept
<1>9. Kept(e, c, m, top)
  BY <1>4, <1>6, <1>7, <1>8 DEF Kept
<1>10. Kept(g, c, m, top)
  BY <1>3, <1>6, <1>9, SweepKeeps
<1>11. g.index = i /\ g.head = f.head
  BY <1>3, <1>6, SweepFacts
<1>12. \A b \in f.index : Num(b) >= H => b \in g.index
  BY <1>1, <1>4, <1>5, <1>11
<1>13. ASSUME ~f.headCut, f.head \in f.index, Num(f.head) > 1, Num(f.head) > m + 1
       PROVE  ~g.headCut
  <2>1. f.head \in Block /\ Num(f.head) > n
    BY <1>1, <1>4, <1>13
  <2>2. Prev(f.head) \in f.index
    BY <1>13, <2>1 DEF Kept, Closed
  <2>3. Num(Prev(f.head)) = Num(f.head) - 1
    BY <2>1, NumFacts
  <2>4. Num(Prev(f.head)) >= c.lib - 1
    BY <1>1, <1>13, <2>3
  <2>5. Prev(f.head) \in i /\ Prev(f.head) # NoBlock
    BY <1>4, <1>5, <2>2, <2>4, NumFacts
  <2> QED BY <1>3, <1>6, <1>13, <2>1, <2>5, NumFacts, SweepFacts
<1> QED BY <1>2, <1>10, <1>11, <1>12, <1>13 DEF g, s, H

\* a is one above b and not on it, and they agree up to number l: the branches
\* that fetch_branch_from() returns start at some number m above l, and below m
\* is the same block.
LEMMA BranchFacts ==
    ASSUME TreeInv, NEW a \in Block, NEW b \in Block, Num(a) = Num(b) + 1, Prev(a) # b,
           NEW l \in Nat, \A n \in 1 .. l : n <= Num(b) => Anc(a, n) = Anc(b, n)
    PROVE  \E m \in 1 .. Num(b) :
              /\ m > l
              /\ Len(Branch(a, b)) = Num(a) + 1 - m
              /\ Len(Branch(b, a)) = Num(b) + 1 - m
              /\ \A i \in 1 .. Num(a) + 1 - m : Branch(a, b)[i] = Anc(a, Num(a) + 1 - i)
              /\ \A i \in 1 .. Num(b) + 1 - m : Branch(b, a)[i] = Anc(b, Num(b) + 1 - i)
              /\ Anc(a, m - 1) = Anc(b, m - 1)
<1> DEFINE N == Num(b)
           D == {n \in 1 .. N : Anc(a, n) # Anc(b, n)}
<1>1. N \in Nat /\ N >= 1 /\ Num(a) = N + 1 /\ Num(a) \in Nat
  BY NumFacts
<1>2. Anc(a, N) = Prev(a) /\ Anc(b, N) = b
  <2>1. Num(a) - 1 = N
    BY <1>1
  <2> QED BY <2>1, NumFacts, PrevFacts
<1>3. N \in D /\ D \subseteq Nat
  BY <1>1, <1>2
<1>4. PICK m \in D : \A y \in D : m <= y
  BY <1>3, NatMin
<1>5. m \in 1 .. N /\ Anc(a, m) # Anc(b, m) /\ m \in Nat
  OBVIOUS
<1>6. m > l
  BY <1>1, <1>5
<1>7. ASSUME NEW n \in m .. N
      PROVE  Anc(a, n) # Anc(b, n)
  <2>1. n \in 0 .. Num(a) /\ n \in 0 .. Num(b) /\ m \in 0 .. n
    BY <1>1, <1>5
  <2>2. Anc(Anc(a, n), m) = Anc(a, m) /\ Anc(Anc(b, n), m) = Anc(b, m)
    BY <2>1, AncFacts
  <2> QED BY <1>5, <2>2
<1>8. \A n \in 1 .. m - 1 : Anc(a, n) = Anc(b, n)
  <2> SUFFICES ASSUME NEW n \in 1 .. m - 1, Anc(a, n) # Anc(b, n)
               PROVE  FALSE
    OBVIOUS
  <2>1. n \in D /\ ~(m <= n)
    BY <1>1, <1>5
  <2> QED BY <1>4, <2>1
<1>9. Anc(a, m - 1) = Anc(b, m - 1)
  <2>1. CASE m = 1
    BY <2>1 DEF Anc
  <2>2. CASE m # 1
    <3>1. m - 1 \in 1 .. m - 1
      BY <1>5, <2>2
    <3> QED BY <1>8, <3>1
  <2> QED BY <2>1, <2>2
<1> HIDE DEF D, N
<1>10. Apart(b, a) = m .. N
  <2>1. Apart(b, a) = {n \in 1 .. N : n >= N \/ n >= N + 1 \/ Anc(b, n) # Anc(a, n)}
    BY <1>1 DEF Apart, N
  <2>2. \A n : n \in Apart(b, a) <=> n \in m .. N
    <3> SUFFICES ASSUME NEW n \in Nat
                 PROVE  n \in 1 .. N /\ (n >= N \/ n >= N + 1 \/ Anc(b, n) # Anc(a, n)) <=> n \in m .. N
      BY <1>1, <1>5, <2>1
    <3> QED BY <1>1, <1>5, <1>7, <1>8
  <2> QED BY <2>2
<1>11. Apart(a, b) = m .. N + 1
  <2>1. Apart(a, b) = {n \in 1 .. N + 1 : n >= N + 1 \/ n >= N \/ Anc(a, n) # Anc(b, n)}
    BY <1>1 DEF Apart, N
  <2>2. \A n : n \in Apart(a, b) <=> n \in m .. N + 1
    <3> SUFFICES ASSUME NEW n \in Nat
                 PROVE  n \in 1 .. N + 1 /\ (n >= N + 1 \/ n >= N \/ Anc(a, n) # Anc(b, n)) <=> n \in m .. N + 1
      BY <1>1, <1>5, <2>1
    <3> QED BY <1>1, <1>5, <1>7, <1>8
  <2> QED BY <2>2
<1>12. Cardinality(m .. N) = N + 1 - m /\ Cardinality(m .. N + 1) = N + 1 + 1 - m
  <2>1. m \in Int /\ N \in Int /\ N + 1 \in Int /\ m <= N
    BY <1>1, <1>5
  <2>2. Cardinality(m .. N) = (IF m > N THEN 0 ELSE N - m + 1)
        /\ Cardinality(m .. N + 1) = (IF m > N + 1 THEN 0 ELSE N + 1 - m + 1)
    BY <2>1, FS_Interval
  <2> QED BY <2>1, <2>2
<1>13. /\ Branch(b, a) = [i \in 1 .. N + 1 - m |-> Anc(b, N + 1 - i)]
       /\ Branch(a, b) = [i \in 1 .. N + 1 + 1 - m |-> Anc(a, N + 1 + 1 - i)]
  BY <1>1, <1>10, <1>11, <1>12 DEF Branch, N
<1>14. N + 1 - m \in Nat /\ N + 1 + 1 - m \in Nat
  BY <1>1, <1>5
<1>15. /\ Len(Branch(b, a)) = N + 1 - m /\ Len(Branch(a, b)) = N + 1 + 1 - m
       /\ \A i \in 1 .. N + 1 + 1 - m : Branch(a, b)[i] = Anc(a, N + 1 + 1 - i)
       /\ \A i \in 1 .. N + 1 - m : Branch(b, a)[i] = Anc(b, N + 1 - i)
  BY <1>13, <1>14
<1> QED BY <1>1, <1>5, <1>6, <1>9, <1>15 DEF N

\* The number of blocks of a branch that a fetch walks.
LEMMA BranchOpen ==
    ASSUME TreeInv, NEW f \in ForkDb, NEW l \in Nat, Closed(f, l),
           NEW b \in f.index, NEW m \in 1 .. Num(b), m > l,
           NEW s, \A i \in 1 .. Num(b) + 1 - m : s[i] = Anc(b, Num(b) + 1 - i)
    PROVE  \A i \in 1 .. Num(b) + 1 - m - 1 : s[i] \notin f.expired
<1> SUFFICES ASSUME NEW i \in 1 .. Num(b) + 1 - m - 1
             PROVE  s[i] \notin f.expired
  OBVIOUS
<1>1. Num(b) \in Nat
  BY NumFacts DEF ForkDb
<1>2. i \in 1 .. Num(b) + 1 - m
  BY <1>1
<1> DEFINE n == Num(b) + 1 - i
<1>3. n \in 1 .. Num(b) /\ n > l /\ n > 1 /\ n >= l
  BY <1>1
<1>4. s[i] = Anc(b, n)
  BY <1>2
<1> HIDE DEF n
<1> QED BY <1>3, <1>4, ClosedBelow

\* A switch to a block that is one above the head of the chain, and agrees with
\* the log as that does, finds its branches.
LEMMA SwitchFacts ==
    ASSUME TreeInv, NEW f \in ForkDb, NEW l \in Seq(Block), Closed(f, Len(l)),
           NEW a \in f.index, NEW b \in f.index, Num(a) = Num(b) + 1, Prev(a) # b,
           Agrees(a, l), Agrees(b, l)
    PROVE  LET p == Prev(Last(Branch(b, a)))
           IN  /\ CanFetchBranches(f, a, b)
               /\ p \in Block \cup {NoBlock}
               /\ Len(l) <= Num(p) /\ Num(p) < Num(b)
               /\ Anc(a, Num(p)) = p /\ Anc(b, Num(p)) = p
               /\ Len(Branch(a, b)) = Num(a) - Num(p)
               /\ \A i \in 1 .. Len(Branch(a, b)) : Branch(a, b)[i] = Anc(a, Num(a) + 1 - i)
<1>1. a \in Block /\ b \in Block /\ Len(l) \in Nat
  BY DEF ForkDb
<1>2. Num(a) \in Nat /\ Num(b) \in Nat
  BY <1>1, NumFacts
<1>3. \A n \in 1 .. Len(l) : n <= Num(b) => Anc(a, n) = Anc(b, n)
  <2> SUFFICES ASSUME NEW n \in 1 .. Len(l), n <= Num(b)
               PROVE  Anc(a, n) = Anc(b, n)
    OBVIOUS
  <2>1. n <= Num(a)
    BY <1>2
  <2> QED BY <2>1 DEF Agrees
<1>4. PICK m \in 1 .. Num(b) :
              /\ m > Len(l)
              /\ Len(Branch(a, b)) = Num(a) + 1 - m
              /\ Len(Branch(b, a)) = Num(b) + 1 - m
              /\ \A i \in 1 .. Num(a) + 1 - m : Branch(a, b)[i] = Anc(a, Num(a) + 1 - i)
              /\ \A i \in 1 .. Num(b) + 1 - m : Branch(b, a)[i] = Anc(b, Num(b) + 1 - i)
              /\ Anc(a, m - 1) = Anc(b, m - 1)
  BY <1>1, <1>3, BranchFacts
<1>5. m \in Nat /\ m >= 1 /\ m <= Num(b) /\ m \in 1 .. Num(a) /\ m - 1 \in 0 .. Num(b)
  BY <1>2
<1>6. CanFetchBranches(f, a, b)
  <2>1. \A i \in 1 .. Num(a) + 1 - m - 1 : Branch(a, b)[i] \notin f.expired
    BY <1>1, <1>4, <1>5, BranchOpen
  <2>2. \A i \in 1 .. Num(b) + 1 - m - 1 : Branch(b, a)[i] \notin f.expired
    BY <1>1, <1>4, <1>5, BranchOpen
  <2>3. Len(Branch(a, b)) = Num(a) + 1 - m /\ Len(Branch(b, a)) = Num(b) + 1 - m
    BY <1>4
  <2>4. ASSUME NEW i \in 1 .. Len(Branch(a, b)) - 1
        PROVE  Branch(a, b)[i] \notin f.expired
    <3> DEFINE x == Len(Branch(a, b))
               N == Num(a)
    <3>1. i \in 1 .. x - 1 /\ x = N + 1 - m /\ N \in Nat /\ m \in Nat
      BY <1>2, <1>5, <2>3
    <3> HIDE DEF x, N
    <3>2. i \in 1 .. N + 1 - m - 1
      BY <3>1
    <3> QED BY <2>1, <3>2 DEF N
  <2>5. ASSUME NEW i \in 1 .. Len(Branch(b, a)) - 1
        PROVE  Branch(b, a)[i] \notin f.expired
    <3>1. i \in 1 .. Num(b) + 1 - m - 1
      BY <1>2, <1>5, <2>3
    <3> QED BY <2>2, <3>1
  <2> QED BY <2>4, <2>5 DEF CanFetchBranches
<1> DEFINE p == Prev(Last(Branch(b, a)))
<1>7. p = Anc(b, m - 1)
  <2>1. Num(b) + 1 - m \in 1 .. Num(b) + 1 - m /\ Num(b) + 1 - (Num(b) + 1 - m) = m
    BY <1>2, <1>5
  <2>2. Last(Branch(b, a)) = Anc(b, m)
    BY <1>4, <2>1 DEF Last
  <2> QED BY <1>1, <1>4, <2>2, AncPrev
<1>8. p \in Block \cup {NoBlock} /\ Num(p) = m - 1
  BY <1>1, <1>5, <1>7, AncFacts
<1> HIDE DEF p
<1>9. Len(l) <= Num(p) /\ Num(p) < Num(b)
  <2>1. m > Len(l)
    BY <1>4
  <2> QED BY <1>1, <1>2, <1>5, <1>8, <2>1
<1>10. Anc(a, Num(p)) = p /\ Anc(b, Num(p)) = p
  BY <1>4, <1>7, <1>8
<1>11. Num(a) + 1 - m = Num(a) - Num(p)
  BY <1>2, <1>5, <1>8
<1> QED BY <1>4, <1>6, <1>8, <1>9, <1>10, <1>11 DEF p

\* fetch_block_on_main_branch_by_number() finds the block of the chain whose head
\* is b when the fork database's head is on that chain, and not below it.
LEMMA FetchFacts ==
    ASSUME TreeInv, NEW f \in ForkDb, NEW l \in Nat, Closed(f, l), NEW b \in f.index,
           NEW n \in 1 .. Num(b), n > l,
           n <= Num(f.head), f.head \in f.index, Anc(f.head, n) = Anc(b, n),
           Num(f.head) > 1 /\ Num(f.head) > l + 1 => ~f.headCut
    PROVE  FetchOnMainBranch(f, n) = Anc(b, n)
<1> DEFINE same == {c \in f.index : Num(c) = n}
           lost == n < Num(f.head) /\
                   (f.headCut \/ \E m \in n + 1 .. Num(f.head) - 1 : Anc(f.head, m) \in f.expired)
<1>1. /\ b \in Block /\ f.head \in Block /\ f.index \subseteq Block
      /\ Num(f.head) \in Nat /\ Num(b) \in Nat /\ n >= l /\ n \in Nat
  <2>1. b \in Block /\ f.head \in Block /\ f.index \subseteq Block
    BY DEF ForkDb
  <2> QED BY <2>1, NumFacts
<1>2. Anc(b, n) \in f.index /\ Num(Anc(b, n)) = n
  BY <1>1, ClosedBelow, AncPrev
<1>3. Anc(b, n) \in same /\ IsFiniteSet(same)
  <2>1. IsFiniteSet(Block)
    <3>1. Len(blocks) \in Nat
      BY DEF TreeInv
    <3> QED BY <3>1, UpTo DEF Block
  <2>2. same \in SUBSET Block
    BY <1>1
  <2> QED BY <1>2, <2>1, <2>2, FS_Subset
<1>4. FetchOnMainBranch(f, n) = IF Cardinality(same) = 1 THEN CHOOSE c \in same : TRUE
                                ELSE IF same = {} \/ n > Num(f.head) \/ lost THEN NoBlock
                                ELSE Anc(f.head, n)
  BY DEF FetchOnMainBranch
<1>5. ~lost
  <2> SUFFICES ASSUME n < Num(f.head)
               PROVE  ~f.headCut /\ \A m \in n + 1 .. Num(f.head) - 1 : Anc(f.head, m) \notin f.expired
    OBVIOUS
  <2>1. ~f.headCut
    BY <1>1
  <2>2. ASSUME NEW m \in n + 1 .. Num(f.head) - 1
        PROVE  Anc(f.head, m) \notin f.expired
    <3>1. m \in 1 .. Num(f.head) /\ m >= l /\ m > l /\ m > 1
      BY <1>1
    <3> QED BY <3>1, ClosedBelow
  <2> QED BY <2>1, <2>2
<1> HIDE DEF same, lost
<1>6. CASE Cardinality(same) = 1
  <2>1. PICK x : same = {x}
    BY <1>3, <1>6, FS_Singleton
  <2>2. (CHOOSE c \in same : TRUE) \in same
    BY <1>3
  <2> QED BY <1>3, <1>4, <1>6, <2>1, <2>2
<1>7. CASE Cardinality(same) # 1
  <2>1. same # {} /\ ~(n > Num(f.head))
    BY <1>1, <1>3
  <2> QED BY <1>4, <1>5, <1>7, <2>1
<1> QED BY <1>6, <1>7

LEMMA CallTypes ==
    ASSUME Inv
    PROVE  /\ call.block \in Block \cup {NoBlock} /\ call.at \in Nat
           /\ call.first \in Seq(Block) /\ call.second \in Seq(Block)
           /\ Len(call.first) \in Nat /\ Len(call.second) \in Nat
           /\ fdb.head \in Block \cup {NoBlock} /\ fdb.index \subseteq Block
           /\ Num(fdb.head) \in Nat /\ Num(call.block) \in Nat
           /\ Len(log) \in Nat /\ Len(undo) \in Nat /\ Num(chain.head) \in Nat
<1>1. /\ call.block \in Block \cup {NoBlock} /\ call.at \in Nat
      /\ call.first \in Seq(Block) /\ call.second \in Seq(Block)
  BY Parts DEF Call
<1>2. fdb.head \in Block \cup {NoBlock} /\ fdb.index \subseteq Block
  BY Parts DEF ForkDb
<1>3. Len(call.first) \in Nat /\ Len(call.second) \in Nat
  BY <1>1
<1> QED BY <1>1, <1>2, <1>3, Parts, NumFacts

\* A call in the middle: the block it is at is the ancestor, at its place, of the
\* block that was pushed.
LEMMA CurrentIs ==
    ASSUME Inv, ForkInv, pc \in {"apply", "log"}
    PROVE  LET n == Num(call.block) - call.at + 1
           IN  /\ n \in 1 .. Num(call.block)
               /\ Current = Anc(call.block, n)
               /\ Current \in Block /\ Num(Current) = n
               /\ Prev(Current) = Anc(call.block, n - 1)
               /\ call.block \in Block
<1> DEFINE N == Num(call.block)
           n == N - call.at + 1
<1>1. /\ Midway(fdb, chain, log, call)
      /\ Putting(fdb, chain, log, call, 0) \/ Putting(fdb, chain, log, call, 1)
  BY DEF ForkInv, CallAt
<1>2. /\ call.mode \in {"direct", "switch"} /\ (call.mode = "direct" => call.at = 1)
      /\ call.at \in 1 .. N
  BY <1>1 DEF Putting
<1>3. call.block \in Block /\ N \in Nat /\ call.at \in Nat
  BY <1>1, CallTypes DEF Midway
<1>4. n \in 1 .. N /\ n - 1 \in 0 .. N
  BY <1>2, <1>3
<1>5. Anc(call.block, n) \in Block /\ Num(Anc(call.block, n)) = n
      /\ Prev(Anc(call.block, n)) = Anc(call.block, n - 1)
  BY <1>3, <1>4, Parts, AncPrev
<1>6. Current = Anc(call.block, n)
  <2>1. CASE call.mode = "direct"
    <3>1. n = N
      BY <1>2, <1>3, <2>1
    <3>2. Anc(call.block, N) = call.block
      BY <1>3, <1>4, Parts, AncPrev
    <3> QED BY <2>1, <3>1, <3>2 DEF Current
  <2>2. CASE call.mode = "switch"
    <3>1. call.at \in 1 .. Len(call.first)
      BY <2>2, Parts DEF CallOK
    <3>2. call.first[call.at] = Anc(call.block, N + 1 - call.at)
      BY <1>1, <2>2, <3>1 DEF Midway, NewBranch
    <3>3. N + 1 - call.at = n
      BY <1>3
    <3> QED BY <2>2, <3>2, <3>3 DEF Current
  <2> QED BY <1>2, <2>1, <2>2
<1> QED BY <1>3, <1>4, <1>5, <1>6

\* What became irreversible is found, and is the chain above the log.
LEMMA ToLogIs ==
    ASSUME Inv, ForkInv, Orderly, pc = "log"
    PROVE  /\ AllFound
           /\ ToLog \in Seq(Block)
           /\ Len(ToLog) = IF chain.lib > Len(log) THEN chain.lib - Len(log) ELSE 0
           /\ DOMAIN ToLog = 1 .. Len(ToLog)
           /\ \A i \in 1 .. Len(ToLog) : ToLog[i] = Anc(chain.head, Len(log) + i)
<1> DEFINE d == chain.lib - Len(log)
           n == IF d > 0 THEN d ELSE 0
           L == Len(log)
           H == Num(chain.head)
           b == call.block
           h == fdb.head
<1>1. chain.lib \in Nat /\ L \in Nat /\ d \in Int /\ n \in Nat /\ H \in Nat /\ chain.lib <= H
      /\ n = (IF chain.lib > L THEN chain.lib - L ELSE 0)
  <2> DEFINE lib == chain.lib
  <2>1. lib \in Nat /\ L \in Nat /\ H \in Nat /\ lib <= H
    BY Parts, CallTypes DEF HeadNum
  <2> HIDE DEF lib, L, H
  <2>2. /\ lib - L \in Int
        /\ (IF lib - L > 0 THEN lib - L ELSE 0) \in Nat
        /\ (IF lib - L > 0 THEN lib - L ELSE 0) = (IF lib > L THEN lib - L ELSE 0)
    BY <2>1
  <2> QED BY <2>1, <2>2 DEF lib, L
<1>2. 1 .. d = 1 .. n
  BY <1>1
<1>3. ToLog = [i \in 1 .. n |-> FetchOnMainBranch(fdb, L + i)]
  BY <1>2 DEF ToLog
<1>4. Midway(fdb, chain, log, call) /\ Putting(fdb, chain, log, call, 1)
  BY DEF ForkInv, CallAt
<1>5. /\ Current = Anc(b, Num(b) - call.at + 1) /\ Num(Current) = Num(b) - call.at + 1
      /\ Num(b) - call.at + 1 \in 1 .. Num(b)
      /\ b \in Block /\ Current \in Block
  BY CurrentIs
<1>6. chain.head = Current /\ H = Num(b) - call.at + 1 /\ chain.head \in fdb.index /\ H \in 1 .. Num(b)
  <2>1. chain.head = Current
    BY <1>4, <1>5 DEF Putting
  <2>2. chain.head \in fdb.index
    BY <1>4, <1>5, <2>1, Parts, NumFacts DEF Midway, Kept
  <2> QED BY <1>5, <2>1, <2>2
<1>7. \A m \in 0 .. H : Anc(chain.head, m) = Anc(b, m)
  <2>1. H \in 0 .. Num(b) /\ chain.head = Anc(b, H)
    BY <1>5, <1>6
  <2> QED BY <1>5, <2>1, Parts, AncFacts
<1>8. /\ Closed(fdb, L) /\ b \in fdb.index /\ h = Anc(b, Num(h)) /\ Num(h) <= H
      /\ Num(h) > 1 /\ Num(h) > L + 1 => ~fdb.headCut
      /\ h # NoBlock /\ h \in Block /\ Num(h) \in Nat /\ Num(h) >= 1
  <2>1. /\ Closed(fdb, L) /\ b \in fdb.index /\ h = Anc(b, Num(h)) /\ h # NoBlock
    BY <1>4 DEF Midway, Kept
  <2>2. /\ Num(h) <= Num(b) - call.at + 1
        /\ Num(h) > 1 /\ Num(h) > L + 1 => ~fdb.headCut
    BY <1>4 DEF Putting
  <2>3. h \in Block
    BY <2>1, CallTypes
  <2> QED BY <1>6, <2>1, <2>2, <2>3, Parts, NumFacts
<1>9. chain.lib <= Num(h)
  <2>1. CASE call.mode = "direct"
    <3>1. h = b /\ call.at = 1
      BY <1>4, <2>1 DEF Midway, Putting
    <3>2. H = Num(h)
      BY <1>5, <1>6, <3>1, CallTypes
    <3> QED BY <1>1, <3>2
  <2>2. CASE call.mode = "switch"
    <3>1. Num(h) = Num(Fork(call)) + 1
      BY <1>4, <2>2 DEF Putting
    <3>2. chain.lib <= Num(ForkPoint) + 1
      BY <2>2 DEF Orderly
    <3> QED BY <3>1, <3>2 DEF Fork, ForkPoint
  <2> QED BY <1>4, <2>1, <2>2 DEF Putting
<1>10. ASSUME NEW i \in 1 .. n
       PROVE  /\ FetchOnMainBranch(fdb, L + i) = Anc(chain.head, L + i)
              /\ Anc(chain.head, L + i) \in Block
  <2> DEFINE m == L + i
  <2>1. /\ m \in 1 .. Num(chain.head) /\ m \in 0 .. H /\ m > L /\ m <= Num(h)
        /\ Num(h) \in 1 .. Num(b) /\ Num(h) >= L /\ m \in 0 .. Num(h) /\ Num(h) \in 0 .. Num(b)
    <3> DEFINE lib == chain.lib
               x == Num(h)
               N == Num(b)
    <3>1. /\ lib \in Nat /\ L \in Nat /\ H \in 1 .. N /\ lib <= H /\ lib <= x /\ x \in Nat
          /\ x >= 1 /\ x <= H /\ n = (IF lib > L THEN lib - L ELSE 0) /\ N \in Nat
      BY <1>1, <1>6, <1>8, <1>9, CallTypes
    <3> HIDE DEF lib, x, N, L, H, n
    <3>2. /\ m \in 1 .. H /\ m \in 0 .. H /\ m > L /\ m <= x
          /\ x \in 1 .. N /\ x >= L /\ m \in 0 .. x /\ x \in 0 .. N
      BY <3>1
    <3> QED BY <3>2 DEF H, x, N
  <2> HIDE DEF m
  <2>2. h \in fdb.index
    BY <1>1, <1>8, <2>1, Parts, ClosedBelow
  <2>3. Anc(h, m) = Anc(b, m)
    BY <1>5, <1>8, <2>1, Parts, AncFacts
  <2>4. Anc(h, m) = Anc(chain.head, m)
    BY <1>7, <2>1, <2>3
  <2>5. FetchOnMainBranch(fdb, m) = Anc(chain.head, m)
    BY <1>1, <1>6, <1>8, <2>1, <2>2, <2>4, Parts, FetchFacts
  <2>6. Anc(chain.head, m) \in Block
    BY <2>1, Parts, AncPrev
  <2> QED BY <2>5, <2>6 DEF m
<1> HIDE DEF n, d
<1>11. /\ ToLog \in Seq(Block) /\ Len(ToLog) = n /\ DOMAIN ToLog = 1 .. n
       /\ \A i \in 1 .. n : ToLog[i] = Anc(chain.head, L + i)
  <2>1. \A i \in 1 .. n : ToLog[i] = Anc(chain.head, L + i) /\ ToLog[i] \in Block
    BY <1>3, <1>10
  <2>2. n \in Nat /\ \A i \in 1 .. n : ToLog[i] \in Block
    BY <1>1, <2>1
  <2>3. ToLog \in Seq(Block) /\ Len(ToLog) = n /\ DOMAIN ToLog = 1 .. n
    BY <1>3, <2>2
  <2> QED BY <2>1, <2>3
<1>12. AllFound
  <2>1. \A i \in 1 .. n : ToLog[i] # NoBlock
    BY <1>10, <1>11, Parts, NumFacts
  <2>2. \A i \in 1 .. n : \A j \in 1 .. i : j \in 1 .. n
    BY <1>1
  <2>3. Found = 1 .. n
    BY <1>11, <2>1, <2>2 DEF Found
  <2> QED BY <1>11, <2>3 DEF AllFound
<1> QED BY <1>1, <1>11, <1>12

\* Appending the next blocks of a chain to a log that agrees with it.
LEMMA LogGrows ==
    ASSUME TreeInv, NEW l \in Seq(Block), LogChain(l), NEW b \in Block \cup {NoBlock}, Agrees(b, l),
           NEW m \in Seq(Block), m = << >> \/ Len(l) + Len(m) <= Num(b),
           \A i \in 1 .. Len(m) : m[i] = Anc(b, Len(l) + i)
    PROVE  /\ LogChain(l \o m) /\ Agrees(b, l \o m)
           /\ l \o m \in Seq(Block) /\ Len(l \o m) = Len(l) + Len(m)
<1> DEFINE k == l \o m
           L == Len(l)
           M == Len(m)
<1>1. L \in Nat /\ M \in Nat /\ Num(b) \in Nat /\ (M # 0 => L + M <= Num(b))
  <2>1. m = << >> => M = 0
    OBVIOUS
  <2> QED BY <2>1, NumFacts
<1>2. /\ k \in Seq(Block) /\ Len(k) = L + M
      /\ \A n \in 1 .. L : k[n] = l[n]
      /\ \A n \in L + 1 .. L + M : k[n] = m[n - L]
  OBVIOUS
<1> HIDE DEF k, L, M
<1>3. ASSUME NEW n \in L + 1 .. L + M
      PROVE  k[n] = Anc(b, n) /\ n \in 1 .. Num(b) /\ n \in 0 .. Num(b)
  <2>1. n - L \in 1 .. M /\ L + (n - L) = n /\ n \in 1 .. Num(b) /\ n \in 0 .. Num(b)
    BY <1>1
  <2>2. m[n - L] = Anc(b, L + (n - L))
    BY <2>1 DEF L, M
  <2> QED BY <1>2, <2>1, <2>2
<1>4. Agrees(b, k)
  <2> SUFFICES ASSUME NEW n \in 1 .. L + M, n <= Num(b)
               PROVE  Anc(b, n) = k[n]
    BY <1>2 DEF Agrees
  <2>1. CASE n \in 1 .. L
    <3>1. Anc(b, n) = l[n]
      BY <2>1 DEF Agrees, L
    <3> QED BY <1>2, <2>1, <3>1
  <2>2. CASE n \in L + 1 .. L + M
    BY <1>3, <2>2
  <2> QED BY <1>1, <2>1, <2>2
<1>5. ASSUME NEW n \in 1 .. L + M
      PROVE  Num(k[n]) = n /\ Agrees(k[n], k)
  <2>1. CASE n \in 1 .. L
    <3>1. k[n] = l[n] /\ Num(l[n]) = n /\ Agrees(l[n], l)
      BY <1>2, <2>1 DEF LogChain, L
    <3>2. ASSUME NEW j \in 1 .. L + M, j <= n
          PROVE  Anc(l[n], j) = k[j]
      <4>1. j \in 1 .. L
        BY <1>1, <2>1, <3>2
      <4>2. Anc(l[n], j) = l[j]
        BY <3>1, <3>2, <4>1 DEF Agrees, L
      <4> QED BY <1>2, <4>1, <4>2
    <3> QED BY <1>2, <3>1, <3>2 DEF Agrees
  <2>2. CASE n \in L + 1 .. L + M
    <3>1. k[n] = Anc(b, n) /\ n \in 1 .. Num(b) /\ n \in 0 .. Num(b)
      BY <1>3, <2>2
    <3>2. Num(k[n]) = n /\ \A j \in 0 .. n : Anc(k[n], j) = Anc(b, j)
      BY <3>1, AncFacts
    <3>3. ASSUME NEW j \in 1 .. L + M, j <= n
          PROVE  Anc(k[n], j) = k[j]
      <4>1. j \in 0 .. n /\ j <= Num(b)
        BY <1>1, <3>1, <3>3
      <4> QED BY <1>2, <1>4, <3>2, <4>1 DEF Agrees
    <3> QED BY <1>2, <3>2, <3>3 DEF Agrees
  <2> QED BY <1>1, <2>1, <2>2
<1>6. LogChain(k)
  BY <1>2, <1>5 DEF LogChain
<1> QED BY <1>2, <1>4, <1>6 DEF k, L, M

\* A step that adds no block.
LEMMA ForkAssemble ==
    ASSUME blocks' = blocks, LogOK(chain', undo', log', pc'),
           CallAt(fdb', chain', log', pc', call')
    PROVE  ForkInv'
<1>1. \A b : Num(b)' = Num(b) /\ Prev(b)' = Prev(b) /\ \A n : Anc(b, n)' = Anc(b, n)
  BY DEF Num, Prev, Anc, Path
<1>2. Block' = Block
  BY DEF Block
<1>3. LogOK(chain, undo, log, pc)'
  BY <1>1 DEF LogOK, LogChain, Agrees
<1>4. CallAt(fdb, chain, log, pc, call)'
  BY <1>1, <1>2 DEF CallAt, Bare, AtRest, Midway, Popping, Putting, Kept, Closed, Agrees, Fork, NewBranch
<1> QED BY <1>3, <1>4 DEF ForkInv

LEMMA ForkInit ==
    Init => ForkInv
<1> SUFFICES ASSUME Init
             PROVE  ForkInv
  OBVIOUS
<1>1. /\ fdb.head = NoBlock /\ fdb.index = {} /\ chain.head = NoBlock /\ chain.lib = 0
      /\ undo = << >> /\ log = << >> /\ pc = "idle"
  BY DEF Init, EmptyForkDb, Genesis
<1>2. Num(NoBlock) = 0 /\ Len(log) = 0 /\ Len(undo) = 0
  BY <1>1 DEF Num, Path
<1>3. LogOK(chain, undo, log, pc)
  BY <1>1, <1>2 DEF LogOK, LogChain, Agrees
<1>4. CallAt(fdb, chain, log, pc, call)
  BY <1>1 DEF CallAt, AtRest, Bare
<1> QED BY <1>3, <1>4 DEF ForkInv

\* A block that is signed is not in the fork database yet.
LEMMA ForkSign ==
    ASSUME Inv, ForkInv, NEW p \in 0 .. Len(blocks), NEW w \in Producer, NEW f \in Fault,
           Sign(p, w, f), UNCHANGED <<fdb, chain, undo, log>>, pc = "idle",
           pc' = "idle" \/ (pc' = "push" /\ call'.entry = chain.head)
    PROVE  ForkInv'
<1>1. TreeInv /\ Extends(blocks')
  BY Parts, SignKeepsTree DEF Extends
<1>2. ASSUME NEW b \in Block \cup {NoBlock}
      PROVE  Num(b)' = Num(b) /\ \A n : Anc(b, n)' = Anc(b, n)
  <2>1. NumIn(blocks', b) = NumIn(blocks, b) /\ \A n : AncIn(blocks', b, n) = AncIn(blocks, b, n)
    BY <1>1, MoreBlocks
  <2>2. Num(b)' = NumIn(blocks', b) /\ \A n : Anc(b, n)' = AncIn(blocks', b, n)
    BY DEF Num, Path, Anc, NumIn, PathIn, AncIn
  <2> QED BY <2>1, <2>2, SameIn
<1>3. \A b \in Block : Prev(b)' = Prev(b)
  BY <1>1 DEF Prev, Extends
<1>4. /\ chain.head \in Block \cup {NoBlock} /\ fdb.head \in Block \cup {NoBlock}
      /\ fdb.index \subseteq Block /\ \A n \in 1 .. Len(log) : log[n] \in Block
  BY Parts, CallTypes
<1>5. LogOK(chain, undo, log, pc) /\ AtRest(fdb, chain, log)
  BY DEF ForkInv, CallAt
<1>6. /\ Num(chain.head)' = Num(chain.head) /\ Num(fdb.head)' = Num(fdb.head)
      /\ (Agrees(chain.head, log) => Agrees(chain.head, log)')
      /\ (LogChain(log) => LogChain(log)')
  <2>1. Num(chain.head)' = Num(chain.head) /\ \A n : Anc(chain.head, n)' = Anc(chain.head, n)
    <3>1. NumIn(blocks', chain.head) = NumIn(blocks, chain.head)
          /\ \A n : AncIn(blocks', chain.head, n) = AncIn(blocks, chain.head, n)
      BY <1>1, <1>4, MoreBlocks
    <3>2. Num(chain.head)' = NumIn(blocks', chain.head) /\ \A n : Anc(chain.head, n)' = AncIn(blocks', chain.head, n)
      BY DEF Num, Path, Anc, NumIn, PathIn, AncIn
    <3> QED BY <3>1, <3>2, SameIn
  <2>2. Num(fdb.head)' = Num(fdb.head)
    <3>1. NumIn(blocks', fdb.head) = NumIn(blocks, fdb.head)
      BY <1>1, <1>4, MoreBlocks
    <3>2. Num(fdb.head)' = NumIn(blocks', fdb.head)
      BY DEF Num, Path, NumIn, PathIn
    <3> QED BY <3>1, <3>2, SameIn
  <2>3. ASSUME NEW n \in 1 .. Len(log)
        PROVE  Num(log[n])' = Num(log[n]) /\ \A m : Anc(log[n], m)' = Anc(log[n], m)
    <3>1. NumIn(blocks', log[n]) = NumIn(blocks, log[n])
          /\ \A m : AncIn(blocks', log[n], m) = AncIn(blocks, log[n], m)
      BY <1>1, <1>4, MoreBlocks
    <3>2. Num(log[n])' = NumIn(blocks', log[n]) /\ \A m : Anc(log[n], m)' = AncIn(blocks', log[n], m)
      BY DEF Num, Path, Anc, NumIn, PathIn, AncIn
    <3> QED BY <3>1, <3>2, SameIn
  <2>4. Agrees(chain.head, log) => Agrees(chain.head, log)'
    BY <2>1 DEF Agrees
  <2>5. LogChain(log) => LogChain(log)'
    <3> SUFFICES ASSUME LogChain(log), NEW n \in 1 .. Len(log)
                 PROVE  Num(log[n])' = n /\ Agrees(log[n], log)'
      BY DEF LogChain
    <3>1. Num(log[n]) = n /\ Agrees(log[n], log)
      BY DEF LogChain
    <3>2. Num(log[n])' = Num(log[n]) /\ \A m : Anc(log[n], m)' = Anc(log[n], m)
      BY <2>3
    <3>3. Agrees(log[n], log)'
      BY <3>1, <3>2 DEF Agrees
    <3> QED BY <3>1, <3>2, <3>3
  <2> QED BY <2>1, <2>2, <2>4, <2>5
<1>7. LogOK(chain, undo, log, pc)'
  BY <1>5, <1>6 DEF LogOK
<1>8. AtRest(fdb, chain, log)'
  <2>1. CASE chain.head = NoBlock
    BY <1>5, <1>6, <2>1 DEF AtRest, Bare
  <2>2. CASE chain.head # NoBlock
    <3>1. Kept(fdb, chain, Len(log), Num(chain.head)) /\ Num(fdb.head) <= Num(chain.head)
      BY <1>5, <2>2 DEF AtRest
    <3>2. \A b \in fdb.index : Num(b)' = Num(b) /\ Prev(b)' = Prev(b)
      BY <1>2, <1>3, <1>4
    <3>3. Kept(fdb, chain, Len(log), Num(chain.head))'
      BY <1>6, <3>1, <3>2 DEF Kept, Closed
    <3> QED BY <1>6, <2>2, <3>1, <3>3 DEF AtRest
  <2> QED BY <2>1, <2>2
<1> QED BY <1>7, <1>8 DEF ForkInv, CallAt

LEMMA ForkDeliver ==
    ASSUME Inv, ForkInv, NEW b \in Block, DeliverKnown(b)
    PROVE  ForkInv'
<1>1. /\ pc = "idle" /\ pc' = "push" /\ blocks' = blocks /\ UNCHANGED <<fdb, chain, undo, log>>
      /\ call' = [NoCall EXCEPT !.block = b, !.entry = chain.head]
  BY DEF DeliverKnown, Deliver
<1>2. call'.entry = chain.head
  BY <1>1 DEF NoCall
<1>3. LogOK(chain, undo, log, "push") /\ AtRest(fdb, chain, log)
  BY <1>1 DEF ForkInv, CallAt, LogOK
<1>4. CallAt(fdb', chain', log', pc', call')
  BY <1>1, <1>2, <1>3 DEF CallAt
<1> QED BY <1>1, <1>3, <1>4, ForkAssemble

\* The end of a call that leaves the state alone.
LEMMA ForkReturn ==
    ASSUME Inv, ForkInv, pc = "push", NEW f \in ForkDb, NEW r, Return(r, f),
           UNCHANGED <<blocks, chain, undo, log>>, AtRest(f, chain, log)
    PROVE  ForkInv'
<1>1. pc' = "idle" /\ fdb' = Sweep(f, {})
  BY DEF Return
<1>2. LogOK(chain', undo', log', pc')
  BY <1>1 DEF ForkInv, LogOK
<1>3. AtRest(Sweep(f, {}), chain, log)
  <2>1. Sweep(f, {}).head = f.head
    BY SweepFacts
  <2> QED BY <2>1, Parts, SweepKeeps DEF AtRest
<1>4. CallAt(fdb', chain', log', pc', call')
  BY <1>1, <1>3 DEF CallAt
<1> QED BY <1>2, <1>4, ForkAssemble

\* Pushing a block that extends the chain.
LEMMA ForkExtend ==
    ASSUME Inv, ForkInv, Orderly, pc = "push", UNCHANGED <<blocks, chain, undo, log>>,
           CanPush(fdb, call.block),
           Prev(PushItem(fdb, call.block).head) = chain.head,
           pc' = "apply", call' = [call EXCEPT !.mode = "direct", !.at = 1],
           fdb' = PushItem(fdb, call.block)
    PROVE  ForkInv'
<1> DEFINE b == call.block
           f == PushItem(fdb, b)
           H == Num(chain.head)
<1>1. /\ TreeInv /\ fdb \in ForkDb /\ b \in Block /\ chain.head \in Block \cup {NoBlock} /\ H \in Nat
      /\ Len(log) \in Nat /\ fdb.head \in Block \cup {NoBlock} /\ fdb.index \subseteq Block
      /\ Num(fdb.head) \in Nat
  BY Parts, CallTypes DEF CallOK
<1>2. AtRest(fdb, chain, log)
  BY DEF ForkInv, CallAt
<1>3. /\ f.index = fdb.index \cup {b}
      /\ fdb.head = NoBlock \/ Num(b) > Num(fdb.head) => f.head = b
      /\ ~(fdb.head = NoBlock \/ Num(b) > Num(fdb.head)) => f.head = fdb.head
      /\ (fdb.head = NoBlock \/ Num(b) > Num(fdb.head)) /\ Prev(b) \in fdb.index => ~f.headCut
      /\ \A n : Closed(fdb, n) /\ (Prev(b) = NoBlock \/ Prev(b) \in fdb.index) => Closed(f, n)
  BY <1>1, PushFacts
<1>4. f.head \in Block /\ Num(f.head) = H + 1 /\ Prev(f.head) = chain.head
  <2>1. f.head \in Block
    <3>1. {} \in SUBSET Block
      OBVIOUS
    <3> QED BY <1>1, <3>1, ForkDbTypes
  <2>2. Num(f.head) = Num(Prev(f.head)) + 1
    BY <1>1, <2>1, PrevFacts
  <2> QED BY <2>1, <2>2
<1> HIDE DEF f
<1>5. /\ f.head = b /\ (fdb.head = NoBlock \/ Num(b) > Num(fdb.head))
      /\ Closed(f, Len(log))
      /\ \A c \in fdb.index : Num(c) <= H + 1
      /\ chain.head # NoBlock => chain.head \in fdb.index
  <2>1. CASE chain.head = NoBlock
    <3>1. H = 0
      BY <1>1, <2>1, NumFacts
    <3>2. fdb.head = NoBlock /\ fdb.index = {}
      <4>1. ASSUME Num(fdb.head) >= 2
            PROVE  FALSE
        <5>1. Num(f.head) >= 2
          <6>1. CASE fdb.head = NoBlock \/ Num(b) > Num(fdb.head)
            <7>1. Num(b) \in Nat /\ fdb.head # NoBlock
              BY <1>1, <4>1, NumFacts
            <7>2. f.head = b
              BY <1>3, <6>1
            <7>3. Num(b) >= 2
              BY <1>1, <4>1, <6>1, <7>1
            <7> QED BY <7>2, <7>3
          <6>2. CASE ~(fdb.head = NoBlock \/ Num(b) > Num(fdb.head))
            <7>1. f.head = fdb.head
              BY <1>3, <6>2
            <7> QED BY <4>1, <7>1
          <6> QED BY <6>1, <6>2
        <5> QED BY <1>4, <3>1, <5>1
      <4> QED BY <1>2, <2>1, <4>1 DEF AtRest, Bare
    <3>3. f.head = b /\ f.index = {b}
      BY <1>3, <3>2
    <3>4. Num(b) = 1
      BY <1>4, <3>1, <3>3
    <3>5. Closed(f, Len(log))
      BY <3>3, <3>4 DEF Closed
    <3> QED BY <2>1, <3>2, <3>3, <3>5
  <2>2. CASE chain.head # NoBlock
    <3>1. Kept(fdb, chain, Len(log), H) /\ Num(fdb.head) <= H
      BY <1>2, <2>2 DEF AtRest
    <3>2. f.head # fdb.head
      BY <1>1, <1>4, <3>1
    <3>3. f.head = b /\ (fdb.head = NoBlock \/ Num(b) > Num(fdb.head))
      BY <1>3, <3>2
    <3>4. Prev(b) \in fdb.index
      BY <1>4, <2>2, <3>1, <3>3 DEF Kept
    <3>5. Closed(f, Len(log))
      BY <1>3, <3>1, <3>4 DEF Kept
    <3>6. \A c \in fdb.index : Num(c) <= H /\ Num(c) \in Nat
      BY <1>1, <3>1, NumFacts DEF Kept
    <3> QED BY <1>1, <3>1, <3>3, <3>5, <3>6 DEF Kept
  <2> QED BY <2>1, <2>2
<1>6. Num(b) = H + 1 /\ Prev(b) = chain.head
  BY <1>4, <1>5
<1>7. Agrees(b, log)
  <2>1. Num(call.block) > HeadNum
    BY <1>1, <1>6 DEF HeadNum
  <2> QED BY <2>1 DEF Orderly
<1>8. Kept(f, chain, Len(log), Num(b))
  <2>1. f.head # NoBlock
    BY <1>1, <1>5, NumFacts
  <2>2. \A c \in f.index : Num(c) <= Num(b)
    BY <1>1, <1>3, <1>5, <1>6
  <2> QED BY <1>3, <1>5, <2>1, <2>2 DEF Kept
<1>9. call'.block = b /\ call'.mode = "direct" /\ call'.at = 1
  BY Parts DEF Call
<1>10. Num(b) > 1 => ~f.headCut
  <2> SUFFICES ASSUME Num(b) > 1
               PROVE  ~f.headCut
    OBVIOUS
  <2>1. chain.head # NoBlock
    BY <1>1, <1>6, NumFacts
  <2> QED BY <1>3, <1>5, <1>6, <2>1
<1>11. Anc(b, Num(b)) = b /\ Anc(b, Num(b) - 1) = chain.head
  BY <1>1, <1>6, NumFacts, PrevFacts
<1>12. Midway(f, chain, log, call')
  <2>1. b \in f.index /\ Num(f.head) <= Num(b) /\ f.head = Anc(b, Num(f.head))
    BY <1>1, <1>3, <1>4, <1>5, <1>6, <1>11
  <2> QED BY <1>5, <1>7, <1>8, <1>9, <2>1 DEF Midway
<1>13. Putting(f, chain, log, call', 0)
  <2>1. 1 \in 1 .. Num(b) /\ Num(b) - 1 + 0 = Num(b) - 1 /\ Num(b) <= Num(b) - 1 + 1
    BY <1>1, <1>6
  <2> QED BY <1>5, <1>9, <1>10, <1>11, <2>1 DEF Putting
<1>14. LogOK(chain', undo', log', pc')
  BY DEF ForkInv, LogOK
<1>15. CallAt(fdb', chain', log', pc', call')
  BY <1>12, <1>13 DEF CallAt, f
<1> QED BY <1>14, <1>15, ForkAssemble

\* Pushing a block that does not extend the chain: it stays in the fork database,
\* or the call goes on to switch to it.
LEMMA ForkBeside ==
    ASSUME Inv, ForkInv, Orderly, pc = "push", chain.head # NoBlock,
           CanPush(fdb, call.block),
           Prev(PushItem(fdb, call.block).head) # chain.head
    PROVE  LET f == PushItem(fdb, call.block)
           IN  /\ Num(f.head) <= HeadNum => AtRest(f, chain, log)
               /\ Num(f.head) > HeadNum =>
                     /\ f.head = call.block
                     /\ Kept(f, chain, Len(log), Num(call.block))
                     /\ Num(call.block) = HeadNum + 1
                     /\ ~f.headCut
                     /\ call.block \in f.index /\ chain.head \in f.index
                     /\ Agrees(call.block, log) /\ Agrees(chain.head, log)
<1> DEFINE b == call.block
           f == PushItem(fdb, b)
           H == Num(chain.head)
<1>1. /\ TreeInv /\ fdb \in ForkDb /\ b \in Block /\ chain.head \in Block \cup {NoBlock} /\ H \in Nat
      /\ Len(log) \in Nat /\ fdb.head \in Block \cup {NoBlock} /\ fdb.index \subseteq Block
      /\ Num(fdb.head) \in Nat /\ H >= 1 /\ Num(b) \in Nat
  BY Parts, CallTypes, NumFacts DEF CallOK
<1>2. Kept(fdb, chain, Len(log), H) /\ Num(fdb.head) <= H
  BY DEF ForkInv, CallAt, AtRest
<1>3. /\ f.index = fdb.index \cup {b}
      /\ fdb.head = NoBlock \/ Num(b) > Num(fdb.head) => f.head = b
      /\ ~(fdb.head = NoBlock \/ Num(b) > Num(fdb.head)) => f.head = fdb.head
      /\ (fdb.head = NoBlock \/ Num(b) > Num(fdb.head)) /\ Prev(b) \in fdb.index => ~f.headCut
      /\ \A n : Closed(fdb, n) /\ (Prev(b) = NoBlock \/ Prev(b) \in fdb.index) => Closed(f, n)
  BY <1>1, PushFacts
<1>4. fdb.head # NoBlock /\ (Prev(b) = NoBlock \/ Prev(b) \in fdb.index)
  BY <1>2 DEF CanPush, Links, Kept
<1>5. Num(b) <= H + 1
  <2>1. Num(b) = Num(Prev(b)) + 1
    BY <1>1, PrevFacts
  <2>2. CASE Prev(b) = NoBlock
    BY <1>1, <2>1, <2>2, NumFacts
  <2>3. CASE Prev(b) \in fdb.index
    <3>1. Num(Prev(b)) <= H /\ Num(Prev(b)) \in Nat
      BY <1>1, <1>2, <2>3, NumFacts DEF Kept
    <3> QED BY <1>1, <2>1, <3>1
  <2> QED BY <1>4, <2>2, <2>3
<1>6. Closed(f, Len(log))
  BY <1>2, <1>3, <1>4 DEF Kept
<1> HIDE DEF f
<1>7. f.head # NoBlock
  BY <1>1, <1>3, <1>4, NumFacts
<1>8. \A c \in fdb.index : Num(c) <= H /\ Num(c) \in Nat
  BY <1>1, <1>2, NumFacts DEF Kept
<1>9. ASSUME Num(f.head) <= H
      PROVE  AtRest(f, chain, log)
  <2>1. Num(b) <= H
    BY <1>1, <1>2, <1>3, <1>9
  <2>2. \A c \in f.index : Num(c) <= H
    BY <1>3, <1>8, <2>1
  <2>3. Kept(f, chain, Len(log), H)
    BY <1>2, <1>3, <1>6, <1>7, <2>2 DEF Kept
  <2> QED BY <1>9, <2>3 DEF AtRest
<1>10. ASSUME Num(f.head) > H
       PROVE  /\ f.head = b
              /\ Kept(f, chain, Len(log), Num(b))
              /\ Num(b) = H + 1
              /\ ~f.headCut
              /\ b \in f.index /\ chain.head \in f.index
              /\ Agrees(b, log) /\ Agrees(chain.head, log)
  <2>1. f.head = b /\ Num(b) > Num(fdb.head)
    BY <1>1, <1>2, <1>3, <1>4, <1>10
  <2>2. Num(b) = H + 1
    BY <1>1, <1>5, <1>10, <2>1
  <2>3. Prev(b) # NoBlock
    BY <1>1, <2>2, NumFacts
  <2>4. ~f.headCut
    BY <1>3, <1>4, <2>1, <2>3
  <2>5. \A c \in f.index : Num(c) <= Num(b)
    BY <1>1, <1>3, <1>8, <2>2
  <2>6. Kept(f, chain, Len(log), Num(b))
    BY <1>2, <1>3, <1>6, <1>7, <2>5 DEF Kept
  <2>7. Agrees(b, log) /\ Agrees(chain.head, log)
    BY <1>10, <2>1 DEF Orderly, HeadNum, ForkInv, LogOK
  <2> QED BY <1>2, <1>3, <2>1, <2>2, <2>4, <2>6, <2>7 DEF Kept
<1> QED BY <1>9, <1>10 DEF f, HeadNum


LEMMA ForkPush ==
    ASSUME Inv, ForkInv, Orderly, PushBlock
    PROVE  ForkInv'
<1> DEFINE b == call.block
           f == PushItem(fdb, b)
           h == f.head
<1>1. /\ pc = "push" /\ UNCHANGED <<blocks, chain, undo, log>>
      /\ \/ Return("error", fdb)
         \/ /\ CanPush(fdb, b) /\ Prev(h) = chain.head
            /\ pc' = "apply"
            /\ call' = [call EXCEPT !.mode = "direct", !.at = 1]
            /\ fdb' = f
         \/ CanPush(fdb, b) /\ Prev(h) # chain.head /\ ~(Num(h) > HeadNum) /\ Return("ok", f)
         \/ /\ CanPush(fdb, b) /\ Prev(h) # chain.head /\ Num(h) > HeadNum
            /\ ~CanFetchBranches(f, h, chain.head) /\ Return("error", f)
         \/ /\ CanPush(fdb, b) /\ Prev(h) # chain.head /\ Num(h) > HeadNum
            /\ CanFetchBranches(f, h, chain.head)
            /\ pc' = "pop"
            /\ call' = [call EXCEPT !.mode   = "switch",
                                    !.first  = Branch(h, chain.head),
                                    !.second = Branch(chain.head, h),
                                    !.at     = Len(Branch(h, chain.head))]
            /\ fdb' = f
  BY DEF PushBlock
<1>2. /\ TreeInv /\ fdb \in ForkDb /\ b \in Block /\ f \in ForkDb /\ h \in Block /\ HeadNum \in Nat
      /\ Num(h) \in Nat /\ Num(h) >= 1 /\ Len(log) \in Nat /\ log \in Seq(Block)
      /\ AtRest(fdb, chain, log) /\ LogOK(chain, undo, log, pc)
  <2>1. TreeInv /\ fdb \in ForkDb /\ b \in Block /\ HeadNum \in Nat /\ log \in Seq(Block)
    BY <1>1, Parts DEF CallOK
  <2>2. f \in ForkDb /\ h \in Block
    <3>1. {} \in SUBSET Block
      OBVIOUS
    <3> QED BY <2>1, <3>1, ForkDbTypes
  <2>3. Num(h) \in Nat /\ Num(h) >= 1
    BY <2>1, <2>2, NumFacts
  <2> QED BY <1>1, <2>1, <2>2, <2>3 DEF ForkInv, CallAt
<1>3. CASE Return("error", fdb)
  BY <1>1, <1>2, <1>3, ForkReturn
<1>4. CASE /\ CanPush(fdb, b) /\ Prev(h) = chain.head
           /\ pc' = "apply"
           /\ call' = [call EXCEPT !.mode = "direct", !.at = 1]
           /\ fdb' = f
  BY <1>1, <1>4, ForkExtend
<1>5. CASE CanPush(fdb, b) /\ Prev(h) # chain.head /\ ~(Num(h) > HeadNum) /\ Return("ok", f)
  <2>1. chain.head # NoBlock
    BY <1>2, <1>5, NumFacts DEF HeadNum
  <2>2. Num(h) <= HeadNum
    BY <1>2, <1>5
  <2>3. AtRest(f, chain, log)
    BY <1>1, <1>5, <2>1, <2>2, ForkBeside
  <2> QED BY <1>1, <1>2, <1>5, <2>3, ForkReturn
<1>6. ASSUME CanPush(fdb, b), Prev(h) # chain.head, Num(h) > HeadNum, chain.head # NoBlock
      PROVE  /\ h = b
             /\ Kept(f, chain, Len(log), Num(b))
             /\ Num(b) = HeadNum + 1
             /\ ~f.headCut
             /\ b \in f.index /\ chain.head \in f.index
             /\ Agrees(b, log) /\ Agrees(chain.head, log)
  BY <1>1, <1>6, ForkBeside
<1> HIDE DEF f
<1> DEFINE p == Prev(Last(Branch(chain.head, b)))
<1>7. ASSUME CanPush(fdb, b), Prev(h) # chain.head, Num(h) > HeadNum, chain.head # NoBlock
      PROVE  /\ CanFetchBranches(f, b, chain.head)
             /\ p \in Block \cup {NoBlock}
             /\ Len(log) <= Num(p) /\ Num(p) < Num(chain.head)
             /\ Anc(b, Num(p)) = p /\ Anc(chain.head, Num(p)) = p
             /\ Len(Branch(b, chain.head)) = Num(b) - Num(p)
             /\ \A i \in 1 .. Len(Branch(b, chain.head)) : Branch(b, chain.head)[i] = Anc(b, Num(b) + 1 - i)
  <2>1. /\ b \in f.index /\ chain.head \in f.index /\ Num(b) = Num(chain.head) + 1
        /\ Prev(b) # chain.head /\ Closed(f, Len(log))
    BY <1>6, <1>7 DEF HeadNum, Kept
  <2>2. Agrees(b, log) /\ Agrees(chain.head, log)
    BY <1>6, <1>7
  <2> QED BY <1>2, <2>1, <2>2, SwitchFacts
<1>8. CASE /\ CanPush(fdb, b) /\ Prev(h) # chain.head /\ Num(h) > HeadNum
           /\ ~CanFetchBranches(f, h, chain.head) /\ Return("error", f)
  <2>1. chain.head = NoBlock
    BY <1>6, <1>7, <1>8
  <2>2. Num(h) # 1
    BY <1>2, <1>8, <2>1, NumFacts
  <2>3. AtRest(f, chain, log)
    BY <1>2, <2>1, <2>2 DEF AtRest
  <2> QED BY <1>1, <1>2, <1>8, <2>3, ForkReturn
<1>9. CASE /\ CanPush(fdb, b) /\ Prev(h) # chain.head /\ Num(h) > HeadNum
           /\ CanFetchBranches(f, h, chain.head)
           /\ pc' = "pop"
           /\ call' = [call EXCEPT !.mode   = "switch",
                                   !.first  = Branch(h, chain.head),
                                   !.second = Branch(chain.head, h),
                                   !.at     = Len(Branch(h, chain.head))]
           /\ fdb' = f
  <2>1. chain.head # NoBlock
    <3>1. chain.head \in f.index
      BY <1>9 DEF CanFetchBranches
    <3>2. chain.head \in Block
      BY <1>2, <3>1 DEF ForkDb
    <3> QED BY <1>2, <3>2, NumFacts
  <2>2. h = b
    BY <1>6, <1>9, <2>1
  <2>3. /\ call'.block = b /\ call'.mode = "switch" /\ call'.first = Branch(b, chain.head)
        /\ call'.second = Branch(chain.head, b) /\ call'.at = Len(Branch(b, chain.head))
    BY <1>9, <2>2, Parts DEF Call
  <2>4. Fork(call') = p
    BY <2>3 DEF Fork
  <2>5. Num(p) \in Nat /\ Num(chain.head) \in Nat /\ Num(b) \in Nat
    BY <1>2, <1>7, <1>9, <2>1, NumFacts DEF HeadNum
  <2> HIDE DEF p
  <2>6. NewBranch(call') /\ Len(log) <= Num(chain.head)
    <3>1. Len(log) <= Num(chain.head)
      BY <1>2, <1>7, <1>9, <2>1, <2>5
    <3> QED BY <1>7, <1>9, <2>1, <2>3, <2>4, <3>1 DEF NewBranch
  <2>7. Midway(f, chain, log, call')
    <3>1. Anc(b, Num(b)) = b
      BY <1>2, PrevFacts
    <3>2. Num(f.head) <= Num(b) /\ f.head = Anc(b, Num(f.head))
      BY <2>2, <2>5, <3>1
    <3> QED BY <1>6, <1>9, <2>1, <2>3, <2>6, <3>2 DEF Midway
  <2>8. Popping(f, chain, log, call')
    <3>1. Num(f.head) = Num(chain.head) + 1 /\ ~f.headCut
      BY <1>6, <1>9, <2>1, <2>2 DEF HeadNum
    <3>2. Num(p) <= Num(chain.head)
      BY <1>7, <1>9, <2>1, <2>5
    <3> QED BY <1>7, <1>9, <2>1, <2>3, <2>4, <3>1, <3>2 DEF Popping
  <2>9. LogOK(chain', undo', log', pc')
    BY <1>1, <1>2, <1>9 DEF LogOK
  <2>10. CallAt(fdb', chain', log', pc', call')
    BY <1>1, <1>9, <2>7, <2>8 DEF CallAt
  <2> QED BY <1>1, <2>9, <2>10, ForkAssemble
<1> QED BY <1>1, <1>3, <1>4, <1>5, <1>8, <1>9 DEF f


\* An ancestor of a block agrees with the log as the block does.
LEMMA AgreesBelow ==
    ASSUME TreeInv, NEW b \in Block \cup {NoBlock}, NEW l \in Seq(Block), Agrees(b, l),
           NEW n \in 0 .. Num(b)
    PROVE  Agrees(Anc(b, n), l)
<1>1. Num(Anc(b, n)) = n /\ \A m \in 0 .. n : Anc(Anc(b, n), m) = Anc(b, m)
  BY AncFacts
<1>2. Num(b) \in Nat /\ Len(l) \in Nat
  BY NumFacts
<1> SUFFICES ASSUME NEW m \in 1 .. Len(l), m <= n
             PROVE  Anc(Anc(b, n), m) = l[m]
  BY <1>1 DEF Agrees
<1>3. m \in 0 .. n /\ m <= Num(b)
  BY <1>2
<1> QED BY <1>1, <1>3 DEF Agrees

\* A step of the loop that takes off the old branch: the fork database comes down
\* with the state, and there is a session to undo.
LEMMA ForkPop ==
    ASSUME Inv, ForkInv, PopStep
    PROVE  ForkInv'
<1> DEFINE b == call.block
           N == Num(b)
           H == Num(chain.head)
           L == Len(log)
           p == Fork(call)
           P == Num(p)
           U == Len(undo)
<1>1. /\ pc = "pop" /\ chain.head # p /\ PopBlock /\ UNCHANGED <<blocks, log>>
      /\ Midway(fdb, chain, log, call) /\ Popping(fdb, chain, log, call)
      /\ LogOK(chain, undo, log, "pop")
  BY DEF PopStep, ForkInv, CallAt, ForkPoint, Fork
<1>2. /\ call.mode = "switch" /\ call.at = Len(call.first) /\ Num(fdb.head) = H + 1
      /\ (H >= 1 => ~fdb.headCut) /\ L <= P /\ P <= H
      /\ Anc(b, P) = p /\ Anc(chain.head, P) = p
  BY <1>1 DEF Popping
<1>3. /\ b \in fdb.index /\ Kept(fdb, chain, L, N) /\ Agrees(b, log)
      /\ fdb.head = Anc(b, Num(fdb.head)) /\ Num(fdb.head) <= N
      /\ NewBranch(call)
  BY <1>1, <1>2 DEF Midway
<1>4. /\ LogChain(log) /\ Agrees(chain.head, log) /\ H - U <= L /\ chain.lib <= L
  BY <1>1 DEF LogOK
<1>5. /\ TreeInv /\ fdb \in ForkDb /\ H \in Nat /\ L \in Nat /\ U \in Nat /\ N \in Nat
      /\ b \in Block /\ chain.head \in Block \cup {NoBlock} /\ p \in Block \cup {NoBlock} /\ P \in Nat
      /\ fdb.head \in Block /\ log \in Seq(Block) /\ chain \in State /\ undo \in Seq(Session)
      /\ UndoIn(blocks, chain, undo) /\ chain.lib \in Nat
  <2>1. p \in Block \cup {NoBlock} /\ b \in Block /\ fdb.head \in Block
    BY <1>3, CallTypes DEF NewBranch, Kept
  <2> QED BY <2>1, Parts, CallTypes, NumFacts
<1> HIDE DEF p
<1>6. P < H /\ chain.head \in Block
  <2>1. P # H
    <3>1. CASE chain.head = NoBlock
      BY <1>2, <1>1, <3>1, <1>5, NumFacts DEF Anc
    <3>2. CASE chain.head \in Block
      <4>1. Anc(chain.head, H) = chain.head
        BY <1>5, <3>2, PrevFacts
      <4> QED BY <1>1, <1>2, <4>1
    <3> QED BY <1>5, <3>1, <3>2
  <2>2. P < H
    BY <1>2, <1>5, <2>1
  <2> QED BY <1>5, <2>2, NumFacts
<1>7. chain.head \in fdb.index /\ CanPop(fdb)
  <2>1. chain.head # NoBlock /\ fdb.head # NoBlock /\ H >= 1
    BY <1>5, <1>6, NumFacts
  <2> QED BY <1>2, <1>3, <2>1 DEF Kept, CanPop
<1>8. undo # << >>
  <2>1. U # 0
    BY <1>2, <1>4, <1>5, <1>6
  <2> QED BY <2>1
<1>9. /\ fdb' = PopHead(fdb, Held(call))
      /\ chain' = Last(undo).state /\ undo' = Front(undo)
      /\ UNCHANGED <<pc, call, result>>
  BY <1>1, <1>7, <1>8 DEF PopBlock, UndoLast
<1> DEFINE f == PopHead(fdb, Held(call))
           d == Last(undo).state
<1>10. /\ d.head = Anc(chain.head, H - 1) /\ Num(d.head) = H - 1 /\ d.lib <= chain.lib /\ d.lib \in Nat
       /\ d.head \in Block \cup {NoBlock}
       /\ Len(Front(undo)) = U - 1
  <2>1. d \in State /\ d.head = Anc(chain.head, H - 1) /\ Num(d.head) = H - 1
    BY <1>5, <1>8, UndoPop
  <2>2. U \in 1 .. U
    BY <1>5, <1>8
  <2>3. d.lib <= chain.lib
    BY <1>5, <2>2 DEF UndoIn, Last
  <2>4. Len(Front(undo)) = U - 1
    <3>1. 1 \in 1 .. U + 1 /\ U - 1 \in 1 - 1 .. U /\ U - 1 - 1 + 1 = U - 1
      BY <1>5, <2>2
    <3>2. undo \in Seq(Session)
      BY <1>5
    <3>3. Len(SubSeq(undo, 1, U - 1)) = U - 1 - 1 + 1
      BY <3>1, <3>2, PartOfSeq, Zenon
    <3> QED BY <3>1, <3>3 DEF Front
  <2> QED BY <2>1, <2>3, <2>4 DEF State
<1>11. H - 1 \in 0 .. H /\ H - 1 >= P /\ H - 1 >= L /\ H >= 1 /\ H < N /\ H \in 1 .. N /\ H > L
       /\ P \in 0 .. H - 1 /\ H + 1 \in 1 .. N /\ H + 1 - 1 = H
  <2> DEFINE x == Num(fdb.head)
  <2>1. /\ H \in Nat /\ P \in Nat /\ L \in Nat /\ N \in Nat /\ P < H /\ L <= P /\ x = H + 1 /\ x <= N
    BY <1>2, <1>3, <1>5, <1>6
  <2> HIDE DEF x, H, P, L, N
  <2> QED BY <2>1
<1>12. Prev(fdb.head) = Anc(b, H) /\ Anc(b, H) \in Block /\ Num(Anc(b, H)) = H
  BY <1>2, <1>3, <1>5, <1>11, AncPrev
<1>13. /\ f.index = fdb.index /\ f.head = Anc(b, H)
       /\ \A c, n, top : Kept(fdb, c, n, top) => Kept(f, c, n, top)
       /\ Anc(b, H) \notin fdb.expired /\ Prev(Anc(b, H)) # NoBlock /\ Prev(Anc(b, H)) \in fdb.index
             => ~f.headCut
  <2>1. Anc(b, H) # NoBlock
    BY <1>5, <1>12, NumFacts
  <2> QED BY <1>5, <1>12, <2>1, PopFacts
<1> HIDE DEF f, d
<1>14. ASSUME H - 1 >= 1
       PROVE  d.head \in fdb.index
  <2>1. H - 1 \in 1 .. H /\ H - 1 >= L
    BY <1>5, <1>11, <1>14
  <2> QED BY <1>3, <1>5, <1>7, <1>10, <2>1, ClosedBelow DEF Kept
<1>15. Kept(f, d, L, N)
  <2>1. d.head # NoBlock => d.head \in fdb.index
    <3> SUFFICES ASSUME d.head # NoBlock
                 PROVE  d.head \in fdb.index
      OBVIOUS
    <3>1. H - 1 >= 1
      BY <1>5, <1>10, NumFacts
    <3> QED BY <1>14, <3>1
  <2>2. Kept(fdb, d, L, N)
    BY <1>3, <2>1 DEF Kept
  <2> QED BY <1>13, <2>2
<1>16. H - 1 >= 1 => ~f.headCut
  <2> SUFFICES ASSUME H - 1 >= 1
               PROVE  ~f.headCut
    OBVIOUS
  <2>1. H - 1 \in 1 .. N /\ H > 1 /\ H >= L
    <3>1. H \in Nat /\ L \in Nat /\ N \in Nat /\ H < N /\ H > L
      BY <1>5, <1>11
    <3> HIDE DEF H, L, N
    <3> QED BY <3>1
  <2>2. Prev(Anc(b, H)) = Anc(b, H - 1)
    BY <1>5, <1>11, AncPrev
  <2>3. Anc(b, H - 1) \in fdb.index
    BY <1>3, <1>5, <1>11, <2>1, ClosedBelow DEF Kept
  <2>4. Anc(b, H) \notin fdb.expired
    BY <1>3, <1>5, <1>11, <2>1, ClosedBelow DEF Kept
  <2>5. Anc(b, H - 1) # NoBlock
    BY <1>5, <2>3, NumFacts DEF ForkDb
  <2> QED BY <1>13, <2>2, <2>3, <2>4, <2>5
<1>17. Midway(f, d, log, call)
  <2>1. Num(f.head) = H /\ H <= N /\ L <= Num(d.head)
    BY <1>5, <1>10, <1>11, <1>12, <1>13
  <2> QED BY <1>2, <1>3, <1>13, <1>15, <2>1 DEF Midway
<1>18. Popping(f, d, log, call)
  <2>1. Num(f.head) = Num(d.head) + 1
    BY <1>5, <1>10, <1>12, <1>13
  <2>2. Anc(d.head, P) = p
    <3>1. H - 1 \in 0 .. H /\ P \in 0 .. H - 1
      BY <1>11
    <3>2. \A m \in 0 .. H - 1 : Anc(Anc(chain.head, H - 1), m) = Anc(chain.head, m)
      BY <1>5, <3>1, AncFacts
    <3> QED BY <1>2, <1>10, <3>1, <3>2
  <2>3. P <= Num(d.head) /\ (Num(d.head) >= 1 => ~f.headCut)
    BY <1>10, <1>11, <1>16
  <2> QED BY <1>2, <2>1, <2>2, <2>3 DEF Popping, p
<1>19. LogOK(d, Front(undo), log, "pop")
  <2>1. Agrees(d.head, log)
    BY <1>4, <1>5, <1>10, <1>11, AgreesBelow
  <2>2. Num(d.head) - Len(Front(undo)) <= L /\ d.lib <= L
    <3> DEFINE x == Num(d.head)
               y == Len(Front(undo))
               i == d.lib
               lib == chain.lib
    <3>1. /\ H \in Nat /\ U \in Nat /\ L \in Nat /\ lib \in Nat /\ i \in Nat
          /\ x = H - 1 /\ y = U - 1 /\ H - U <= L /\ lib <= L /\ i <= lib
      BY <1>4, <1>5, <1>10
    <3> HIDE DEF x, y, i, lib, H, U, L
    <3>2. x - y <= L /\ i <= L
      BY <3>1
    <3> QED BY <3>2 DEF x, y, i
  <2> QED BY <1>4, <2>1, <2>2 DEF LogOK
<1>20. LogOK(chain', undo', log', pc')
  BY <1>1, <1>9, <1>19 DEF d
<1>21. CallAt(fdb', chain', log', pc', call')
  BY <1>1, <1>9, <1>17, <1>18 DEF CallAt, d, f
<1> QED BY <1>1, <1>20, <1>21, ForkAssemble

\* The old branch is off, and the first block of the new one is next.
LEMMA ForkPopDone ==
    ASSUME Inv, ForkInv, PopDone
    PROVE  ForkInv'
<1> DEFINE b == call.block
           p == Fork(call)
<1>1. /\ pc = "pop" /\ pc' = "apply" /\ chain.head = p
      /\ UNCHANGED <<blocks, fdb, chain, undo, log, call>>
      /\ Midway(fdb, chain, log, call) /\ Popping(fdb, chain, log, call)
  BY DEF PopDone, ForkInv, CallAt, ForkPoint, Fork
<1>2. /\ call.mode = "switch" /\ call.at = Len(call.first) /\ Num(fdb.head) = Num(chain.head) + 1
      /\ Anc(b, Num(p)) = p /\ Len(log) <= Num(p)
  BY <1>1 DEF Popping
<1>3. Len(call.first) = Num(b) - Num(p) /\ Num(fdb.head) <= Num(b)
  BY <1>1, <1>2 DEF Midway, NewBranch
<1>4. Num(b) \in Nat /\ Num(p) \in Nat /\ Len(log) \in Nat
  BY <1>1, CallTypes
<1> HIDE DEF p
<1>5. /\ call.at \in 1 .. Num(b) /\ Num(b) - call.at + 0 = Num(p)
      /\ Num(fdb.head) <= Num(b) - call.at + 1
      /\ Num(fdb.head) = Num(p) + 1
  BY <1>1, <1>2, <1>3, <1>4
<1>6. Num(fdb.head) > 1 /\ Num(fdb.head) > Len(log) + 1 => ~fdb.headCut
  BY <1>1, <1>4, <1>5 DEF Popping
<1>7. Putting(fdb, chain, log, call, 0)
  BY <1>1, <1>2, <1>5, <1>6 DEF Putting, p
<1>8. LogOK(chain', undo', log', pc')
  BY <1>1 DEF ForkInv, LogOK
<1>9. CallAt(fdb', chain', log', pc', call')
  BY <1>1, <1>7 DEF CallAt
<1> QED BY <1>1, <1>8, <1>9, ForkAssemble


\* commit() drops sessions only up to the last irreversible block: below the
\* oldest session that is left everything is logged or about to be.
LEMMA CommittedBase ==
    ASSUME Inv, NEW b \in Block, Prev(b) = chain.head, NEW lib \in Nat, NEW v,
           Committed(Append(undo, [state |-> chain, revision |-> HeadNum + 1]), lib, v),
           NEW L \in Nat, HeadNum - Len(undo) <= L
    PROVE  Len(v) \in Nat /\ (Num(b) - Len(v) <= L \/ Num(b) - Len(v) <= lib)
<1> DEFINE e == [state |-> chain, revision |-> HeadNum + 1]
           t == Append(undo, e)
           H == HeadNum
           U == Len(undo)
<1>1. /\ H \in Nat /\ U \in Nat /\ undo \in Seq(Session) /\ e \in Session /\ e.revision = H + 1
      /\ Num(b) = H + 1 /\ chain \in State
  <2>1. H \in Nat /\ undo \in Seq(Session) /\ chain \in State /\ TreeInv
    BY Parts
  <2>2. H + 1 \in Nat
    BY <2>1
  <2>3. Num(b) = H + 1
    BY <2>1, PrevFacts DEF HeadNum
  <2> QED BY <2>1, <2>2, <2>3 DEF Session
<1> HIDE DEF e
<1>2. /\ t \in Seq(Session) /\ Len(t) = U + 1
      /\ \A i \in 1 .. U : t[i] = undo[i] /\ t[U + 1] = e
  BY <1>1
<1>3. t[U + 1] = e
  BY <1>1
<1> HIDE DEF t
<1>4. PICK k \in 0 .. Len(t) : /\ \A i \in 1 .. k : t[i].revision <= lib
                               /\ v = SubSeq(t, k + 1, Len(t))
  BY DEF Committed, t, e
<1>5. k \in 0 .. U + 1 /\ k \in Nat
  BY <1>1, <1>2
<1>6. Len(v) = U + 1 - k
  <2>1. k + 1 \in 1 .. Len(t) + 1 /\ Len(t) \in (k + 1) - 1 .. Len(t) /\ Len(t) - (k + 1) + 1 = U + 1 - k
    BY <1>1, <1>2, <1>5
  <2>2. Len(SubSeq(t, k + 1, Len(t))) = Len(t) - (k + 1) + 1
    BY <1>2, <2>1, PartOfSeq
  <2> QED BY <1>4, <2>1, <2>2
<1>7. Num(b) - Len(v) = H - U + k /\ Len(v) \in Nat
  BY <1>1, <1>5, <1>6
<1>8. CASE k = 0
  BY <1>1, <1>7, <1>8
<1>9. CASE k \in 1 .. U + 1
  <2>1. t[k].revision <= lib
    BY <1>4, <1>5, <1>9
  <2>2. t[k].revision = H - U + k
    <3>1. CASE k = U + 1
      BY <1>1, <1>3, <3>1
    <3>2. CASE k \in 1 .. U
      <4>1. undo[k].revision = NumIn(blocks, chain.head) - U + k
        BY <3>2, Parts DEF UndoIn
      <4> QED BY <1>2, <3>2, <4>1, SameIn DEF HeadNum
    <3> QED BY <1>1, <1>9, <3>1, <3>2
  <2> QED BY <1>7, <2>1, <2>2
<1> QED BY <1>1, <1>5, <1>8, <1>9

LEMMA ForkApply ==
    ASSUME Inv, ForkInv, ApplyBlock
    PROVE  ForkInv'
<1> DEFINE b == call.block
           N == Num(b)
           n == N - call.at + 1
           L == Len(log)
           k == Current
           c == Post(chain, k)
<1>1. /\ pc = "apply" /\ pc' = "log" /\ Prev(k) = chain.head /\ chain' = c
      /\ Committed(Append(undo, [state |-> chain, revision |-> rev + 1]), chain'.lib, undo')
      /\ UNCHANGED <<blocks, fdb, log, call>>
      /\ Midway(fdb, chain, log, call) /\ Putting(fdb, chain, log, call, 0)
      /\ LogOK(chain, undo, log, "apply")
  BY DEF ApplyBlock, Applies, ForkInv, CallAt
<1>2. /\ n \in 1 .. N /\ k = Anc(b, n) /\ k \in Block /\ Num(k) = n /\ b \in Block
  BY <1>1, CurrentIs
<1>3. /\ TreeInv /\ fdb \in ForkDb /\ L \in Nat /\ N \in Nat /\ log \in Seq(Block) /\ Len(undo) \in Nat
      /\ rev = HeadNum /\ HeadNum \in Nat /\ call.at \in Nat
  BY <1>1, Parts, CallTypes DEF Running
<1>4. c.head = k /\ c.lib \in Nat
  <2>1. c \in State /\ c.head = k
    BY <1>1, <1>2, Parts, PostKeeps
  <2> QED BY <2>1 DEF State
<1> HIDE DEF k, c
<1>5. HeadNum = n - 1
  BY <1>1, <1>2, <1>3, PrevFacts DEF HeadNum
<1>6. /\ b \in fdb.index /\ Kept(fdb, chain, L, N) /\ Agrees(b, log)
      /\ fdb.head = Anc(b, Num(fdb.head)) /\ Num(fdb.head) <= N
      /\ call.mode = "direct" => fdb.head = b
      /\ call.mode = "switch" => NewBranch(call) /\ L <= HeadNum
  BY <1>1 DEF Midway, HeadNum
<1>7. call.mode \in {"direct", "switch"} /\ (call.mode = "direct" => call.at = 1)
  BY <1>1 DEF Putting
<1>8. k \in fdb.index /\ (call.mode = "switch" => L <= n)
  <2>1. CASE call.mode = "direct"
    <3>1. n = N
      BY <1>3, <1>7, <2>1
    <3>2. Anc(b, N) = b
      BY <1>2, <1>3, PrevFacts
    <3> QED BY <1>2, <1>6, <2>1, <3>1, <3>2
  <2>2. CASE call.mode = "switch"
    <3>1. L <= HeadNum
      BY <1>6, <2>2
    <3> DEFINE m == n
               H == HeadNum
    <3>2. H = m - 1 /\ H \in Nat /\ L \in Nat /\ L <= H /\ m \in Int
      BY <1>2, <1>3, <1>5, <3>1
    <3> HIDE DEF m, H
    <3>3. m >= L
      BY <3>2
    <3> QED BY <1>2, <1>3, <1>6, <3>3, ClosedBelow DEF Kept, m
  <2> QED BY <1>7, <2>1, <2>2
<1>9. Kept(fdb, c, L, N)
  BY <1>4, <1>6, <1>8 DEF Kept
<1>10. Midway(fdb, c, log, call)
  BY <1>2, <1>4, <1>6, <1>8, <1>9 DEF Midway
<1>11. Putting(fdb, c, log, call, 1)
  BY <1>1, <1>2, <1>4 DEF Putting
<1>12. LogOK(c, undo', log, "log")
  <2>1. Agrees(k, log)
    <3>1. n \in 0 .. N
      BY <1>2, <1>3
    <3> QED BY <1>2, <1>3, <1>6, <3>1, AgreesBelow
  <2>2. LogChain(log) /\ HeadNum - Len(undo) <= L
    BY <1>1 DEF LogOK, HeadNum
  <2>3. Committed(Append(undo, [state |-> chain, revision |-> HeadNum + 1]), c.lib, undo')
    BY <1>1, <1>3
  <2>4. Num(k) - Len(undo') <= L \/ Num(k) - Len(undo') <= c.lib
    BY <1>1, <1>2, <1>3, <1>4, <2>2, <2>3, CommittedBase
  <2> QED BY <1>4, <2>1, <2>2, <2>4 DEF LogOK
<1>13. CallAt(fdb', chain', log', pc', call')
  BY <1>1, <1>10, <1>11 DEF CallAt
<1> QED BY <1>1, <1>12, <1>13, ForkAssemble

\* The block is the next one of the chain, and none that is refused.
LEMMA NoReject ==
    ASSUME Inv, ForkInv, Orderly
    PROVE  ~RejectBlock /\ ~FailLate /\ ~PopBadDone
<1>1. ASSUME pc = "apply"
      PROVE  Applies(chain, Current)
  <2>1. Prev(Current) = Anc(call.block, (Num(call.block) - call.at + 1) - 1)
    BY <1>1, CurrentIs
  <2>2. chain.head = Anc(call.block, Num(call.block) - call.at + 0)
    BY <1>1 DEF ForkInv, CallAt, Putting
  <2>3. (Num(call.block) - call.at + 1) - 1 = Num(call.block) - call.at + 0
    BY CallTypes
  <2>4. blocks[Current].fault = "ok" /\ Num(Current) - chain.lib < MaxUndoHistory
    BY <1>1 DEF Orderly
  <2> QED BY <2>1, <2>2, <2>3, <2>4 DEF Applies
<1>2. ASSUME pc = "log"
      PROVE  AllFound /\ blocks[Current].fault = "ok"
  BY <1>2, ToLogIs DEF Orderly
<1>3. pc # "popbad"
  BY DEF ForkInv, CallAt
<1> QED BY <1>1, <1>2, <1>3 DEF RejectBlock, FailLate, PopBadDone


\* What the log and the fork database are after the irreversible blocks have been
\* logged.
LEMMA Logged ==
    ASSUME Inv, ForkInv, Orderly, pc = "log"
    PROVE  LET l == log \o ToLog
               f == SetMaxSize(fdb, HeadNum - chain.lib + 1, Held(call))
           IN  /\ LogChain(l) /\ Agrees(call.block, l) /\ Agrees(chain.head, l)
               /\ Len(l) \in Nat /\ Len(log) <= Len(l) /\ chain.lib <= Len(l)
               /\ call.mode = "switch" => Len(l) <= HeadNum
               /\ HeadNum - Len(undo) <= Len(l)
               /\ f \in ForkDb /\ Kept(f, chain, Len(l), Num(call.block))
               /\ call.block \in f.index /\ f.head = fdb.head
               /\ Num(f.head) > 1 /\ Num(f.head) > Len(l) + 1 => ~f.headCut
<1> DEFINE b == call.block
           N == Num(b)
           H == HeadNum
           n == N - call.at + 1
           L == Len(log)
           lib == chain.lib
           M == Len(ToLog)
           l == log \o ToLog
           x == Num(fdb.head)
           f == SetMaxSize(fdb, H - lib + 1, Held(call))
<1>1. /\ Midway(fdb, chain, log, call) /\ Putting(fdb, chain, log, call, 1)
      /\ LogOK(chain, undo, log, "log")
  BY DEF ForkInv, CallAt
<1>2. n \in 1 .. N /\ b \in Block /\ Current = Anc(b, n) /\ Num(Current) = n
  BY CurrentIs
<1>3. /\ chain.head = Anc(b, n) /\ H = n
  <2>1. chain.head = Anc(b, n)
    BY <1>1 DEF Putting
  <2> QED BY <1>2, <2>1 DEF HeadNum
<1>4. /\ TreeInv /\ fdb \in ForkDb /\ chain \in State /\ log \in Seq(Block) /\ Held(call) \in SUBSET Block
      /\ L \in Nat /\ N \in Nat /\ H \in Nat /\ lib \in Nat /\ lib <= H /\ x \in Nat /\ Len(undo) \in Nat
      /\ H \in 0 .. N /\ H <= N
  <2>1. Held(call) \in SUBSET Block
    BY Parts, HeldType
  <2>2. L \in Nat /\ N \in Nat /\ H \in Nat /\ lib \in Nat /\ lib <= H /\ x \in Nat /\ Len(undo) \in Nat
    BY Parts, CallTypes
  <2>3. H \in 1 .. N
    BY <1>2, <1>3
  <2>4. H \in 0 .. N /\ H <= N
    BY <2>2, <2>3
  <2> QED BY <2>1, <2>2, <2>4, Parts
<1>5. /\ b \in fdb.index /\ Kept(fdb, chain, L, N) /\ Agrees(b, log)
      /\ fdb.head = Anc(b, x) /\ x <= N
      /\ call.mode = "switch" => L <= H
  BY <1>1 DEF Midway, HeadNum
<1>6. x <= H /\ (x > 1 /\ x > L + 1 => ~fdb.headCut)
  BY <1>1, <1>3 DEF Putting
<1>7. /\ ToLog \in Seq(Block) /\ M = (IF lib > L THEN lib - L ELSE 0)
      /\ \A i \in 1 .. M : ToLog[i] = Anc(chain.head, L + i)
  BY ToLogIs
<1>8. M \in Nat /\ (M # 0 => L + M = lib) /\ lib <= L + M /\ L <= L + M
      /\ (L <= H => L + M <= H)
  <2>1. L \in Nat /\ H \in Nat /\ lib \in Nat /\ lib <= H /\ M = (IF lib > L THEN lib - L ELSE 0)
    BY <1>4, <1>7
  <2> HIDE DEF L, H, lib, M
  <2> QED BY <2>1
<1> HIDE DEF x, n, N, H, L, lib, M, f
<1>9. \A i \in 1 .. M : ToLog[i] = Anc(b, L + i)
  <2> SUFFICES ASSUME NEW i \in 1 .. M
               PROVE  Anc(chain.head, L + i) = Anc(b, L + i)
    BY <1>7
  <2>1. L + i \in 0 .. H
    BY <1>4, <1>8
  <2>2. \A m \in 0 .. H : Anc(Anc(b, H), m) = Anc(b, m)
    BY <1>2, <1>4, AncFacts DEF N
  <2> QED BY <1>3, <2>1, <2>2
<1>10. /\ LogChain(l) /\ Agrees(b, l) /\ l \in Seq(Block) /\ Len(l) = L + M
  <2>1. ToLog = << >> \/ Len(log) + Len(ToLog) <= Num(b)
    <3>1. CASE M = 0
      BY <1>7, <3>1 DEF M
    <3>2. CASE M # 0
      BY <1>4, <1>8, <3>2 DEF L, M, N
    <3> QED BY <3>1, <3>2
  <2>2. LogChain(log)
    BY <1>1 DEF LogOK
  <2>3. \A i \in 1 .. Len(ToLog) : ToLog[i] = Anc(b, Len(log) + i)
    BY <1>9 DEF L, M
  <2>4. b \in Block \cup {NoBlock} /\ ToLog \in Seq(Block) /\ Agrees(b, log) /\ log \in Seq(Block) /\ TreeInv
    BY <1>2, <1>4, <1>5, <1>7
  <2> QED BY <2>1, <2>2, <2>3, <2>4, LogGrows DEF L, M
<1> HIDE DEF l
<1>11. Agrees(chain.head, l)
  BY <1>2, <1>3, <1>4, <1>10, AgreesBelow DEF N
<1>12. H - Len(undo) <= L + M
  <2>1. H - Len(undo) <= L \/ H - Len(undo) <= lib
    BY <1>1 DEF LogOK, H, L, lib, HeadNum
  <2> QED BY <1>4, <1>8, <2>1
<1>13. /\ f \in ForkDb /\ Kept(f, chain, L + M, N)
       /\ \A a \in fdb.index : Num(a) >= Num(chain.head) => a \in f.index
       /\ f.head = fdb.head
       /\ ~fdb.headCut /\ fdb.head \in fdb.index /\ Num(fdb.head) > 1 /\ Num(fdb.head) > L + M + 1
             => ~f.headCut
  <2>1. /\ L + M \in Nat /\ chain.lib <= L + M /\ L <= L + M
        /\ chain.lib <= Num(chain.head) /\ Num(fdb.head) <= Num(chain.head)
    BY <1>4, <1>6, <1>8 DEF x, H, lib, HeadNum
  <2>2. f = SetMaxSize(fdb, Num(chain.head) - chain.lib + 1, Held(call))
    BY DEF f, H, lib, HeadNum
  <2> QED BY <1>4, <1>5, <2>1, <2>2, SizeKeeps
<1>14. b \in f.index
  <2>1. Num(b) >= Num(chain.head)
    BY <1>4 DEF N, H, HeadNum
  <2> QED BY <1>5, <1>13, <2>1
<1>15. ASSUME x > 1, x > L + M + 1
       PROVE  ~f.headCut
  <2>1. x > L + 1 /\ x \in 1 .. N /\ x >= L
    BY <1>4, <1>5, <1>8, <1>15
  <2>2. fdb.head \in fdb.index
    BY <1>4, <1>5, <2>1, ClosedBelow DEF Kept, N
  <2>3. Num(fdb.head) > 1 /\ Num(fdb.head) > L + M + 1
    BY <1>15 DEF x
  <2>4. ~fdb.headCut
    BY <1>6, <1>15, <2>1
  <2> QED BY <1>13, <2>2, <2>3, <2>4
<1>16. call.mode = "switch" => Len(l) <= H
  BY <1>5, <1>8, <1>10
<1>17. Len(l) \in Nat /\ L <= Len(l) /\ lib <= Len(l) /\ H - Len(undo) <= Len(l)
  BY <1>4, <1>8, <1>10, <1>12
<1>18. Kept(f, chain, Len(l), N)
  BY <1>10, <1>13
<1>19. Num(f.head) > 1 /\ Num(f.head) > Len(l) + 1 => ~f.headCut
  BY <1>10, <1>13, <1>15 DEF x
<1>20. f \in ForkDb /\ f.head = fdb.head
  BY <1>13
<1>21. LogChain(l) /\ Agrees(b, l)
  BY <1>10
<1> QED BY <1>11, <1>14, <1>16, <1>17, <1>18, <1>19, <1>20, <1>21 DEF l, f, H, lib, L, N

LEMMA ForkLog ==
    ASSUME Inv, ForkInv, Orderly, LogBlocks
    PROVE  ForkInv'
<1> DEFINE b == call.block
           N == Num(b)
           l == log \o ToLog
           f == SetMaxSize(fdb, HeadNum - chain.lib + 1, Held(call))
<1>1. /\ pc = "log" /\ log' = l /\ UNCHANGED <<blocks, chain, undo>> /\ NextBlock(f)
  BY DEF LogBlocks
<1>2. /\ LogChain(l) /\ Agrees(b, l) /\ Agrees(chain.head, l)
      /\ Len(l) \in Nat /\ Len(log) <= Len(l) /\ chain.lib <= Len(l)
      /\ call.mode = "switch" => Len(l) <= HeadNum
      /\ HeadNum - Len(undo) <= Len(l)
      /\ f \in ForkDb /\ Kept(f, chain, Len(l), N)
      /\ b \in f.index /\ f.head = fdb.head
      /\ Num(f.head) > 1 /\ Num(f.head) > Len(l) + 1 => ~f.headCut
  BY <1>1, Logged
<1> HIDE DEF l, f
<1>3. Midway(fdb, chain, log, call) /\ Putting(fdb, chain, log, call, 1)
  BY <1>1 DEF ForkInv, CallAt
<1>4. /\ call.at \in Nat /\ call.at >= 1 /\ call.at <= N /\ N \in Nat /\ Num(fdb.head) \in Nat
      /\ Num(fdb.head) <= N - call.at + 1
      /\ chain.head = Anc(b, N - call.at + 1)
  <2>1. call.at \in 1 .. N /\ Num(fdb.head) <= N - call.at + 1 /\ chain.head = Anc(b, N - call.at + 1)
    BY <1>3 DEF Putting
  <2> QED BY <2>1, CallTypes
<1>5. ASSUME NEW p \in {"idle", "apply"}
      PROVE  LogOK(chain, undo, l, p)
  BY <1>2 DEF LogOK, HeadNum
<1>6. CASE call.at > 1
  <2>1. pc' = "apply" /\ call' = [call EXCEPT !.at = @ - 1] /\ fdb' = f
    BY <1>1, <1>6 DEF NextBlock
  <2>2. call.mode = "switch" /\ Num(fdb.head) = Num(Fork(call)) + 1
    BY <1>3, <1>4, <1>6 DEF Putting
  <2>3. /\ call'.mode = "switch" /\ call'.block = b
        /\ call'.first = call.first /\ call'.second = call.second /\ call'.at = call.at - 1
    BY <2>1, <2>2, Parts DEF Call
  <2>4. Fork(call') = Fork(call)
    BY <2>3 DEF Fork
  <2>5. NewBranch(call') /\ fdb.head = Anc(b, Num(fdb.head)) /\ Num(fdb.head) <= N
    BY <1>3, <2>2, <2>3, <2>4 DEF Midway, NewBranch
  <2>6. Midway(f, chain, l, call')
    <3>1. Len(l) <= Num(chain.head)
      BY <1>2, <2>2 DEF HeadNum
    <3> QED BY <1>2, <2>3, <2>5, <3>1 DEF Midway
  <2>7. /\ call.at - 1 \in 1 .. N /\ N - (call.at - 1) + 0 = N - call.at + 1
        /\ Num(fdb.head) <= N - (call.at - 1) + 1
    <3> DEFINE a == call.at
               x == Num(fdb.head)
    <3>1. a \in Nat /\ a > 1 /\ a <= N /\ N \in Nat /\ x \in Nat /\ x <= N - a + 1
      BY <1>4, <1>6
    <3> HIDE DEF a, x, N
    <3>2. a - 1 \in 1 .. N /\ N - (a - 1) + 0 = N - a + 1 /\ x <= N - (a - 1) + 1
      BY <3>1
    <3> QED BY <3>2 DEF a, x
  <2>8. Putting(f, chain, l, call', 0)
    <3>1. chain.head = Anc(b, N - (call.at - 1) + 0)
      BY <1>4, <2>7
    <3> QED BY <1>2, <2>2, <2>3, <2>4, <2>7, <3>1 DEF Putting
  <2>9. CallAt(fdb', chain', log', pc', call')
    BY <1>1, <2>1, <2>6, <2>8 DEF CallAt
  <2> QED BY <1>1, <1>5, <2>1, <2>9, ForkAssemble
<1>7. CASE ~(call.at > 1)
  <2>1. pc' = "idle" /\ fdb' = Sweep(f, {})
    BY <1>1, <1>7 DEF NextBlock, Return
  <2>2. chain.head = b /\ b \in Block
    <3>1. N - call.at + 1 = N
      BY <1>4, <1>7
    <3>2. b \in Block
      BY <1>1, CurrentIs
    <3> QED BY <1>4, <3>1, <3>2, Parts, PrevFacts
  <2>3. Num(f.head) <= Num(chain.head)
    <3>1. N - call.at + 1 <= N
      BY <1>4
    <3> QED BY <1>2, <1>4, <2>2, <3>1
  <2>4. Kept(Sweep(f, {}), chain, Len(l), Num(chain.head)) /\ Sweep(f, {}).head = f.head
    BY <1>2, <2>2, Parts, SweepKeeps, SweepFacts
  <2>5. AtRest(Sweep(f, {}), chain, l)
    BY <2>2, <2>3, <2>4, Parts, NumFacts DEF AtRest
  <2>6. CallAt(fdb', chain', log', pc', call')
    BY <1>1, <2>1, <2>5 DEF CallAt
  <2> QED BY <1>1, <1>5, <2>1, <2>6, ForkAssemble
<1> QED BY <1>6, <1>7


\* A node that comes up on a state whose head is in the log.
LEMMA ForkStart ==
    ASSUME TreeInv, NEW f \in ForkDb, NEW c \in State, StateIn(blocks, c), c.head \in Block,
           NEW l \in Seq(Block), LogChain(l), Num(c.head) <= Len(l), l[Num(c.head)] = c.head
    PROVE  LogOK(c, << >>, l, "idle") /\ AtRest(StartBlock(f, c.head), c, l)
<1> DEFINE b == c.head
           e == [f EXCEPT !.index = {b}, !.head = b]
           g == StartBlock(f, b)
<1>1. Num(b) \in Nat /\ Num(b) \in 1 .. Len(l) /\ Len(l) \in Nat /\ b # NoBlock
  BY NumFacts
<1>2. c.lib \in Nat /\ c.lib <= Len(l)
  <2>1. c.lib \in Nat /\ c.lib <= Num(b)
    BY SameIn DEF State, StateIn
  <2> QED BY <1>1, <2>1
<1>3. LogOK(c, << >>, l, "idle")
  <2>1. Agrees(b, l)
    BY <1>1 DEF LogChain
  <2>2. Num(b) - Len(<< >>) <= Len(l)
    BY <1>1
  <2> QED BY <1>2, <2>1, <2>2 DEF LogOK
<1>4. e \in ForkDb /\ e.index = {b} /\ e.head = b
  BY DEF ForkDb
<1>5. g.index = {b} /\ g.head = b
  BY <1>4, SweepFacts DEF StartBlock
<1> HIDE DEF g
<1>6. Closed(g, Len(l))
  BY <1>1, <1>5 DEF Closed
<1>7. Kept(g, c, Len(l), Num(b)) /\ Num(g.head) <= Num(b)
  BY <1>1, <1>5, <1>6 DEF Kept
<1> QED BY <1>1, <1>3, <1>7 DEF AtRest, g

\* A node that comes up on the genesis state.
LEMMA ForkFresh ==
    ASSUME TreeInv, NEW f, Bare(f), NEW c, c.head = NoBlock, c.lib = 0,
           NEW l \in Seq(Block), LogChain(l)
    PROVE  LogOK(c, << >>, l, "idle") /\ AtRest(f, c, l)
<1>1. Num(c.head) = 0 /\ Len(l) \in Nat
  BY NumFacts
<1>2. Agrees(c.head, l)
  BY <1>1 DEF Agrees
<1>3. Num(c.head) - Len(<< >>) <= Len(l) /\ c.lib <= Len(l)
  BY <1>1
<1> QED BY <1>2, <1>3 DEF LogOK, AtRest

\* Of the blocks being logged any number is in the file after a crash.
LEMMA ForkCrash ==
    ASSUME Inv, ForkInv, Orderly, Crash
    PROVE  ForkInv'
<1>1. /\ pc' = "down" /\ fdb' = EmptyForkDb /\ blocks' = blocks
      /\ \/ log' = log
         \/ pc = "log" /\ \E k \in Found : log' = log \o SubSeq(ToLog, 1, k)
  BY DEF Crash
<1>2. LogChain(log)
  BY DEF ForkInv, LogOK
<1>3. LogChain(log')
  <2>1. CASE log' = log
    BY <1>2, <2>1
  <2>2. ASSUME pc = "log", NEW k \in Found, log' = log \o SubSeq(ToLog, 1, k)
        PROVE  LogChain(log')
    <3> DEFINE m == SubSeq(ToLog, 1, k)
               M == Len(ToLog)
               L == Len(log)
    <3>1. /\ ToLog \in Seq(Block) /\ M = (IF chain.lib > L THEN chain.lib - L ELSE 0)
          /\ DOMAIN ToLog = 1 .. M
          /\ \A i \in 1 .. M : ToLog[i] = Anc(chain.head, L + i)
      BY <2>2, ToLogIs
    <3>2. M \in Nat /\ k \in 1 .. M
      BY <3>1 DEF Found
    <3>3. m \in Seq(Block) /\ Len(m) = k /\ \A i \in 1 .. k : m[i] = ToLog[i]
      BY <3>1, <3>2
    <3>4. L \in Nat /\ Num(chain.head) \in Nat /\ chain.lib \in Nat /\ chain.lib <= Num(chain.head)
      BY Parts, CallTypes DEF HeadNum
    <3>5. L + k <= Num(chain.head)
      <4> DEFINE lib == chain.lib
                 H == Num(chain.head)
      <4>1. L \in Nat /\ H \in Nat /\ lib \in Nat /\ lib <= H /\ k \in 1 .. M
            /\ M = (IF lib > L THEN lib - L ELSE 0)
        BY <3>1, <3>2, <3>4
      <4> HIDE DEF L, M, H, lib
      <4>2. L + k <= H
        BY <4>1
      <4> QED BY <4>2 DEF H
    <3>6. \A i \in 1 .. Len(m) : m[i] = Anc(chain.head, L + i)
      BY <3>1, <3>2, <3>3
    <3>7. Agrees(chain.head, log)
      BY <2>2 DEF ForkInv, LogOK
    <3> HIDE DEF m
    <3>8. LogChain(log \o m)
      BY <1>2, <3>3, <3>5, <3>6, <3>7, Parts, LogGrows
    <3> QED BY <2>2, <3>8 DEF m
  <2> QED BY <1>1, <2>1, <2>2
<1>4. LogOK(chain', undo', log', pc')
  BY <1>1, <1>3 DEF LogOK
<1>5. CallAt(fdb', chain', log', pc', call')
  BY <1>1 DEF CallAt, Bare, EmptyForkDb
<1> QED BY <1>1, <1>4, <1>5, ForkAssemble

LEMMA ForkOpen ==
    ASSUME Inv, ForkInv, Open
    PROVE  ForkInv'
<1>1. /\ pc = "down" /\ StateMatchesLog /\ chain' = Rewound /\ undo' = << >> /\ pc' = "idle"
      /\ fdb' = IF Rewound.head = NoBlock THEN fdb ELSE StartBlock(fdb, Rewound.head)
      /\ UNCHANGED <<blocks, log>>
  BY DEF Open
<1>2. LogChain(log) /\ Bare(fdb)
  BY <1>1 DEF ForkInv, CallAt, LogOK
<1>3. Rewound \in State /\ StateIn(blocks, Rewound) /\ Rewound.head \in Block \cup {NoBlock}
  BY RewoundType
<1>4. LogOK(chain', undo', log', pc') /\ AtRest(fdb', chain', log')
  <2>1. CASE Rewound.head = NoBlock
    <3>1. Rewound.lib = 0
      <4>1. Rewound.lib \in Nat /\ Rewound.lib <= Num(NoBlock)
        BY <1>3, <2>1, SameIn DEF StateIn, State
      <4> QED BY <4>1, Parts, NumFacts
    <3> QED BY <1>1, <1>2, <2>1, <3>1, Parts, ForkFresh
  <2>2. CASE Rewound.head # NoBlock
    <3>1. Num(Rewound.head) <= Len(log) /\ log[Num(Rewound.head)] = Rewound.head
      BY <1>1, <2>2 DEF StateMatchesLog
    <3>2. LogOK(Rewound, << >>, log, "idle") /\ AtRest(StartBlock(fdb, Rewound.head), Rewound, log)
      BY <1>2, <1>3, <2>2, <3>1, Parts, ForkStart
    <3> QED BY <1>1, <2>2, <3>2
  <2> QED BY <2>1, <2>2
<1>5. CallAt(fdb', chain', log', pc', call')
  BY <1>1, <1>4 DEF CallAt
<1> QED BY <1>1, <1>4, <1>5, ForkAssemble

LEMMA ForkReindex ==
    ASSUME Inv, ForkInv, Reindex
    PROVE  ForkInv'
<1>1. /\ pc = "down" /\ chain' = Genesis /\ undo' = << >>
      /\ pc' = IF log = << >> THEN "idle" ELSE "replay"
      /\ UNCHANGED <<blocks, fdb, log>>
  BY DEF Reindex
<1>2. LogChain(log) /\ Bare(fdb)
  BY <1>1 DEF ForkInv, CallAt, LogOK
<1>3. Genesis.head = NoBlock /\ Genesis.lib = 0
  BY DEF Genesis
<1>4. LogOK(Genesis, << >>, log, "idle") /\ AtRest(fdb, Genesis, log)
  BY <1>2, <1>3, Parts, ForkFresh
<1>5. LogOK(chain', undo', log', pc')
  BY <1>1, <1>3, <1>4 DEF LogOK
<1>6. CallAt(fdb', chain', log', pc', call')
  BY <1>1, <1>2, <1>4 DEF CallAt
<1> QED BY <1>1, <1>5, <1>6, ForkAssemble

LEMMA ForkReplay ==
    ASSUME Inv, ForkInv, Replay
    PROVE  ForkInv'
<1> DEFINE b == log[HeadNum + 1]
           s == Num(b) - Post(chain, b).lib + 1
<1>1. /\ pc = "replay" /\ HeadNum < Len(log) /\ UNCHANGED <<blocks, undo, log>>
      /\ \/ /\ Prev(b) = chain.head /\ chain' = Post(chain, b)
            /\ fdb' = SetMaxSize(fdb, s, {}) /\ pc' = pc
         \/ pc' = "halted"
  BY DEF Replay, Applies
<1>2. LogChain(log) /\ Bare(fdb)
  BY <1>1 DEF ForkInv, CallAt, LogOK
<1>3. HeadNum + 1 \in 1 .. Len(log) /\ b \in Block /\ Num(b) = HeadNum + 1
  <2>1. HeadNum \in Nat /\ log \in Seq(Block) /\ Len(log) \in Nat
    BY Parts
  <2>2. HeadNum + 1 \in 1 .. Len(log)
    BY <1>1, <2>1
  <2> QED BY <1>2, <2>1, <2>2 DEF LogChain
<1>4. CASE /\ Prev(b) = chain.head /\ chain' = Post(chain, b)
           /\ fdb' = SetMaxSize(fdb, s, {}) /\ pc' = pc
  <2>1. chain'.head = b
    BY <1>3, <1>4, Parts, PostKeeps
  <2>2. b = log[Num(b)] /\ Num(b) <= Len(log)
    BY <1>3
  <2>3. Bare(fdb')
    BY <1>2, <1>4, Parts DEF Bare, SetMaxSize, ForkDb
  <2>4. LogOK(chain', undo', log', pc')
    BY <1>1, <1>2, <1>4, <2>1, <2>2 DEF LogOK
  <2>5. CallAt(fdb', chain', log', pc', call')
    BY <1>1, <1>4, <2>3 DEF CallAt
  <2> QED BY <1>1, <2>4, <2>5, ForkAssemble
<1>5. CASE pc' = "halted"
  <2>1. LogOK(chain', undo', log', pc')
    BY <1>1, <1>2, <1>5 DEF LogOK
  <2>2. CallAt(fdb', chain', log', pc', call')
    BY <1>5 DEF CallAt
  <2> QED BY <1>1, <2>1, <2>2, ForkAssemble
<1> QED BY <1>1, <1>4, <1>5

LEMMA ForkReplayDone ==
    ASSUME Inv, ForkInv, ReplayDone
    PROVE  ForkInv'
<1>1. /\ pc = "replay" /\ HeadNum = Len(log) /\ fdb' = StartBlock(fdb, Last(log)) /\ pc' = "idle"
      /\ UNCHANGED <<blocks, chain, undo, log>>
  BY DEF ReplayDone
<1>2. log # << >> /\ undo = << >> /\ log \in Seq(Block)
  BY <1>1, Parts DEF CallOK
<1>3. chain.head # NoBlock
  <2>1. Len(log) # 0
    BY <1>2
  <2> QED BY <1>1, <2>1, Parts, NumFacts DEF HeadNum
<1>4. /\ LogChain(log) /\ Num(chain.head) <= Len(log) /\ log[Num(chain.head)] = chain.head
      /\ Last(log) = chain.head
  BY <1>1, <1>3 DEF ForkInv, LogOK, Last, HeadNum
<1>5. LogOK(chain, << >>, log, "idle") /\ AtRest(StartBlock(fdb, chain.head), chain, log)
  BY <1>2, <1>3, <1>4, Parts, ForkStart
<1>6. CallAt(fdb', chain', log', pc', call')
  BY <1>1, <1>4, <1>5 DEF CallAt
<1> QED BY <1>1, <1>2, <1>5, <1>6, ForkAssemble

LEMMA ForkNext ==
    Inv /\ ForkInv /\ Orderly /\ [Next]_vars => ForkInv'
<1> SUFFICES ASSUME Inv, ForkInv, Orderly, [Next]_vars
             PROVE  ForkInv'
  OBVIOUS
<1>1. ASSUME NEW p \in 0 .. Len(blocks), NEW w \in Producer, NEW f \in Fault, Produce(p, w, f)
      PROVE  ForkInv'
  BY <1>1, ForkSign DEF Produce
<1>2. ASSUME NEW p \in 0 .. Len(blocks), NEW w \in Producer, NEW f \in Fault, DeliverNew(p, w, f)
      PROVE  ForkInv'
  <2>1. Sign(p, w, f) /\ pc = "idle" /\ pc' = "push" /\ UNCHANGED <<fdb, chain, undo, log>>
        /\ call' = [NoCall EXCEPT !.block = Len(blocks) + 1, !.entry = chain.head]
    BY <1>2 DEF DeliverNew, Deliver
  <2>2. call'.entry = chain.head
    BY <2>1 DEF NoCall
  <2> QED BY <2>1, <2>2, ForkSign
<1>3. ASSUME NEW b \in Block, DeliverKnown(b)
      PROVE  ForkInv'
  BY <1>3, ForkDeliver
<1>4. CASE Step
  BY <1>4, ForkPush, ForkPop, ForkPopDone, ForkApply, NoReject, ForkLog,
     ForkOpen, ForkReindex, ForkReplay, ForkReplayDone DEF Step
<1>5. CASE Crash
  BY <1>5, ForkCrash
<1>6. CASE UNCHANGED vars
  <2>1. blocks' = blocks /\ UNCHANGED <<fdb, chain, undo, log, pc, call>>
    BY <1>6 DEF vars
  <2>2. LogOK(chain', undo', log', pc') /\ CallAt(fdb', chain', log', pc', call')
    BY <2>1 DEF ForkInv
  <2> QED BY <2>1, <2>2, ForkAssemble
<1> QED BY <1>1, <1>2, <1>3, <1>4, <1>5, <1>6 DEF Next


\* As long as behaviour is orderly, the fork database, the block log and the call
\* in progress fit the chain: stale forks, blocks out of order, switches and
\* crashes included.
THEOREM ForkSafety ==
    Spec /\ []Orderly => []ForkInv
  BY Safety, ForkInit, ForkNext, PTL DEF Spec

\* The block log is one chain, and after each push_block() it holds the
\* irreversible blocks.
THEOREM IrreversibleDurable ==
    Spec /\ []Orderly => []IrreversibleIsDurable
<1>1. ASSUME Inv, ForkInv
      PROVE  IrreversibleIsDurable
  <2>1. LogOK(chain, undo, log, pc) /\ LogChain(log) /\ log \in Seq(Block) /\ TreeInv /\ Len(log) \in Nat
    BY <1>1, Parts, CallTypes DEF ForkInv, LogOK
  <2>2. ASSUME NEW n \in 1 .. Len(log)
        PROVE  Path(log[n]) = SubSeq(log, 1, n)
    <3> DEFINE s == Path(log[n])
               t == SubSeq(log, 1, n)
    <3>1. log[n] \in Block /\ log[n] # NoBlock
      BY <2>1, NumFacts
    <3>2. s \in Seq(Nat) /\ Len(s) = n
      BY <2>1, <3>1, PathType DEF LogChain, Num
    <3>3. t \in Seq(Block) /\ Len(t) = n /\ \A m \in 1 .. n : t[m] = log[m]
      BY <2>1
    <3>4. \A m \in 1 .. n : s[m] = log[m]
      <4> SUFFICES ASSUME NEW m \in 1 .. n
                   PROVE  s[m] = log[m]
        OBVIOUS
      <4>1. m \in 1 .. Len(log) /\ m <= Num(log[n]) /\ m # 0
        BY <2>1 DEF LogChain
      <4>2. Anc(log[n], m) = log[m]
        BY <2>1, <4>1 DEF LogChain, Agrees
      <4> QED BY <4>1, <4>2 DEF Anc
    <3> HIDE DEF s, t
    <3>5. s = t
      BY <3>2, <3>3, <3>4, SeqEqual
    <3> QED BY <3>5 DEF s, t
  <2>3. ASSUME pc = "idle"
        PROVE  IsPrefix(SubSeq(Path(chain.head), 1, chain.lib), log)
    <3> DEFINE s == Path(chain.head)
    <3>1. Agrees(chain.head, log) /\ chain.lib <= Len(log)
      BY <2>1, <2>3 DEF LogOK
    <3>2. s \in Seq(Nat) /\ chain.lib \in Nat /\ chain.lib <= Len(s) /\ Num(chain.head) = Len(s) /\ Len(s) \in Nat
      BY <1>1, <2>1, Parts, PathType DEF HeadNum, Num
    <3>3. chain.lib \in 0 .. Len(s)
      BY <3>2
    <3>4. log \in Seq(Nat)
      BY <2>1 DEF Block
    <3>5. ASSUME NEW i \in 1 .. chain.lib
          PROVE  s[i] = log[i]
      <4>1. i \in 1 .. Len(log) /\ i <= Num(chain.head) /\ i # 0
        BY <2>1, <3>1, <3>2
      <4>2. Anc(chain.head, i) = log[i]
        BY <3>1, <4>1 DEF Agrees
      <4> QED BY <4>1, <4>2 DEF Anc
    <3> HIDE DEF s
    <3>6. IsPrefix(SubSeq(s, 1, chain.lib), log)
      BY <3>1, <3>2, <3>3, <3>4, <3>5, PrefixOf
    <3> QED BY <3>6 DEF s
  <2> QED BY <2>2, <2>3 DEF IrreversibleIsDurable
<1> QED BY <1>1, Safety, ForkSafety, PTL

\* A node that goes down between two calls of push_block() comes up without a
\* reindex.
THEOREM RestartStaysConsistent ==
    Spec /\ []Orderly => []RestartConsistent
<1>1. ASSUME Inv, ForkInv
      PROVE  RestartConsistent
  <2> DEFINE H == HeadNum
             U == Len(undo)
             r == Rewound.head
  <2> SUFFICES ASSUME pc = "idle"
               PROVE  RewoundRev = Num(r) /\ StateMatchesLog
    BY DEF RestartConsistent
  <2>1. Agrees(chain.head, log) /\ H - U <= Len(log)
    BY <1>1 DEF ForkInv, LogOK, HeadNum
  <2>2. /\ TreeInv /\ chain.head \in Block \cup {NoBlock} /\ rev = H /\ H \in Nat /\ U \in Nat
        /\ Len(log) \in Nat
    BY <1>1, Parts, CallTypes DEF Running
  <2>3. r = Anc(chain.head, H - U) /\ H - U \in 0 .. H
    <3>1. CASE undo = << >>
      <4>1. U = 0 /\ r = chain.head /\ H - U = H
        BY <2>2, <3>1 DEF Rewound
      <4>2. Anc(chain.head, H) = chain.head
        <5>1. CASE chain.head = NoBlock
          BY <2>2, <5>1, NumFacts DEF Anc, HeadNum
        <5>2. CASE chain.head \in Block
          BY <2>2, <5>2, PrevFacts DEF HeadNum
        <5> QED BY <2>2, <5>1, <5>2
      <4> QED BY <2>2, <4>1, <4>2
    <3>2. CASE undo # << >>
      <4>1. r = Anc(chain.head, H - U) /\ H - U \in chain.lib .. H /\ chain.lib \in Nat
        BY <1>1, <3>2, RewoundType, Parts
      <4> QED BY <2>2, <4>1
    <3> QED BY <3>1, <3>2
  <2> HIDE DEF r
  <2>4. Num(r) = H - U
    BY <2>2, <2>3, AncFacts DEF HeadNum
  <2>5. RewoundRev = Num(r)
    BY <2>2, <2>4 DEF RewoundRev
  <2>6. ASSUME r # NoBlock
        PROVE  Num(r) <= Len(log) /\ log[Num(r)] = r
    <3>1. Num(r) # 0
      BY <2>2, <2>3, <2>6, <2>4 DEF Anc
    <3>2. H - U \in 1 .. Len(log) /\ H - U <= Num(chain.head)
      BY <2>1, <2>2, <2>3, <2>4, <3>1 DEF HeadNum
    <3>3. Anc(chain.head, H - U) = log[H - U]
      BY <2>1, <3>2 DEF Agrees
    <3> QED BY <2>1, <2>3, <2>4, <3>3
  <2> QED BY <2>5, <2>6 DEF StateMatchesLog, r
<1> QED BY <1>1, Safety, ForkSafety, PTL
=============================================================================
