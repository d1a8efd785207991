------------------------------ MODULE BlockLog ------------------------------
(***************************************************************************)
(* chain::block_log: the file of blocks, the file of their positions, and  *)
(* how open() brings the two together after a crash.                       *)
(*                                                                         *)
(* A file is a sequence of cells: a serialised block, an 8 byte position,  *)
(* or the torn beginning of either at its end.  A position counts cells.   *)
(* What was written through a stream is in its buffer until the stream is  *)
(* flushed or closed, and a process that dies leaves any part of it in the *)
(* file.  A block is its number: the chain database appends them in order. *)
(***************************************************************************)
EXTENDS Integers, FiniteSets, Sequences, SequencesExt

CONSTANTS
    StartBlocks,    \* the blocks in the log when the node is first started
    MaxBlocks,      \* bound on the blocks in the log
    MaxCrashes,     \* bound on crashes
    TornTails       \* whether a crash may cut a cell in two

ASSUME LogAssumption ==
    /\ StartBlocks \in Nat /\ MaxBlocks \in Nat /\ MaxCrashes \in Nat
    /\ TornTails \in BOOLEAN

VARIABLES
    blockFile, indexFile,   \* what is in the files
    blockBuf, indexBuf,     \* what the streams hold back
    blockWrite, indexWrite, \* block_write, index_write: the mode of a stream
    head,                   \* number of the cached head block, 0 for none
    status,                 \* "open", "down" or "failed": open() threw
    got,                    \* what the last read returned: 0 for none, -1 for a throw
    asked,                  \* and what it was asked for
    flushed,                \* history: the blocks a flush has completed for
    crashes                 \* counts crashes

files == <<blockFile, indexFile, blockBuf, indexBuf, blockWrite, indexWrite>>
reads == <<got, asked>>
vars == <<files, head, status, reads, flushed, crashes>>

Data(n) == [kind |-> "block", val |-> n]
Pos(p)  == [kind |-> "pos", val |-> p]
Torn    == [kind |-> "torn", val |-> 0]
Cell    == [kind : {"block", "pos", "torn"}, val : Nat]

PosOf(n) == 2 * (n - 1)

\* Both files as they are when no write was interrupted.
WholeLog(k) == [i \in 1 .. 2 * k |-> IF i % 2 = 1 THEN Data((i + 1) \div 2) ELSE Pos(i - 2)]
WholeIndex(k) == [i \in 1 .. k |-> Pos(PosOf(i))]

Init ==
    /\ blockFile = WholeLog(StartBlocks) /\ indexFile = WholeIndex(StartBlocks)
    /\ blockBuf = << >> /\ indexBuf = << >>
    /\ blockWrite = FALSE /\ indexWrite = FALSE
    /\ head = 0
    /\ status = "down"
    /\ got = 0 /\ asked = 0
    /\ flushed = StartBlocks
    /\ crashes = 0

-----------------------------------------------------------------------------
(* open() and construct_index().                                           *)

\* The blocks the loop of construct_index() comes by: it stops at the block
\* whose position the file ends with, and looks before it reads.
Scanned(end) == IF 0 < end THEN end \div 2 + 1 ELSE 0

ConstructIndex ==
    /\ indexFile' = << >>
    /\ indexBuf' = WholeIndex(Scanned(Last(blockFile).val))
    /\ indexWrite' = TRUE

\* The last 8 bytes of the block file are a position, and the last 8 of the
\* index file can be read.
Readable == /\ Last(blockFile).kind = "pos"
            /\ ~(Len(indexFile) = 1 /\ Last(indexFile).kind = "torn")

\* Mutant: any index that is not empty will do.
IndexUpToDateUnchecked == indexFile # << >>

\* What a torn index ends with is no position of the block file.
IndexUpToDate == indexFile # << >> /\ Last(indexFile) = Last(blockFile)

Open ==
    /\ status = "down"
    /\ UNCHANGED <<blockFile, blockBuf, reads, flushed, crashes>>
    /\ \/ /\ blockFile = << >>
          /\ status' = "open" /\ head' = 0
          /\ indexFile' = << >> /\ UNCHANGED indexBuf
          /\ blockWrite' = TRUE /\ indexWrite' = TRUE
       \/ /\ blockFile # << >> /\ ~Readable
          /\ status' = "failed"
          /\ UNCHANGED <<head, indexFile, indexBuf, blockWrite, indexWrite>>
       \/ /\ blockFile # << >> /\ Readable
          /\ status' = "open"
          /\ head' = blockFile[Last(blockFile).val + 1].val
          /\ blockWrite' = FALSE
          /\ IF IndexUpToDate
             THEN indexWrite' = FALSE /\ UNCHANGED <<indexFile, indexBuf>>
             ELSE ConstructIndex

-----------------------------------------------------------------------------
(* append(), flush() and the reads.                                        *)

BlockEnd == Len(blockFile) + Len(blockBuf)
IndexEnd == Len(indexFile) + Len(indexBuf)

\* append( head + 1 ): reopens the streams for writing; asserts on the end of
\* the index before it writes anything.
AppendBlock ==
    /\ status = "open"
    /\ head < MaxBlocks
    /\ blockWrite' = TRUE /\ indexWrite' = TRUE
    /\ IF IndexEnd = head
       THEN /\ blockBuf' = blockBuf \o <<Data(head + 1), Pos(BlockEnd)>>
            /\ indexBuf' = Append(indexBuf, Pos(BlockEnd))
            /\ head' = head + 1
       ELSE UNCHANGED <<blockBuf, indexBuf, head>>
    /\ UNCHANGED <<blockFile, indexFile, status, reads, flushed, crashes>>

FlushBlocks == blockFile' = blockFile \o blockBuf /\ blockBuf' = << >>
FlushIndex  == indexFile' = indexFile \o indexBuf /\ indexBuf' = << >>

\* Mutant: only the index reaches its file.
FlushIndexOnly ==
    /\ status = "open"
    /\ FlushIndex
    /\ flushed' = head
    /\ UNCHANGED <<blockFile, blockBuf, blockWrite, indexWrite, head, status, reads, crashes>>

\* flush()
Flush ==
    /\ status = "open"
    /\ FlushBlocks /\ FlushIndex
    /\ flushed' = head
    /\ UNCHANGED <<blockWrite, indexWrite, head, status, reads, crashes>>

\* Mutant: takes the entry after the block's.
EntryNext(n) == n + 1

\* Where get_block_pos() seeks to in the index.
Entry(n) == n

\* read_block_by_num(): get_block_pos() reopens the index for reading and asks
\* the cached head; read_block() reopens the block file.  Closing a stream
\* writes its buffer out.
ReadBlock(n) ==
    LET index == indexFile \o indexBuf
        log   == blockFile \o blockBuf
        known == n \in 1 .. head
        inIndex == Entry(n) <= Len(index)
        pos   == index[Entry(n)].val
    IN  /\ status = "open"
        /\ asked' = n
        /\ FlushIndex /\ indexWrite' = FALSE
        /\ IF known /\ inIndex
           THEN FlushBlocks /\ blockWrite' = FALSE
           ELSE UNCHANGED <<blockFile, blockBuf, blockWrite>>
        /\ got' = IF ~known THEN 0
                  ELSE IF inIndex /\ log[pos + 1] = Data(n) THEN n ELSE -1
        /\ UNCHANGED <<head, status, flushed, crashes>>

-----------------------------------------------------------------------------
\* What a file may hold when its process died: a part of the buffer, the last
\* cell of it possibly cut.
Left(file, buf) ==
    {file \o SubSeq(buf, 1, k) : k \in 0 .. Len(buf)}
    \cup {Append(file \o SubSeq(buf, 1, k), Torn) :
             k \in IF TornTails THEN 0 .. Len(buf) - 1 ELSE {}}

\* Without torn cells a block and its position are written together.
Whole(file) == TornTails \/ file = << >> \/ Last(file).kind = "pos"

Crash ==
    /\ status = "open"
    /\ crashes < MaxCrashes
    /\ crashes' = crashes + 1
    /\ status' = "down"
    /\ blockFile' \in {f \in Left(blockFile, blockBuf) : Whole(f)}
    /\ indexFile' \in Left(indexFile, indexBuf)
    /\ blockBuf' = << >> /\ indexBuf' = << >>
    /\ blockWrite' = FALSE /\ indexWrite' = FALSE
    /\ head' = 0
    /\ UNCHANGED <<reads, flushed>>

Next ==
    \/ Open \/ AppendBlock \/ Flush \/ Crash
    \/ \E n \in 1 .. MaxBlocks : ReadBlock(n)

Spec == Init /\ [][Next]_vars

-----------------------------------------------------------------------------
\* The variables have their types.
TypeOK ==
    /\ blockFile \in Seq(Cell) /\ indexFile \in Seq(Cell)
    /\ blockBuf \in Seq(Cell) /\ indexBuf \in Seq(Cell)
    /\ blockWrite \in BOOLEAN /\ indexWrite \in BOOLEAN
    /\ head \in Nat /\ got \in Int /\ asked \in Nat
    /\ status \in {"open", "down", "failed"}
    /\ flushed \in Nat /\ crashes \in Nat

\* The index can be reconstructed: whatever a crash left of it, in an open log
\* it lists the position of every block.
IndexMirrorsLog == status = "open" => indexFile \o indexBuf = WholeIndex(head)

\* A read by number gives the block with that number for every block up to the
\* head, however often the streams changed their mode before it.
ReadsFind ==
    [][\A n \in 1 .. head : ReadBlock(n) => got' = n]_vars

\* The blocks in the log, as the chain database thinks of them.
Complete == Cardinality({i \in DOMAIN blockFile : blockFile[i].kind = "pos"})
Log == INSTANCE AppendLog WITH count  <- IF status = "open" THEN head ELSE Complete,
                               synced <- flushed

\* The two files implement a log that a crash cuts back to what was flushed or
\* later.
LogSpec == Log!Spec
=============================================================================
