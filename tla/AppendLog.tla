----------------------------- MODULE AppendLog -----------------------------
(***************************************************************************)
(* What the block log promises to the chain database: blocks are numbered  *)
(* from 1 as they are appended, and a restart finds the blocks up to some  *)
(* number, none that was flushed missing.                                  *)
(***************************************************************************)
EXTENDS Naturals

VARIABLES
    count,      \* the blocks in the log
    synced      \* how many of them a restart will find

vars == <<count, synced>>

Init == synced = count

Append == count' = count + 1 /\ UNCHANGED synced

Flush == synced' = count /\ UNCHANGED count

\* The process ends: of the blocks not flushed any number may be left.
Lose == count' \in synced .. count /\ UNCHANGED synced

Next == Append \/ Flush \/ Lose

Spec == Init /\ [][Next]_vars
=============================================================================
