----------------------------- MODULE BlockTree -----------------------------
(***************************************************************************)
(* The signed blocks that exist.  A block is named by its position in      *)
(* blocks; 0 is the null id, the predecessor of block number 1.  A block   *)
(* names its predecessor, so what it says of the chain below it never      *)
(* changes: path lists the block ids from number 1 up to the block.        *)
(*                                                                         *)
(* What a block contains is abstracted to its producer and to how applying *)
(* it ends: "ok", "early" when a check before update_last_irreversible_-   *)
(* block() throws (merkle root, signature, schedule, size, a transaction), *)
(* "late" when something after it throws.                                  *)
(***************************************************************************)
EXTENDS Naturals, Sequences

CONSTANTS
    Producer,       \* the scheduled bobservers
    Fault,          \* the outcomes explored, a subset of {"ok", "early", "late"}
    MaxBlocks,      \* bound on the number of blocks
    SharedPrefix    \* no two blocks up to this number compete

ASSUME TreeAssumption ==
    /\ MaxBlocks \in Nat /\ SharedPrefix \in Nat
    /\ Fault \subseteq {"ok", "early", "late"}

VARIABLE blocks

NoBlock == 0
Block == 1 .. Len(blocks)

Prev(b) == blocks[b].prev
Path(b) == IF b = NoBlock THEN << >> ELSE blocks[b].path

\* block_header::num_from_id
Num(b) == Len(Path(b))

\* The block with number n on the way to b.
Anc(b, n) == IF n = 0 THEN NoBlock ELSE Path(b)[n]

\* Some producer signs a block on top of p.
Sign(p, w, f) ==
    /\ Len(blocks) < MaxBlocks
    /\ \/ Len(blocks) < SharedPrefix /\ p = Len(blocks)
       \/ Len(blocks) >= SharedPrefix /\ p \in SharedPrefix .. Len(blocks)
    /\ blocks' = Append(blocks, [prev |-> p, producer |-> w, fault |-> f,
                                 path |-> Append(Path(p), Len(blocks) + 1)])

\* The tree is well formed: a block comes after its predecessor and repeats
\* its path.
TreeOK ==
    \A b \in Block :
        /\ Prev(b) \in 0 .. b - 1
        /\ Path(b) = Append(Path(Prev(b)), b)
        /\ blocks[b].producer \in Producer
        /\ blocks[b].fault \in Fault
=============================================================================
