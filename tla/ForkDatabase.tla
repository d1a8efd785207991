---------------------------- MODULE ForkDatabase ----------------------------
(***************************************************************************)
(* chain::fork_database: the recent blocks of every fork, and a head.      *)
(*                                                                         *)
(* An item holds its predecessor by a weak pointer.  An item lives while   *)
(* the index, the head, or a branch in the hands of a caller (held) keeps  *)
(* it; expired is the set of items of the index and of held whose weak     *)
(* pointer is empty.  The head may be an item the index does not have, and *)
(* headCut says whether its own weak pointer is empty.                     *)
(* _unlinked_index stays empty: the insert into it follows a throw.        *)
(***************************************************************************)
EXTENDS BlockTree, Integers, FiniteSets

CONSTANT DefaultMaxSize     \* the initial _max_size

ASSUME ForkDbAssumption == DefaultMaxSize \in Nat

ForkDb == [index : SUBSET Block, head : Block \cup {NoBlock},
           headCut : BOOLEAN, expired : SUBSET Block, maxSize : Nat]

EmptyForkDb == [index |-> {}, head |-> NoBlock, headCut |-> TRUE,
                expired |-> {}, maxSize |-> DefaultMaxSize]

\* The weak pointers after items have come and gone.  An empty one stays empty.
Sweep(f, held) ==
    LET alive == f.index \cup held \cup {f.head}
        Cut(b) == Prev(b) = NoBlock \/ Prev(b) \notin alive
    IN  [f EXCEPT !.expired = {b \in f.index \cup held : b \in f.expired \/ Cut(b)},
                  !.headCut = f.head = NoBlock \/ f.headCut \/ Cut(f.head)]

\* The head becomes an item of the index or of held.
WithHead(f, b) == [f EXCEPT !.head = b, !.headCut = b \in f.expired]

\* start_block(), on a fork database that was reset.
StartBlock(f, b) == Sweep([f EXCEPT !.index = {b}, !.head = b], {})

\* Block numbers start at 1: the 0 that the code compares with is no bound.
TooOld(f, b) == f.head # NoBlock /\ Num(b) <= Num(f.head) - f.maxSize

Links(f, b) ==
    f.head = NoBlock \/ Prev(b) = NoBlock \/ Prev(b) \in f.index

CanPush(f, b) == ~TooOld(f, b) /\ Links(f, b)

\* _push_block(): a new item for b.  The index refuses it when it has the id,
\* the head does not; no older item points to it.
PushItem(f, b) ==
    LET fresh == b \notin f.index
        wins  == f.head = NoBlock \/ Num(b) > Num(f.head)
        g == [f EXCEPT
                !.index   = @ \cup {b},
                !.expired = IF fresh THEN (@ \ {b}) \cup {c \in f.index : Prev(c) = b} ELSE @,
                !.head    = IF wins THEN b ELSE @,
                !.headCut = ~wins /\ @]
    IN  Sweep(g, {})

\* pop_block(): asserts that there is a head and a living predecessor.
CanPop(f) == f.head # NoBlock /\ ~f.headCut
PopHead(f, held) == Sweep(WithHead(f, Prev(f.head)), held)

\* remove(): the index forgets the blocks, the head does not.
RemoveAll(f, bs, held) == Sweep([f EXCEPT !.index = @ \ bs], held)

SetHead(f, b, held) == Sweep(WithHead(f, b), held)

\* set_max_size(): forgets the blocks more than s below the head.
SetMaxSize(f, s, held) ==
    IF f.head = NoBlock
    THEN [f EXCEPT !.maxSize = s]
    ELSE Sweep([f EXCEPT !.maxSize = s,
                         !.index = {b \in @ : Num(b) >= Num(f.head) - s}], held)

\* The numbers of the blocks fetch_branch_from() collects on the way down
\* from a: until a block has the predecessor of the one it stands beside.
Apart(a, b) ==
    {n \in 1 .. Num(a) : n >= Num(a) \/ n >= Num(b) \/ Anc(a, n) # Anc(b, n)}

\* The branch of a that b is not on, a first.
Branch(a, b) == [i \in 1 .. Cardinality(Apart(a, b)) |-> Anc(a, Num(a) + 1 - i)]

\* fetch_branch_from() throws when a tip is not in the index, or when a weak
\* pointer on the way is empty.
CanFetchBranches(f, a, b) ==
    /\ a \in f.index /\ b \in f.index
    /\ \A i \in 1 .. Len(Branch(a, b)) - 1 : Branch(a, b)[i] \notin f.expired
    /\ \A i \in 1 .. Len(Branch(b, a)) - 1 : Branch(b, a)[i] \notin f.expired

\* fetch_block_on_main_branch_by_number(): a number that only one block has is
\* not looked up along the main branch.
FetchOnMainBranch(f, n) ==
    LET same == {b \in f.index : Num(b) = n}
        lost == n < Num(f.head) /\
                (f.headCut \/ \E m \in n + 1 .. Num(f.head) - 1 : Anc(f.head, m) \in f.expired)
    IN  IF Cardinality(same) = 1 THEN CHOOSE b \in same : TRUE
        ELSE IF same = {} \/ n > Num(f.head) \/ lost THEN NoBlock
        ELSE Anc(f.head, n)
=============================================================================
