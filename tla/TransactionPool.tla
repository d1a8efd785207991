--------------------------- MODULE TransactionPool ---------------------------
(***************************************************************************)
(* The pending transactions of chain::database: push_transaction(), what   *)
(* the restorer of db_with.hpp does around push_block(), generate_block()  *)
(* and the producer's loop around it.                                      *)
(*                                                                         *)
(* All of it runs on one thread under the write lock, so one call is one   *)
(* action; the producer's retry is a step of its own.  What a transaction  *)
(* does is abstracted to the transactions it needs and the coin it spends  *)
(* (its TaPoS block is one more thing it needs).  push_block() is what     *)
(* ChainDatabase shows it to be: it applies a block, switches to a longer  *)
(* branch, or leaves the chain as it was.                                  *)
(***************************************************************************)
EXTENDS Naturals, Sequences, SequencesExt, FiniteSets

CONSTANTS
    Tx,                 \* transactions
    Expiration, Size,   \* [Tx -> Nat]
    Needs,              \* [Tx -> SUBSET Tx]: what must have been applied before
    Spends,             \* [Tx -> coins]: two that spend one coin conflict
    MaxTimeUntilExpiration,
    MaxBlockSize,       \* maximum_block_size, and SIGMAENGINE_MAX_BLOCK_SIZE
    HeaderEstimate,     \* max_block_header_size in generate_block()
    HeaderSize,         \* the real one, with the name and the extensions
    SizeMargin,         \* what push_transaction() leaves for the header
    LastTime,           \* bound on time
    MaxChain,           \* bound on the blocks of the chain
    MaxPop,             \* bound on the blocks a switch takes back
    MaxForeign          \* bound on the transactions of a block of others

\* A block without transactions is within the size.
PoolConstants ==
    /\ Expiration \in [Tx -> Nat] /\ Size \in [Tx -> Nat]
    /\ Needs \in [Tx -> SUBSET Tx] /\ DOMAIN Spends = Tx
    /\ {MaxTimeUntilExpiration, MaxBlockSize, HeaderEstimate, HeaderSize, SizeMargin} \subseteq Nat
    /\ HeaderSize <= MaxBlockSize
    /\ {LastTime, MaxChain, MaxPop, MaxForeign} \subseteq Nat

ASSUME PoolAssumption == PoolConstants

VARIABLES
    chain,      \* the blocks of the chain, as ChainDatabase applies them
    states,     \* the state, and below it what its undo sessions restore
    pending,    \* _pending_tx
    session,    \* _pending_tx_session: << >>, or << the state in it >>
    attempt,    \* retry of the producer's loop, and 0 outside
    slot,       \* the time it produces for, and 0 outside
    failed      \* how generate_block() threw: "no", "size" or "rejected"

producer == <<attempt, slot, failed>>
poolVars == <<chain, states, pending, session, producer>>

-----------------------------------------------------------------------------
(* Transactions and blocks on a state.                                     *)

\* applied: whose effects are in the state; dedupe: the transaction objects.
GenesisState == [num |-> 0, time |-> 0, applied |-> {}, dedupe |-> {}]

PoolInit ==
    /\ chain = << >> /\ states = <<GenesisState>>
    /\ pending = << >> /\ session = << >>
    /\ attempt = 0 /\ slot = 0 /\ failed = "no"

Acceptable(st, t) ==
    /\ Needs[t] \subseteq st.applied
    /\ \A u \in st.applied \ {t} : Spends[u] # Spends[t]

\* Mutant: does not ask whether the transaction has expired.
CanApplyExpired(st, t) == t \notin st.dedupe /\ Acceptable(st, t)

\* _apply_transaction(): the head's time is that of the block before.
CanApply(st, t) ==
    /\ t \notin st.dedupe
    /\ st.num > 0 => /\ Expiration[t] <= st.time + MaxTimeUntilExpiration
                     /\ st.time < Expiration[t]
    /\ Acceptable(st, t)

Applied(st, t) == [st EXCEPT !.applied = @ \cup {t}, !.dedupe = @ \cup {t}]

\* Applies transactions one after the other, and takes note of a failure.
Run(st, txs) ==
    FoldLeft(LAMBDA r, t : IF r.ok /\ CanApply(r.st, t)
                           THEN [r EXCEPT !.st = Applied(@, t)]
                           ELSE [r EXCEPT !.ok = FALSE],
             [ok |-> TRUE, st |-> st], txs)

TotalSize(txs) == FoldLeft(LAMBDA n, t : n + Size[t], 0, txs)
BlockSize(txs) == HeaderSize + TotalSize(txs)

BlockApplies(st, b) ==
    /\ st.time < b.time
    /\ BlockSize(b.txs) <= MaxBlockSize
    /\ Run(st, b.txs).ok

\* clear_expired_transactions() at the end of a block
NotExpired(txs, time) == {t \in txs : ~(time > Expiration[t])}

AfterBlock(st, b) ==
    LET done == Run(st, b.txs).st
    IN  [num |-> st.num + 1, time |-> b.time, applied |-> done.applied,
         dedupe |-> NotExpired(done.dedupe, b.time)]

HeadState == Last(states)

\* Applies blocks one after the other up to the first that fails: the states
\* after each.
RunBlocks(st, blocks) ==
    FoldLeft(LAMBDA r, b : IF r.ok /\ BlockApplies(Last(r.seq), b)
                           THEN [r EXCEPT !.seq = Append(@, AfterBlock(Last(@), b))]
                           ELSE [r EXCEPT !.ok = FALSE],
             [ok |-> TRUE, seq |-> <<st>>], blocks)

-----------------------------------------------------------------------------
(* The pool.                                                               *)

\* Mutant: the changes of the transaction are not merged into the session.
PushToUnmerged(pool, t) ==
    LET st == IF pool.session = << >> THEN pool.base ELSE pool.session[1]
    IN  IF CanApply(st, t)
        THEN [pool EXCEPT !.session = <<st>>, !.list = Append(@, t)]
        ELSE [pool EXCEPT !.session = <<st>>]

\* _push_transaction() on a pool: starts the session, keeps what applies.
PushTo(pool, t) ==
    LET st == IF pool.session = << >> THEN pool.base ELSE pool.session[1]
    IN  IF CanApply(st, t)
        THEN [pool EXCEPT !.session = <<Applied(st, t)>>, !.list = Append(@, t)]
        ELSE [pool EXCEPT !.session = <<st>>]

Known(pool, t) == t \in (IF pool.session = << >> THEN pool.base ELSE pool.session[1]).dedupe

\* ~pending_transactions_restorer()
Restored(base, txs) ==
    FoldLeft(LAMBDA p, t : IF Known(p, t) THEN p ELSE PushTo(p, t),
             [base |-> base, session |-> << >>, list |-> << >>], txs)

\* The pool after push_block() has left the state of the head as `base'.
SetPool(base, popped) ==
    LET pool == Restored(base, popped \o pending)
    IN  pending' = pool.list /\ session' = pool.session

Settled == attempt = 0 /\ failed = "no"

\* push_transaction()
PushTransaction(t) ==
    /\ Settled
    /\ Size[t] + SizeMargin <= MaxBlockSize
    /\ LET pool == PushTo([base |-> HeadState, session |-> session, list |-> pending], t)
       IN  pending' = pool.list /\ session' = pool.session
    /\ UNCHANGED <<chain, states, producer>>

\* push_block() with a block of another producer on top of the head.
ReceiveBlock(b) ==
    /\ Settled
    /\ Len(chain) < MaxChain
    /\ IF BlockApplies(HeadState, b)
       THEN chain' = Append(chain, b) /\ states' = Append(states, AfterBlock(HeadState, b))
       ELSE UNCHANGED <<chain, states>>
    /\ SetPool(HeadState', << >>)
    /\ UNCHANGED producer

TxsOf(blocks) == FlattenSeq([i \in DOMAIN blocks |-> blocks[i].txs])

\* Mutant: the transactions of a popped block go behind those of the block
\* popped before it.
PoppedBehind(blocks) == TxsOf(Reverse(blocks))

\* _popped_tx after the blocks were popped, the last one first.
Popped(blocks) == TxsOf(blocks)

\* The states below the n-th when the blocks above it were undone.
Undone(n) == SubSeq(states, 1, n)

\* push_block() that switches to a branch which leaves the chain k blocks
\* below its head.  When a block of it does not apply, those before it are
\* popped like any other, and the old ones applied again.
ReceiveBranch(k, branch) ==
    LET common == SubSeq(chain, 1, Len(chain) - k)
        old    == SubSeq(chain, Len(chain) - k + 1, Len(chain))
        new    == RunBlocks(states[Len(common) + 1], branch)
    IN  /\ Settled
        /\ k \in 1 .. Len(chain) - 1
        /\ Len(branch) = k + 1 /\ Len(chain) < MaxChain
        /\ branch[1] # old[1]
        /\ IF new.ok
           THEN /\ chain' = common \o branch
                /\ states' = Undone(Len(common)) \o new.seq
                /\ SetPool(HeadState', Popped(old))
           ELSE /\ UNCHANGED <<chain, states>>
                /\ SetPool(HeadState, Popped(SubSeq(branch, 1, Len(new.seq) - 1)) \o Popped(old))
        /\ UNCHANGED producer

-----------------------------------------------------------------------------
(* Block production.                                                       *)

\* The loop of _generate_block() over the pending transactions.
Collected(when) ==
    FoldLeft(LAMBDA r, t :
                IF \/ Expiration[t] < when
                   \/ r.size + Size[t] >= MaxBlockSize
                   \/ ~CanApply(r.st, t)
                THEN r
                ELSE [st |-> Applied(r.st, t), size |-> r.size + Size[t], txs |-> Append(r.txs, t)],
             [st |-> HeadState, size |-> HeaderEstimate, txs |-> << >>], pending)

\* generate_block(): the session is thrown away first, and comes back with
\* push_block() if that is reached.
GenerateBlock(when) ==
    LET b == [time |-> when, txs |-> Collected(when).txs]
        fits == BlockSize(b.txs) <= MaxBlockSize
        good == fits /\ BlockApplies(HeadState, b)
    IN  /\ failed = "no"
        /\ attempt > 0 => when = slot
        /\ Len(chain) < MaxChain
        /\ HeadState.time < when
        /\ IF good
           THEN chain' = Append(chain, b) /\ states' = Append(states, AfterBlock(HeadState, b))
           ELSE UNCHANGED <<chain, states>>
        /\ IF fits
           THEN SetPool(HeadState', << >>)
           ELSE session' = << >> /\ UNCHANGED pending
        /\ failed' = IF good THEN "no" ELSE IF fits THEN "rejected" ELSE "size"
        /\ attempt' = IF good THEN 0 ELSE attempt
        /\ slot' = IF good THEN 0 ELSE when

Retries == 2

\* Mutant: the session is rebuilt and the pending transactions stay.
ClearPendingRebuilds ==
    /\ failed # "no"
    /\ failed' = "no" /\ session' = <<Run(HeadState, pending).st>>
    /\ attempt' = (attempt + 1) % Retries
    /\ slot' = IF attempt + 1 = Retries THEN 0 ELSE slot
    /\ UNCHANGED <<chain, states, pending>>

\* maybe_produce_block() catches: clear_pending(), and tries again once.
ClearPending ==
    /\ failed # "no"
    /\ failed' = "no" /\ pending' = << >> /\ session' = << >>
    /\ attempt' = (attempt + 1) % Retries
    /\ slot' = IF attempt + 1 = Retries THEN 0 ELSE slot
    /\ UNCHANGED <<chain, states>>

-----------------------------------------------------------------------------
\* What other producers put into a block, and the branches they build: after
\* missed slots, one block a slot.
TxLists == UNION {[1 .. n -> Tx] : n \in 0 .. MaxForeign}
MaxSlotGap == 2
Branches(start, len) ==
    {[i \in 1 .. len |-> [time |-> start + gap + i - 1, txs |-> lists[i]]] :
        gap \in 1 .. MaxSlotGap, lists \in [1 .. len -> TxLists]}
InTime(branch) == Last(branch).time <= LastTime

PoolNext ==
    \/ \E t \in Tx : PushTransaction(t)
    \/ \E br \in Branches(HeadState.time, 1) : InTime(br) /\ ReceiveBlock(br[1])
    \/ \E k \in 1 .. MaxPop : k < Len(chain) /\
          \E br \in Branches(chain[Len(chain) - k].time, k + 1) : InTime(br) /\ ReceiveBranch(k, br)
    \/ \E when \in 1 .. LastTime : GenerateBlock(when)
    \/ ClearPending

PoolSpec == PoolInit /\ [][PoolNext]_poolVars

-----------------------------------------------------------------------------
State == [num : Nat, time : Nat, applied : SUBSET Tx, dedupe : SUBSET Tx]

\* The variables have their types.
PoolTypeOK ==
    /\ chain \in Seq([time : Nat, txs : Seq(Tx)])
    /\ states \in Seq(State) /\ Len(states) = Len(chain) + 1
    /\ pending \in Seq(Tx)
    /\ session = << >> \/ (Len(session) = 1 /\ session[1] \in State)
    /\ attempt \in 0 .. Retries - 1 /\ slot \in 0 .. LastTime
    /\ failed \in {"no", "size", "rejected"}

\* _pending_tx_session is the result of applying _pending_tx to the state of
\* the head: no call leaves a pending transaction that is not applied, applied
\* twice, or applied to the state of another block.  The exception is what the
\* producer's loop clears next: generate_block() has thrown over the size.
SessionIsPending ==
    failed # "size" =>
    IF session = << >> THEN pending = << >>
    ELSE Run(HeadState, pending) = [ok |-> TRUE, st |-> session[1]]

\* No transaction is in the chain twice: its dedupe object outlives the time
\* in which it can be applied, across blocks, switches and productions.
AppliedOnce == IsInjective(TxsOf(chain))

\* A block this node produces is one it accepts, although skipped transactions
\* may be what others of the pool need; and when the first attempt to produce
\* throws, for its size, the second one fills the slot.
SlotIsFilled == failed # "rejected" /\ (attempt > 0 => failed = "no")

InSession == IF session = << >> THEN HeadState ELSE session[1]

\* No transaction that could still be applied is lost: what was pending, and
\* what a switch took off the chain, is after each call in the chain or pending
\* again, unless it does not apply any more.
NothingDropped ==
    [][failed = "no" =>
         \A t \in Range(pending) \cup Range(TxsOf(chain)) :
             t \in Range(pending') \cup Range(TxsOf(chain')) \/ ~CanApply(InSession', t)]_poolVars
=============================================================================
