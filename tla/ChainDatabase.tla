--------------------------- MODULE ChainDatabase ---------------------------
(***************************************************************************)
(* chain::database: what push_block() does with the fork database, the     *)
(* chain state and its undo stack, and the block log, and how a node comes *)
(* back after a crash.                                                     *)
(*                                                                         *)
(* The chain state is abstracted to the head block, the last irreversible  *)
(* block number and each bobserver's last confirmed block number.  Its     *)
(* undo stack is the stack of snapshots that UndoHistory specifies and     *)
(* GenericIndex implements.  State, undo stack and block log live in files *)
(* and survive the process; the fork database and the call do not.  A call *)
(* runs under the write lock: between two of its steps only a crash can    *)
(* come.                                                                   *)
(***************************************************************************)
EXTENDS ForkDatabase, SequencesExt

CONSTANTS
    NumBobservers,      \* SIGMAENGINE_NUM_BOBSERVERS
    StartVoting,        \* SIGMAENGINE_START_MINER_VOTING_BLOCK
    IrreversiblePercent,\* SIGMAENGINE_IRREVERSIBLE_THRESHOLD in percent
    MaxUndoHistory,     \* SIGMAENGINE_MAX_UNDO_HISTORY
    OutOfOrder,         \* whether a block may come after the blocks built on it
    MaxCrashes          \* bound on crashes

ASSUME ChainAssumption ==
    /\ IsFiniteSet(Producer)
    /\ NumBobservers \in Nat /\ StartVoting \in Nat \ {0} /\ MaxUndoHistory \in Nat
    /\ IrreversiblePercent \in 1 .. 100
    /\ OutOfOrder \in BOOLEAN
    /\ MaxCrashes \in Nat

VARIABLES
    fdb,        \* _fork_db
    chain,      \* head block, last irreversible block, confirmations
    undo,       \* open sessions, oldest first: the state and the revision
    rev,        \* chainbase revision()
    log,        \* _block_log, block number n at n
    pc,         \* where push_block(), open() or reindex() is
    call,       \* the locals of the push_block() in progress
    result,     \* how the last push_block() ended
    crashes     \* counts crashes

vars == <<blocks, fdb, chain, undo, rev, log, pc, call, result, crashes>>

Genesis == [head |-> NoBlock, lib |-> 0, conf |-> [w \in Producer |-> 0]]
NoCall == [block |-> NoBlock, mode |-> "none", first |-> << >>, second |-> << >>,
           at |-> 0, entry |-> NoBlock]

HeadNum == Num(chain.head)

\* What the branches in the hands of _push_block() keep alive.
Held(c) == ToSet(c.first) \cup ToSet(c.second)

-----------------------------------------------------------------------------
(* update_last_irreversible_block(): the number.                           *)

\* What nth_element() puts at the offset of the threshold.
Nth(conf, k) ==
    CHOOSE v \in {conf[w] : w \in Producer} :
        /\ Cardinality({w \in Producer : conf[w] < v}) <= k
        /\ Cardinality({w \in Producer : conf[w] <= v}) > k

Offset == ((100 - IrreversiblePercent) * Cardinality(Producer)) \div 100

\* Mutant: the most recent confirmation will do.
NewLibHighest(lib, conf, n) ==
    IF n < StartVoting
    THEN IF n > NumBobservers THEN n - NumBobservers ELSE lib
    ELSE Nth(conf, Cardinality(Producer) - 1)

NewLib(lib, conf, n) ==
    IF n < StartVoting
    THEN IF n > NumBobservers THEN n - NumBobservers ELSE lib
    ELSE IF Nth(conf, Offset) > lib THEN Nth(conf, Offset) ELSE lib

\* The state after _apply_block() took b on top of state c.
Post(c, b) ==
    LET conf == [c.conf EXCEPT ![blocks[b].producer] = Num(b)]
    IN  [head |-> b, conf |-> conf, lib |-> NewLib(c.lib, conf, Num(b))]

\* validate_block_header() and the other checks that come before the state
\* of the new block is complete.
Applies(c, b) ==
    /\ Prev(b) = c.head
    /\ blocks[b].fault # "early"
    /\ Num(b) - c.lib < MaxUndoHistory

\* Mutant: keeps the session of the block that became irreversible.
CommittedStrict(u, r, v) ==
    \E k \in 0 .. Len(u) :
        /\ \A i \in 1 .. k : u[i].revision < r
        /\ k < Len(u) => u[k + 1].revision >= r
        /\ v = SubSeq(u, k + 1, Len(u))

\* Mutant: drops the session of the first reversible block as well.
CommittedTooFar(u, r, v) ==
    \E k \in 0 .. Len(u) :
        /\ \A i \in 1 .. k : u[i].revision <= r + 1
        /\ k < Len(u) => u[k + 1].revision > r + 1
        /\ v = SubSeq(u, k + 1, Len(u))

\* commit(): v is u without the sessions of revision r and below.
Committed(u, r, v) ==
    \E k \in 0 .. Len(u) :
        /\ \A i \in 1 .. k : u[i].revision <= r
        /\ k < Len(u) => u[k + 1].revision > r
        /\ v = SubSeq(u, k + 1, Len(u))

-----------------------------------------------------------------------------
Init ==
    /\ blocks = << >>
    /\ fdb = EmptyForkDb
    /\ chain = Genesis
    /\ undo = << >>
    /\ rev = 0
    /\ log = << >>
    /\ pc = "idle"
    /\ call = NoCall
    /\ result = "ok"
    /\ crashes = 0

\* A block is signed elsewhere and has not come here yet.
Produce(p, w, f) ==
    /\ OutOfOrder
    /\ pc = "idle"
    /\ Sign(p, w, f)
    /\ UNCHANGED <<fdb, chain, undo, rev, log, pc, call, result, crashes>>

\* handle_block(), the API and the block producer call push_block(b), with a
\* block seen before or not: nothing on the way looks for it in the fork
\* database.
Deliver(b) ==
    /\ pc = "idle"
    /\ pc' = "push"
    /\ call' = [NoCall EXCEPT !.block = b, !.entry = chain.head]
    /\ UNCHANGED <<fdb, chain, undo, rev, log, result, crashes>>

DeliverNew(p, w, f) ==
    /\ Sign(p, w, f)
    /\ Deliver(Len(blocks) + 1)

DeliverKnown(b) == Deliver(b) /\ UNCHANGED blocks

Return(r, f) ==
    /\ pc' = "idle"
    /\ call' = NoCall
    /\ result' = r
    /\ fdb' = Sweep(f, {})

\* _push_block() up to the first change of the chain state: the fork database
\* refuses the block; or its head extends the chain, and then it is the new
\* block that gets applied; or it is not higher; or it asks for a switch.
PushBlock ==
    LET f == PushItem(fdb, call.block)
        h == f.head
        extends == Prev(h) = chain.head
        switches == ~extends /\ Num(h) > HeadNum
    IN  /\ pc = "push"
        /\ \/ /\ ~CanPush(fdb, call.block)
              /\ Return("error", fdb)
           \/ /\ CanPush(fdb, call.block) /\ extends
              /\ pc' = "apply"
              /\ call' = [call EXCEPT !.mode = "direct", !.at = 1]
              /\ fdb' = f
              /\ UNCHANGED result
           \/ /\ CanPush(fdb, call.block) /\ ~extends /\ ~switches
              /\ Return("ok", f)
           \/ /\ CanPush(fdb, call.block) /\ switches
              /\ ~CanFetchBranches(f, h, chain.head)
              /\ Return("error", f)
           \/ /\ CanPush(fdb, call.block) /\ switches
              /\ CanFetchBranches(f, h, chain.head)
              /\ pc' = "pop"
              /\ call' = [call EXCEPT !.mode   = "switch",
                                      !.first  = Branch(h, chain.head),
                                      !.second = Branch(chain.head, h),
                                      !.at     = Len(Branch(h, chain.head))]
              /\ fdb' = f
              /\ UNCHANGED result
        /\ UNCHANGED <<blocks, chain, undo, rev, log, crashes>>

\* Mutant: the undo state stays on the stack.
UndoLastKeepsSession ==
    IF undo = << >>
    THEN UNCHANGED <<chain, undo, rev>>
    ELSE /\ chain' = Last(undo).state
         /\ rev' = rev - 1
         /\ UNCHANGED undo

\* Mutant: the confirmations are in an index that undo() misses.
UndoLastPartly ==
    IF undo = << >>
    THEN UNCHANGED <<chain, undo, rev>>
    ELSE /\ chain' = [Last(undo).state EXCEPT !.conf = chain.conf]
         /\ undo' = Front(undo)
         /\ rev' = rev - 1

\* undo(): nothing when no session is open.
UndoLast ==
    IF undo = << >>
    THEN UNCHANGED <<chain, undo, rev>>
    ELSE /\ chain' = Last(undo).state
         /\ undo' = Front(undo)
         /\ rev' = rev - 1

\* pop_block()
PopBlock ==
    LET known == chain.head \notin fdb.index =>
                    HeadNum \in 1 .. Len(log) /\ log[HeadNum] = chain.head
    IN  \/ /\ known /\ CanPop(fdb)
           /\ fdb' = PopHead(fdb, Held(call))
           /\ UndoLast
           /\ UNCHANGED <<pc, call, result>>
        \/ /\ ~(known /\ CanPop(fdb))
           /\ Return("error", fdb)
           /\ UNCHANGED <<chain, undo, rev>>

ForkPoint == Prev(Last(call.second))

\* The loops that pop until the state is at the block below both branches.
PopStep ==
    /\ pc \in {"pop", "popbad"}
    /\ chain.head # ForkPoint
    /\ PopBlock
    /\ UNCHANGED <<blocks, log, crashes>>

\* The old branch is off: the new one goes on.
PopDone ==
    /\ pc = "pop"
    /\ chain.head = ForkPoint
    /\ pc' = "apply"
    /\ UNCHANGED <<blocks, fdb, chain, undo, rev, log, call, result, crashes>>

\* The failed branch is off: the old one goes back on.
PopBadDone ==
    /\ pc = "popbad"
    /\ chain.head = ForkPoint
    /\ pc' = "apply"
    /\ call' = [call EXCEPT !.mode = "restore", !.at = Len(call.second)]
    /\ UNCHANGED <<blocks, fdb, chain, undo, rev, log, result, crashes>>

\* The block in the hands of apply_block().
Current ==
    CASE call.mode = "direct"  -> call.block
      [] call.mode = "switch"  -> call.first[call.at]
      [] call.mode = "restore" -> call.second[call.at]

\* apply_block() in a new session, up to the commit of the sessions of the
\* blocks that became irreversible.
ApplyBlock ==
    /\ pc = "apply"
    /\ Applies(chain, Current)
    /\ chain' = Post(chain, Current)
    /\ Committed(Append(undo, [state |-> chain, revision |-> rev + 1]), chain'.lib, undo')
    /\ rev' = rev + 1
    /\ pc' = "log"
    /\ UNCHANGED <<blocks, fdb, log, call, result, crashes>>

\* Mutant: the old branch is not put back.
UnwindNoRestore(f) ==
    Return("error", RemoveAll(f, IF call.mode = "direct" THEN {call.block} ELSE Held(call), {}))

\* Mutant: the catch block removes the branch it is about to put back.
UnwindWrongBranch(f) ==
    \/ /\ call.mode \in {"direct", "restore"}
       /\ Return("error", f)
    \/ /\ call.mode = "switch"
       /\ fdb' = SetHead(RemoveAll(f, ToSet(call.second), Held(call)),
                         Head(call.second), Held(call))
       /\ pc' = "popbad"
       /\ UNCHANGED <<call, result>>

\* What _push_block() does when apply_block() threw, after the session is
\* undone.  f is the fork database at the throw.
Unwind(f) ==
    LET bad == ToSet(SubSeq(call.first, 1, call.at))
    IN  \/ /\ call.mode = "direct"
           /\ Return("error", RemoveAll(f, {call.block}, {}))
        \/ /\ call.mode = "switch"
           /\ fdb' = SetHead(RemoveAll(f, bad, Held(call)), Head(call.second), Held(call))
           /\ pc' = "popbad"
           /\ UNCHANGED <<call, result>>
        \/ /\ call.mode = "restore"
           /\ Return("error", f)

\* A check threw: the session holds nothing the chain needs.
RejectBlock ==
    /\ pc = "apply"
    /\ ~Applies(chain, Current)
    /\ Unwind(fdb)
    /\ UNCHANGED <<blocks, chain, undo, rev, log, crashes>>

\* The next block, or the end of the loop and the return of push_block().
NextBlock(f) ==
    IF call.at > 1
    THEN /\ pc' = "apply"
         /\ call' = [call EXCEPT !.at = @ - 1]
         /\ fdb' = f
         /\ UNCHANGED result
    ELSE Return(IF call.mode = "restore" THEN "error" ELSE "ok", f)

\* Mutant: stops below the last irreversible block.
ToLogShort == [i \in 1 .. chain.lib - Len(log) - 1 |-> FetchOnMainBranch(fdb, Len(log) + i)]

\* The blocks that became irreversible, as the loop that logs them finds them.
ToLog == [i \in 1 .. chain.lib - Len(log) |-> FetchOnMainBranch(fdb, Len(log) + i)]

\* The ones before the first that is not found.
Found == {i \in DOMAIN ToLog : \A j \in 1 .. i : ToLog[j] # NoBlock}
AllFound == Found = DOMAIN ToLog

\* The rest of apply_block() succeeds: the irreversible blocks are appended
\* to the block log, the fork database forgets what is below them.
LogBlocks ==
    /\ pc = "log"
    /\ AllFound
    /\ blocks[Current].fault # "late"
    /\ log' = log \o ToLog
    /\ NextBlock(SetMaxSize(fdb, HeadNum - chain.lib + 1, Held(call)))
    /\ UNCHANGED <<blocks, chain, undo, rev, crashes>>

\* The assertion on the block to log fails, or something after it throws.
\* Sessions that were committed and blocks that were appended stay so.
FailLate ==
    /\ pc = "log"
    /\ AllFound => blocks[Current].fault = "late"
    /\ log' = log \o SubSeq(ToLog, 1, Cardinality(Found))
    /\ UndoLast
    /\ Unwind(IF AllFound THEN SetMaxSize(fdb, HeadNum - chain.lib + 1, Held(call))
              ELSE fdb)
    /\ UNCHANGED <<blocks, crashes>>

-----------------------------------------------------------------------------
(* Crash and restart.                                                      *)

\* The process ends.  Of the blocks being appended any number is in the file.
Crash ==
    /\ pc \notin {"down", "halted"}
    /\ crashes < MaxCrashes
    /\ crashes' = crashes + 1
    /\ pc' = "down"
    /\ fdb' = EmptyForkDb
    /\ call' = NoCall
    /\ \/ UNCHANGED log
       \/ /\ pc = "log"
          /\ \E k \in Found : log' = log \o SubSeq(ToLog, 1, k)
    /\ UNCHANGED <<blocks, chain, undo, rev, result>>

\* undo_all()
Rewound == IF undo = << >> THEN chain ELSE undo[1].state
RewoundRev == rev - Len(undo)

StateMatchesLog ==
    Rewound.head # NoBlock =>
        Num(Rewound.head) <= Len(log) /\ log[Num(Rewound.head)] = Rewound.head

\* open() when its assertions hold.
Open ==
    /\ pc = "down"
    /\ RewoundRev = Num(Rewound.head)
    /\ StateMatchesLog
    /\ chain' = Rewound
    /\ undo' = << >>
    /\ rev' = RewoundRev
    /\ fdb' = IF Rewound.head = NoBlock THEN fdb ELSE StartBlock(fdb, Rewound.head)
    /\ pc' = "idle"
    /\ UNCHANGED <<blocks, log, call, result, crashes>>

\* Mutant: opens again and again, on the same state.
ReindexNoWipe ==
    /\ pc = "down"
    /\ ~(RewoundRev = Num(Rewound.head) /\ StateMatchesLog)
    /\ UNCHANGED vars

\* open() when one fails: reindex() wipes the state.  With no block in the
\* log the node starts again from genesis.
Reindex ==
    /\ pc = "down"
    /\ ~(RewoundRev = Num(Rewound.head) /\ StateMatchesLog)
    /\ chain' = Genesis
    /\ undo' = << >>
    /\ rev' = 0
    /\ pc' = IF log = << >> THEN "idle" ELSE "replay"
    /\ UNCHANGED <<blocks, fdb, log, call, result, crashes>>

\* One block of the loop of reindex(): no session, nothing written to the log.
Replay ==
    /\ pc = "replay"
    /\ HeadNum < Len(log)
    /\ LET b == log[HeadNum + 1]
           applies == Applies(chain, b) /\ blocks[b].fault # "late"
       IN  \/ /\ applies
              /\ chain' = Post(chain, b)
              /\ fdb' = SetMaxSize(fdb, Num(b) - Post(chain, b).lib + 1, {})
              /\ UNCHANGED pc
           \/ /\ ~applies
              /\ pc' = "halted"
              /\ UNCHANGED <<chain, fdb>>
    /\ UNCHANGED <<blocks, undo, rev, log, call, result, crashes>>

ReplayDone ==
    /\ pc = "replay"
    /\ HeadNum = Len(log)
    /\ rev' = HeadNum
    /\ fdb' = StartBlock(fdb, Last(log))
    /\ pc' = "idle"
    /\ UNCHANGED <<blocks, chain, undo, log, call, result, crashes>>

Step ==
    \/ PushBlock
    \/ PopStep \/ PopDone \/ PopBadDone
    \/ ApplyBlock \/ RejectBlock \/ LogBlocks \/ FailLate
    \/ Open \/ Reindex \/ Replay \/ ReplayDone

Next ==
    \/ \E p \in 0 .. Len(blocks), w \in Producer, f \in Fault :
          Produce(p, w, f) \/ DeliverNew(p, w, f)
    \/ \E b \in Block : DeliverKnown(b)
    \/ Step
    \/ Crash

Spec == Init /\ [][Next]_vars

\* A call, once begun, runs to its end, and a node that went down is started.
FairSpec == Spec /\ WF_vars(Step)

-----------------------------------------------------------------------------
State == [head : Block \cup {NoBlock}, lib : Nat, conf : [Producer -> Nat]]

\* The variables have their types.
TypeOK ==
    /\ TreeOK
    /\ fdb \in ForkDb
    /\ chain \in State
    /\ undo \in Seq([state : State, revision : Nat])
    /\ rev \in Nat
    /\ log \in Seq(Block)
    /\ pc \in {"idle", "push", "pop", "popbad", "apply", "log", "down", "replay", "halted"}
    /\ call \in [block : Block \cup {NoBlock}, mode : {"none", "direct", "switch", "restore"},
                 first : Seq(Block), second : Seq(Block), at : Nat,
                 entry : Block \cup {NoBlock}]
    /\ result \in {"ok", "error"}
    /\ crashes \in Nat

Running == pc \notin {"down", "replay", "halted"}

\* Whatever was applied, popped, rejected half way, committed or rewound, the
\* chainbase revision is the head block number, which is what open() asserts
\* and what commit( last_irreversible_block_num ) relies on; and each open
\* session is one block of the chain: taking back session k leads to the
\* ancestor of the head below the block with the session's revision.  The
\* number that commit() is called with is that of a block of the chain.
UndoFollowsChain ==
    Running =>
        /\ rev = HeadNum
        /\ chain.lib \in 0 .. HeadNum
        /\ \A k \in 1 .. Len(undo) :
              /\ undo[k].revision = rev - Len(undo) + k
              /\ undo[k].state.head = Anc(chain.head, undo[k].revision - 1)

\* The state after applying the blocks up to b to the genesis state.
Replayed(b) ==
    LET R[n \in 0 .. Num(b)] == IF n = 0 THEN Genesis ELSE Post(R[n - 1], Anc(b, n))
    IN  R[Num(b)]

\* A node's state, and every state it can go back to, is the one any node gets
\* that applies the same blocks from genesis: no switch, no failed push and
\* no restart leaves a trace in it.
StateIsReplay ==
    /\ chain = Replayed(chain.head)
    /\ \A k \in 1 .. Len(undo) : undo[k].state = Replayed(undo[k].state.head)

\* A push_block() that throws leaves the head where it was ("Push block may
\* fail in which case every partial change is unwound").
PushUnwinds ==
    [][Running /\ pc # "idle" /\ pc' = "idle" /\ result' = "error" =>
          chain'.head = call.entry]_vars

\* No switch of forks and no restart takes back an irreversible block; only a
\* reindex, which starts again from the block log, may.
CommittedStay ==
    [][~Reindex /\ pc # "replay" =>
          IsPrefix(SubSeq(Path(chain.head), 1, chain.lib), Path(chain.head)')]_vars

\* In the block log each block follows its predecessor: what is logged by
\* number out of the fork database is one chain. When a call has returned it
\* holds the irreversible blocks of the chain, so that a reindex cannot lose
\* them.
IrreversibleIsDurable ==
    /\ \A n \in 1 .. Len(log) : Path(log[n]) = SubSeq(log, 1, n)
    /\ pc = "idle" => IsPrefix(SubSeq(Path(chain.head), 1, chain.lib), log)

\* update_last_irreversible_block() finds every block it has to log ("Current
\* fork in the fork database does not contain the last_irreversible_block").
IrreversibleFound == pc = "log" => AllFound

\* A node that goes down between two calls opens without a reindex: rewound,
\* its revision is its head block number and its head is in the block log.
RestartConsistent ==
    pc = "idle" => RewoundRev = Num(Rewound.head) /\ StateMatchesLog

\* A call leaves the head of the chain in the fork database, without which no
\* block that extends the chain links, whatever it refused half way: unless
\* the fork database's own head is a block that was refused before.  Then any
\* block that is pushed gets applied as if it extended the chain, and the head
\* itself, pushed once more, is refused and removed.
HeadStaysInForkDb ==
    [][/\ Running /\ pc # "idle" /\ pc' = "idle" /\ chain'.head # NoBlock
       /\ call.entry \in fdb.index \/ call.mode \in {"switch", "restore"}
       => \/ chain'.head \in fdb'.index
          \/ call.mode = "direct" /\ fdb.head \notin fdb.index]_vars

\* A block that voting made irreversible has the threshold's share of the
\* bobservers behind it, each with a block of this chain at or above it.
LibHasQuorum ==
    chain.lib >= StartVoting =>
        LET above == {blocks[Anc(chain.head, n)].producer : n \in chain.lib .. HeadNum}
        IN  100 * Cardinality(above) >= IrreversiblePercent * Cardinality(Producer)

\* A push_block() returns and a node that went down comes up, whatever the
\* fork database holds: no loop of the code waits for something that never
\* comes.
CallsReturn == pc # "idle" ~> pc = "idle"
=============================================================================
