# A TLA+ model of the tnc-mainnet node

This directory holds a formal model of the blockchain node in this repository:
TLA+ modules translated from the C++ sources, TLC configurations that
model-check them on small instances, and TLAPS proofs of what matters most for
every size. `PROJECT.json` lists components, runs, mutants, findings, hazards
and theorems, and maps each definition to the lines it models.

## 1. The system

The node keeps a replicated chain of blocks. Bobservers (block producers) take
turns to sign blocks; each node applies the blocks it receives to a database of
objects in shared memory, keeps the recent forks, switches to the longest one,
and writes what has become irreversible to a log on disk.

| Component | State | Operations | Talks to |
|---|---|---|---|
| **chainbase** `libraries/chainbase` | typed object tables, a stack of undo states per table, a revision | `emplace`, `modify`, `remove`, `start_undo_session`, `undo`, `squash`, `commit`, `undo_all`, `set_revision`; read and write locks with a timeout | everything that is chain state |
| **fork database** `chain/fork_database.*` | index of recent blocks, head, maximal size; items hold their predecessor weakly | `push_block`, `pop_block`, `start_block`, `remove`, `set_head`, `set_max_size`, `fetch_branch_from`, `fetch_block_on_main_branch_by_number` | called by the chain database |
| **chain database** `chain/database.*` | head, last irreversible block, bobservers' confirmations, accounts, ... (all in chainbase) | `open`, `reindex`, `push_block`, `pop_block`, `apply_block`, `push_transaction`, `generate_block` | fork database, block log, chainbase, plugins by signals |
| **block log** `chain/block_log.*` | the blocks file, the index file, the cached head | `append`, `flush`, `open`, `construct_index`, `read_block_by_num` | chain database |
| **transaction pool** `database.cpp`, `db_with.hpp` | pending and popped transactions, the pending session | `push_transaction`, `clear_pending`, the restorer around `push_block` | chain database, block producer |
| **bobserver schedule, hardforks** `chain/bobserver_schedule.cpp`, `database.cpp` | shuffled schedule, slots, producer flags, version votes | `update_bobserver_schedule`, `process_hardforks`, root's operations | chain database |
| **accounts** `chain/sigmaengine_evaluator.cpp`, `database.cpp` | owner authorities and their history, recovery accounts and requests | create, update, request, recover, change; `account_recovery_processing` at the end of each block | chain database |
| **evaluators, ledger** `chain/sigmaengine_evaluator.cpp`, `database.cpp` | balances, savings, funds, supply | one evaluator per operation; `process_funds`, `process_savings_withdraws`, ... at the end of each block | chain database |
| **token and dapp plugins** `plugins/token`, `plugins/dapp` | dapps, votes, members, comments; tokens, balances, funds, savings | custom operations, work when a block was applied | chain database, by signals |
| **history plugins**, **APIs**, **wallet** | what they index or show | queries | read the chain database |
| **p2p** `libraries/net` | peers, what each has and was asked for | handshake, sync, inventory, block and transaction broadcast | application, which calls `push_block` |

### What is hard

* **One step of several failing.** `push_block` changes the fork database, the
  object state, the undo stack and the block log, and each of its parts may
  throw. A fork switch pops a branch, applies another and, if a block of it
  fails, has to put the first one back.
* **State that two components keep by their own rules.** The fork database's
  head and the chain's head move separately during a switch and after a
  rejected block; commit goes by revision, the log by block number.
* **Crashes.** The shared memory and the log are written at different moments;
  `open` rewinds with `undo_all`, compares with the log and reindexes.
* **Unreliable delivery.** Blocks arrive twice, late, out of order, on several
  forks, and invalid.
* **Undo bookkeeping.** Three containers per session and a 4x4 merge table in
  `squash`; a wrong entry only shows when a much later undo uses it.
* **Arithmetic at the edge.** The last irreversible block of a short chain, the
  rounding of the threshold.
* **Concurrency.** Blocks and transactions are processed under one write lock,
  so within the chain database the only interleaving is with a crash; the lock
  itself gives up after a second and moves to the next lock. The p2p node is
  the other way round: its handlers yield whenever they ask the chain, and
  lists, requests and connections change under them.
* **Time.** Transactions see the time of the last block, the work at the end of
  a block its own; requests, stakes, votes and schedules expire or take effect
  at one or the other, and missed slots make the steps uneven.
* **Failures that are swallowed.** An exception in a plugin's block handler is
  logged; what it did before stays done.

`PROJECT.json` lists the sharpest of these under `hazards`, each at its line.

### What makes each component correct

* chainbase: an undo at any depth restores exactly what the session started
  from, and never meets an object it does not expect; the index implements a
  stack of snapshots.
* fork database and chain database: the state is what applying the chain's
  blocks from genesis gives; the undo stack has one session per reversible
  block; a failed push leaves no trace; an irreversible block is never taken
  back; the chain's head stays linkable.
* block log: one chain, and every irreversible block of the node is in it.
* ledger: no money is made or lost; savings cover what is to be paid; the work at
  the end of a block never fails.
* bobserver schedule: the producer count is right; a schedule names whoever can
  sign, once; slots and turns follow time; a hardfork has a majority.
* accounts: an owner is recovered only as its recovery account asked, with proof
  of recent ownership, and the delay of a change leaves the time for it.
* plugins: no token is made or lost; the tree of comments and its counters
  agree; what is due is paid.
* p2p: blocks reach the chain in an order that links; nothing is requested
  twice; a node with nothing to do has what its peers have.
* restart: a node comes back without losing an irreversible block.
* irreversibility: the threshold's share of the bobservers has built on what
  voting made irreversible.

## 2. Modules

### UndoHistory, GenericIndex (chainbase)

`GenericIndex` models one `generic_index`: a table of objects with an id, a
unique secondary key and data, and the stack of undo states with their three
containers. Each public operation is an action (`Emplace`, `Modify`, `Remove`,
`StartUndoSession`, `Undo`, `Squash`, `Commit`, `SetRevision`; the loop of
`undo_all` is `UndoAll`, `UndoAllStep`, `UndoAllDone`). `OnCreate`, `OnModify`,
`OnRemove` are the bookkeeping functions, `Restore` the three loops of `undo`
and `Merge` the three loops of `squash`. `squash` with a single session drops it
and leaves the revision alone, as in the code. `snaps` is a history variable:
what the index held when each open session began. A failed `emplace` changes
nothing and is therefore a disabled action.

`UndoHistory` is the abstract specification: a stack of snapshots, with no word
about how they are represented. `HistorySpec` states that `GenericIndex`
implements it; `ChainDatabase` uses the abstract form for its own undo stack.

### BlockTree, ForkDatabase, ChainDatabase

`BlockTree` is the set of signed blocks, each with its predecessor, its producer
and how applying it ends: it applies, a check before
`update_last_irreversible_block()` throws ("early"), or something after it does
("late"). That is all the chain database's control flow depends on.

`ForkDatabase` has the operations of `fork_database` as operators on a record:
the index, the head, the maximal size, and which weak pointers are empty. An
item lives as long as the index, the head or a branch in the hands of a running
call keeps it; `Sweep` computes what expires. The head may be an item that the
index has forgotten, which the code allows and the findings are about.

`ChainDatabase` composes the two with the chain state, its undo stack and the
block log. The state is abstracted to the head block, the last irreversible
block number and the bobservers' confirmed block numbers: what irreversibility,
commit and the log depend on. `push_block` is a small machine over `pc`:

    push -> apply -> log -> (apply ... | idle)         a block extends the head
    push -> pop* -> apply -> log -> apply ... -> idle  a switch
            ... apply fails -> popbad* -> apply ... -> idle   a failed switch

`ApplyBlock` runs up to the commit of the irreversible sessions, `LogBlocks`
and `FailLate` do the rest of `apply_block`; a crash may come between any two
steps and leaves any prefix of the blocks being logged in the file. `Open`,
`Reindex`, `Replay` and `ReplayDone` are the restart as
`application::startup` does it. `entry`, in `call`, is a history component: the
head when the call began.

### AppendLog, BlockLog

`BlockLog` models `block_log`: each of the two files is a sequence of cells (a
block, a position, or the torn beginning of either), with the buffer of its
stream and the mode (reading or writing) it is in. `AppendBlock`, `Flush` and
`ReadBlock` are the operations, with the closing and reopening of a stream that
each of them does; `Open` reads the ends of both files and calls
`ConstructIndex` where the code does. `Crash` leaves any part of what was
buffered. `Open` throws when the block file ends in a torn cell, or when the
index consists of a torn entry; the node stays down then, since
`application::startup` falls back to a reindex only for assertions.

`AppendLog` is what it promises to the chain database: a counter of blocks that
a restart takes back at most to the last flush.

### TransactionPool

The pending transactions. `chain` and `states` are the chain and the stack of
states that `ChainDatabase` and `UndoHistory` establish; `pending` and `session`
are `_pending_tx` and `_pending_tx_session`. One call under the write lock is one
action: `PushTransaction`, `ReceiveBlock` (a block on the head, applied or
rejected), `ReceiveBranch` (a switch, successful or not), `GenerateBlock`.
`Restored` is the destructor of `pending_transactions_restorer`, `Collected` the
loop of `_generate_block`. A transaction is abstracted to its size, its
expiration, the transactions it needs and the coin it spends. `ClearPending` is
the handler of the producer's loop; nothing runs between it and the attempt
before.

### Ledger

The money: balances, savings, the staking fund, the dapps' reward fund and the
supply. Each operation of `sigmaengine_evaluator.cpp` that moves money is an
action (`Transfer`, `PrintMoney`, `Burn`, `TransferSavings`, ...; `PayFee` is the
charge that every operation of the dapp and token plugins makes), and so are the
rules they obey (`SetBlacklist`, `SetFundInterest`). The end of a block is a
machine over `phase`: `EndTransactions` (the block's time,
`clear_null_account_balance`, `process_funds`), then one step per round of the
loops of `process_savings_withdraws` and `process_fund_withdraws`. `itr` is the
iterator of the first loop, which the code sets before it inserts the next
instalment. `TransferSavings` takes any order and month, as the evaluator does
(`sigmaengine_evaluator.cpp:595-596`); the wallet asks for order 1. A request
keeps the order it was made with in `first`, a field of the model only: it is on
its plan (`OnPlan`) when that order is not above the month, where order 0 of
month 0 is one payment of all. What is left of a request off its plan can go
below zero, and its month can be 0, which the loop divides by (`Defined`).

### BobserverSchedule

Who signs the next block. A block is applied in two steps: `BeginBlock` is its
header (the signer's turn, `update_missed`, the versions and votes in the
header's extensions), `EndBlock` the work after its transactions
(`update_global_dynamic_data`, `update_bobserver_schedule`,
`process_hardforks`), with root's operations on bobservers (`BobserverUpdate`,
`UpdateBproducer`, `ExceptBobserver`) between them. The two shuffles are a free
choice of order. `StopAtHardfork` is a node that meets a hardfork it does not
know. `ProcessHeaderExtensions` takes any of the votes in `Vote`, a set of pairs
of a version and a time: `process_header_extensions` stores what the header
brings and compares it with nothing (`database.cpp:1654-1668`), so two
bobservers may vote for one version at different times and a signer may vote for
a version that no binary has. `FirstHardforkTime` is the date of the hardfork
that is not voted on. `round` and `tally` are history variables: who signed since the schedule
was made, and the votes when they were last counted.

### AccountRecovery

Who owns an account and how it is given back. One action per operation
(`AccountCreate`, `AccountUpdate`, `RequestAccountRecovery`, `RecoverAccount`,
`ChangeRecoveryAccount`, `BobserverUpdate` because the first bobserver recovers
the accounts without a recovery account); `EndBlock` is
`account_recovery_processing` with its three loops. An authority is a value
that may be open, impossible or name accounts. Who holds which keys is left
open: an operation arrives with the signatures it needs. `replaced`, `asked` and
`wanted` are history variables.

### Dapp, Token

`Dapp` has the evaluators of the dapp plugin and the counting of votes when a
block was applied; `Token` extends it with the token plugin: issue, burn,
transfer, funds, stakes, savings, and the payments after a block as one step per
round of their loops (`PayStake`, `PaySavings`), which an exception ends
(`StakeFails`). The plugins hear of a block in the order of their names. `at` is
the iterator of the savings' loop, which stays on a request that `modify` has
moved; `lost` counts the tokens that `setup_token_fund` takes for a fund that
exists.

### PeerSync

One node and its peers while it fetches blocks. The p2p thread's tasks and
message handlers are actions (`FetchSyncItems`, `ProcessBacklog`,
`FetchBlockchainItemIds`, `BlockchainItemIdsInventory`, `SyncBlock`,
`NormalBlock`, `ItemNotAvailable`, `ConnectionClosed`, `TerminateInactive`);
they yield only where they call the delegate. `jobs` is the queue of those calls
and `Delegate` serves the first: it builds a synopsis or pushes a block, and goes
on with what the handler does after its call. `due` holds the tasks that are
triggered. Peers follow a chain, switch to a longer one, answer in order, and
may leave; a faulty one may list a block and not have it, or leave out the id its
list builds on.

A task that makes several calls makes each when the one before was served
(`GoOn`): the peers it has yet to ask (`rest`) and to synchronise with anew
(`again`) are in its call, and a connection that closes meanwhile leaves the call
without a peer (`Forgotten`) but does not end the task. While the backlog's task
waits so (`BacklogWaits`), a trigger of it does nothing (`TriggerBacklog`,
`node.cpp:3370`). An advertised block is requested from any idle peer
(`RequestBlock`) and may come when the peer is synchronised with again
(`NormalBlock`). Four variables are no part of the code but remember what the
properties speak of: `overtaken`, a task came back to a peer that had got a list
since; `missed`, the blocks that arrived while the backlog's task waited;
`skipped`, the peers that the sync loop passed over because an advertised block
was outstanding; `lacking`, the requests that a peer said it cannot serve.

The short questions to the delegate (`has_item`, `get_block_time`,
`get_block_ids`, `sync_status`) are answered within the step that asks, although
they wait for the delegate's thread too: between them and the next call the
model has no other task run. The node starts with a chain of at least one block
(`StartHead`), so what it does with an empty synopsis of its own
(`node.cpp:2484-2501`, `application.cpp:805`) is not reached. With an empty chain
two replies can be under way of which both begin with block 1; the second meets
the assertion at `node.cpp:2624` when the list it finds does not hold that block,
which the model does not show.

### Runs

TLC takes between a few seconds and three minutes for each.

| Run | Instance | Shows |
|---|---|---|
| `generic_index` | 2 ids, 2 keys, 2 data, 3 nested sessions | every session's start can be rebuilt, undo is defined, the refinement of `UndoHistory`, and that `undo_all` ends |
| `chain_switch` | 4 blocks of which the first is shared, all three outcomes, irreversible 2 below the head, one crash, fairness | a switch that fails half way is unwound, the state is the replay of its chain, sessions follow it, the head stays in the fork database but for the case below, every call returns and every restart comes up |
| `chain_voting` | 5 valid blocks of 3 bobservers in any order, threshold 66%, voting starts at block 2, one crash | two of three bobservers have built on what voting made irreversible; irreversible blocks are logged and never taken back; the node reopens from its own state |
| `deep_fork_unwinds` | 6 valid blocks, irreversible by depth | **violated**: finding 1 |
| `switch_finds_irreversible` | 6 valid blocks, voting | **violated**: finding 2 |
| `block_log_crash` | 2 to 5 blocks, 2 crashes with torn writes | the index lists every block after any crash; reads between buffered appends find their block; the files implement `AppendLog` |
| `pool_restore` | 4 transactions, chain of 4, switches of up to 2 blocks, time to 7, a header larger than reckoned | the pending session is the result of the pool; no transaction is applied twice; none that still applies is lost; produced blocks are accepted and the second attempt fills the slot |
| `ledger` | 2 users and the null account, 6 coins, amounts of 3, 2 savings requests and 2 stakes at a time, orders 1 and 2 of 0, 1 and 2 months, time to 2 | the supply is accounted for after every step; savings are what is still to be paid; split payments add up; the end of a block fails for nothing but a request off its plan and the null account |
| `bobserver_schedule` | 3 bobservers for 2 places, 6 blocks, gaps of up to 3 seconds at an interval of 2, 2 operations of root, votes for a hardfork the node knows, some time later, and for one it does not know, at once | counter, schedule, turns, slots and majorities |
| `account_recovery` | 2 accounts, 3 authorities, 5 operations, 5 units of time, gaps of 2 | the history of owners, the requests and the delay fit together at every block |
| `plugins` | 2 accounts, both producers, 2 dapps, comments of depth 2, one token of up to 6, 4 operations, time to 4 | tokens are accounted for, the comment tree is consistent, payments wait only for a stated reason |
| `peer_sync` | 2 peers, one faulty, 5 blocks: 1-2, 1-3-4, and an invalid 5 on 2; 2 ids per reply, 1 request per peer, 1 block handled, 1 prefetched, 2 connections made, one advertised block requested | blocks link, one request each, and quiet means synchronised |

Bounds. Four blocks allow a chain of one and a fork of two above a common block,
with a failure in the first or last block of the new branch; five a chain of two
and a fork of three; a sixth makes a block irreversible on the way. A second crash meets the states a
first one does, since a restart ends in a state of the same kind. Blocks are
numbered from 1 with `MaxBlocks` as the bound; `SharedPrefix` says up to which
number blocks do not compete, and is 1 where a fork from genesis itself would
show nothing but that `pop_block` cannot pop block 1. `MaxUndoHistory` and
`DefaultMaxSize` are above what the other bounds let happen, as 10000 and 1024
are in practice.

Five blocks in the log are more than any loop of `open` tells apart; what matters
is none, one, and several, and how far the index is behind. `block_log_crash`
starts from two blocks because of the log with one block (below). In the ledger,
an amount of 3 makes a share of two months round and an interest of 50% exceed
what was staked; two requests let one payee's savings mix, also one on its plan
with one off it; time passes in steps of one or two cycles, so that two
instalments can be due at once, and two cycles are enough for a request of order
2 of 1 to ask for more than it brought. In the pool, a
switch of two blocks is needed for the order of popped blocks to matter, and
the four transactions are one for each relation: needed, needing, conflicting,
unrelated. Their expirations are such that each can expire before and after the
others reach the chain.

In `bobserver_schedule` three bobservers for two places let the schedule be full,
short and empty, and gaps of one second to more than a slot make blocks early,
late and missed. In `account_recovery` a request outlives the limit between two
recoveries, as a day outlives five seconds, and a recovery period outlives a
request; five operations are a creation, an update, a change, a request and a
recovery, in any order and with any of them replaced; two accounts share the
history. With a fourth, impossible authority the same holds (not kept, for its time). In `plugins` four operations reach a token with a stake or two requests
in it. In `peer_sync` every limit is reached: the fork is longer than a reply, a
second request waits for the first, fetching is suspended, and the invalid block
has a peer refused. One peer starts at block 5, the other at 3 and adopts 4 or 5. Each
of the four reasons in `Waiting` is met alone in a quiet state, the trigger lost
at `node.cpp:3370` among them. With two peers no task comes back to
a peer that got a list meanwhile (`overtaken` stays false), so that here
`BlocksLink` holds without its exception.

Symmetry is used for the names of bobservers in `chain_voting` and
`switch_finds_irreversible`, and of accounts and dapps in `plugins`; these check
safety only. In `generic_index` three
sessions are what a squash into a session above another needs; two ids are
enough for one object to take the key of another.

Fairness. `WF(Step)` in `chain_switch`: a thread that holds the write lock
keeps running, and an operator starts a node that went down; nothing is assumed
of the network or of crashes. `WF(UndoAllStep \/ UndoAllDone)` in
`generic_index`: a loop under the write lock is not preempted. That a node
catches up with its peers is stated as a property of quiet states
(`QuietMeansSynced`) instead: it needs no fairness of the network, and TLC checks
it on the whole instance. Where a
deadlock could mean a stuck call, TLC checks for it; it is off where the bounds
end every behaviour, and in `block_log_crash`, because a node whose log ends in
a torn block stays down, and `ledger`, where a block may be rejected for good.

Every property of a passing run has a mutant: an operator next to the one it
replaces, marked `Mutant`, that breaks the code the way a plausible slip would,
and that TLC catches with that property.

### Findings

1. **A fork below the last irreversible block rolls the head back**
   (`database.cpp:506`). The pop loop of a switch is outside any handler. When
   a longer fork leaves the chain below the last irreversible block, the loop
   pops the reversible blocks, the fork database refuses to pop the next one,
   and `push_block` throws without putting anything back; the comment above it
   says that every partial change is unwound.
2. **A switch can fail to find its own irreversible block**
   (`database.cpp:1930`). While a new branch is applied the fork database's
   head is where popping left it. A block that makes a block of its own branch
   irreversible looks it up from there; if the old branch has a block of the
   same number, the lookup walks the wrong branch or finds nothing, and the
   assertion rejects a valid fork after sessions have been committed. A node in
   this state does not reopen without a reindex either.

Without deep forks the runs show that the properties hold. What else was met
while modelling, and where the models show it:

* **Chain.** After a rejected block the fork database's head is the removed item
  (`database.cpp:562`); a second delivery of a block of the chain then removes
  that one, and nothing that extends the chain links any more. TLC reaches this in
  `chain_switch` within ten steps; `HeadStaysInForkDb` says that a head leaves the
  fork database in no other way.
* **Block log.** `construct_index` compares positions before it reads
  (`block_log.cpp:305`); with one block both are 0, the index stays empty and
  every later append asserts. `StartBlocks = 1` shows it.
* **Production.** The header size that `generate_block` reckons with leaves out
  the bobserver's name and the extensions, its assertion on the size
  (`database.cpp:772`) comes after the session was dropped, and the producer's
  handler calls `clear_pending` in the state that its assertion
  (`database.cpp:808`) excludes: an exception written into `SessionIsPending`.
  The limit is 1333788672 bytes, so this is a boundary more than a danger;
  `SlotIsFilled` shows that the second attempt succeeds all the same. The same
  handler catches the exception for an unknown hardfork, so that such a node
  does not stop at once.
* **Pool.** A switch that fails at a later block leaves the transactions of its
  first blocks in the pool, in front of what was pending (`database.cpp:534`);
  one that conflicts with them no longer applies and is dropped, which
  `NothingDropped` allows.
* **Ledger.** Savings for the null account: `clear_null_account_balance` empties
  them while the `savings_withdraw` object is outstanding, and the assertion of
  `process_savings_withdraws` then fails at its date, in this and every later
  block; `BlockEndCompletes` names the case. `split_pay_order` and
  `split_pay_month` are not validated (`sigmaengine_operations.cpp:156-164`): an
  order above the month is paid its share until the `uint8_t` wraps, out of the
  savings that other requests of the payee brought, and month 0 divides by zero;
  either ends in a rejected block, and `BlockEndCompletes` says that nothing else
  does. `burn` does not
  look at the balance, which may go below zero, and the supply with it, against
  the `assert` of `adjust_supply` (`database.cpp:2040`).
* **Schedule.** With no bobserver that has a key the schedule is one empty name,
  and no block can be signed any more; `ScheduleComplete` names the case.
* **Accounts.** The message says that an owner is updated "once an hour"
  (`sigmaengine_evaluator.cpp:149`); the limit is five seconds, and a recovery
  looks at the last recovery only. A request outlives a change of the recovery
  account, for the rest of its day. A new owner is not validated and may be
  impossible. Nothing changes votes, so the top bobserver is the first by name.
* **Token.** `setup_token_fund` for a fund that exists takes the initial balance
  and adds it to nothing (`lost` in `TokensAccounted`). A fund that cannot pay
  the first stake that is due holds up every payment of the plugin, and requests
  may be passed over for a block because the iterator follows the one that has
  moved; `DueOnlyWaits` states both. Repeated votes on a comment raise its
  counter again.
* **Sync.** Four states in which a block never comes are named by `Waiting`. A
  block received, whose peer left before the backlog was looked at, stays there
  until another block comes. `item_not_available` takes a request off the
  connection but not out of `_active_sync_requests` (`node.cpp:2833`). A block
  that arrives while the backlog's task waits for a synopsis (`node.cpp:3342`)
  triggers nothing (`node.cpp:3370`), and the task ends without a look at it. And
  the sync loop passes over a peer from which an advertised block is outstanding;
  when that block comes only `fetch_items_loop` is triggered
  (`node.cpp:3557-3558`). With three peers a task that starts synchronising with
  one after another (`node.cpp:3213`) can come to a peer that has got a list
  since, and drop it while a reply that continues it is on its way (`overtaken` in
  `BlocksLink`). `get_item` throws an
  assertion where the p2p node expects `key_not_found`, so this code itself
  never sends that message. The connection timer leaves its loop at the first
  peer with an unanswered block request, without disconnecting it
  (`node.cpp:1395`), and it takes a peer whose last blocks are being applied for
  one in "a state we should never get into" and disconnects it
  (`node.cpp:1437`). The comment in `process_backlog_of_sync_blocks` says that
  the loop starts over; after a block that was accepted already it ends.

## 3. Proofs

Eight modules hold theorems: seven about components and `NumberFacts`, the facts
about numbers, sequences, finite sets and sums that several of them use. All
results are for every value of the constants that the named `ASSUME`s of the
modules allow: bounds are natural numbers, sets of accounts, producers and funds
are finite, periods and intervals are positive, and the values that stand for
"nothing" are not values of anything else.

`NodeProofs` is about three components, `AccountRecovery`, `TransactionPool` and
`PeerSync`, which it extends together; that is why the two latter have names like
`PoolSpec` and `SyncSpec`. What they assume of their constants is a definition
(`PoolConstants`, `SyncConstants`), which their lemmas have as a hypothesis: it
stays closed in most of the proof, and so does what the other components assume.

Each module has the same shape. The invariant that a run checks is seldom
inductive; `Inv` (and `TokenInv`, `MoneyInv`, `IndexInv`, `PoolInv`, `SyncInv`) is the
strengthening that is. `InitInv` and one lemma per action show that it is kept, `NextInv` puts
them together, a theorem derives each property from it. Action properties follow
from the invariant and the step.

Induction over data goes by a least counterexample (`NatMin`): for values defined
by recursion (`Recursion`, `Along`), trees (`ForestInduction`) and subsets
(`SubsetInduction`). Sums are the folds of the community modules. A fold adds the
elements in an order of its own; `NumberFacts` shows that the sum is the same in
every order (`AnyOrder`), calls it `Total`, and gives it the laws that the ledgers
need: what a total becomes when one value changes, when an object is inserted in
or removed from an index, when it is replaced.

| Module | Theorems | Properties proved |
|---|---|---|
| `GenericIndexProofs` | `UndoRestores`, `UndoNeverFails`, `SquashIsCausal`, `IndexImplementsHistory`, `TypeCorrect`, `RevisionsNumbered`, `IdsNeverReused` | `SnapshotsRestorable`, `UndoIsDefined`, `SquashCasesCausal`, `HistorySpec` |
| `ChainDatabaseProofs` | `Safety`, `TypeCorrect`, `UndoFollows`, `StateReplays`, `LibQuorum`, `IrreversibleStays` | `UndoFollowsChain`, `StateIsReplay`, `LibHasQuorum`, `CommittedStay` |
| `ChainDatabaseProofs` (under `Orderly`) | `ForkSafety`, `IrreversibleDurable`, `RestartStaysConsistent` | `IrreversibleIsDurable`, `RestartConsistent` |
| `BlockLogProofs` | `BlocksAreKept`, `LogImplementsAppendLog`, `IndexIsKept`, `IndexMirrors`, `ReadsFindBlocks` | `LogSpec`, `IndexMirrorsLog`, `ReadsFind` |
| `BobserverScheduleProofs` | `Safety`, `TypeCorrect`, `ProducersAreCounted`, `HardforksHaveMajority`, `SchedulesAreComplete`, `SlotsAreTimes`, `RoundsAreFair` | `ProducersCounted`, `HardforkHasMajority`, `ScheduleComplete`, `SlotsFollowTime`, `RoundRobin` |
| `NodeProofs` (accounts) | `Safety`, `RecentOwnersAreKnown`, `RecoveryIsAsked`, `OwnersOutlastTheChange` | `RecentOwnersKnown`, `RecoveryWasAsked`, `OwnersOutlastChange` |
| `NodeProofs` (pool) | `PoolSafety`, `PoolTypeCorrect`, `SessionHoldsPending`, `NoneAppliedTwice`, `ProducerFillsSlot`, `PoolDropsNothing` | `SessionIsPending`, `AppliedOnce`, `SlotIsFilled`, `NothingDropped` |
| `NodeProofs` (sync) | `SyncSafety`, `SyncTypeCorrect`, `PassedBlocksLink`, `RequestedFromOne` | `BlocksLink`, `OneRequestEach` |
| `LedgerProofs` | `PaymentsAddUp`, `TypeCorrect`, `SavingsAreCovered`, `SupplyIsAccounted`, `BlockEndsComplete` | `InstalmentsAddUp`, `SavingsCovered`, `SupplyAccounted`, `BlockEndCompletes` |
| `DappProofs` | `Safety`, `CommentsAreConsistent`, `TokensAreAccounted`, `PaymentsWaitForFunds` | `CommentsConsistent`, `TokensAccounted`, `DueOnlyWaits` |

**chainbase.** `SnapshotsRestorable` alone is not inductive: whether a further
change can be recorded without moving what the session restores to depends on
what the undo state says about ids that do not exist, on ids not being reused,
and on the keys of removed objects. `Inv` is the conjunction of these; `Defined`
(each container speaks only of objects in the right condition) is the
strengthening that carries it. `OnCreateFaithful`, `OnModifyFaithful`,
`OnRemoveFaithful` say that one change keeps `Restore` of the newest session where
it was, `MergeFaithful` that one undo of a merged state is two undos;
`ChangeStep` lifts them to the stack. `IndexImplementsHistory` is the refinement:
the differences that `generic_index` keeps implement a stack of snapshots.

**Chain database.** For every tree of blocks, whatever the outcome of each, every
order of delivery and every number of crashes. `TreeInv`: the way to a block is
the way to its predecessor and the block. `StateIn`: the state at a head is what
applying the blocks on the way to it gives, said step by step, so that one more
block, one undo or a restart keeps it; `ReplayedIs` shows that this is the
recursive `Replayed`. `UndoIn`: the sessions are the states at the blocks from
the last irreversible one to the head. `CallOK` ties the program counter of
`push_block` to them. Nothing is assumed of the fork database: a block is applied
only on the head it names. So the four theorems hold in the presence of findings
1 and 2 as well: those lose the head or a valid fork, never an irreversible block
or the state.

**Fork database and block log.** Two more properties do not hold for every tree of
blocks; the findings break them. They are theorems of the form
`Spec /\ []Orderly => []P`. `Orderly` says where the code is not on its own:

* a block that is pushed and is higher than the chain has the blocks of the log
  below it (finding 1 is a block that has not);
* a block applied in a switch makes nothing irreversible beyond the first block of
  the branch (finding 2 is a block that does);
* a block that gets as far as being applied is valid, and less than the undo
  history above the last irreversible one (after a rejected block the fork
  database's head is the removed item; with invalid blocks the two properties
  are neither proved nor claimed, and the run that checks them has none).

That the head is in the fork database and that irreversible blocks are found
(`IrreversibleFound`) follow from these conditions almost by their wording; they
are steps of the proof (`Kept`, `ToLogIs`) and not listed as results.

It allows stale forks of any age, any order of delivery and repetition, switches
back and forth, and a crash at every step, the appends to the log included.
`ForkInv` is what is inductive then. `LogChain`: block `n` of the log is at `n` and
has the blocks before it below it. `LogOK`: the chain agrees with the log, the log
reaches the last irreversible block except while it is being written, and below
the oldest session everything is in it. `Closed`: from a block above the log the
weak pointers lead down through the index; `set_max_size` keeps that, because it
forgets only what is below the last irreversible block, with one block to spare
(`SizeKeeps`). `CallAt` follows a call: while the old branch is popped the fork
database's head is the block of the new branch one above the chain's head
(`Popping`), so that there is always a living predecessor and a session to undo;
while the new branch is put on, that head stays one above the fork
(`Putting`), and what becomes irreversible is at or below it, which is why the
second condition suffices (`ToLogIs`). Stale forks may leave blocks whose
predecessors are gone, but no such block can be the higher one: its number is at
most that of the log. Under `Orderly` a switch fetches its branches
(`SwitchFacts`), the pop loop ends at the fork without an error (`ForkPop`) and
nothing is rejected (`NoReject`).

**Block log.** For any number of blocks and crashes, wherever a crash cuts the two
files. `BlocksInv`: of an open log, file and buffer together are the whole cells
up to the head, and what was flushed is in the file; a closed one is cut behind
what was flushed. The refinement of `AppendLog` follows. `IndexInv` adds the
index, and has the hypothesis `StartBlocks >= 2`: with one block
`construct_index` stops before it writes anything (see the findings), so
`IndexMirrors` and `ReadsFindBlocks` are not theorems of a log that starts so.

**Schedule.** For any number of bobservers and places and every draw of the two
shuffles. `Inv` says of the schedule that it names everybody once, of a block in
progress that it has a slot and is by the bobserver of that slot, of who signed
in this round that it had a slot in it, of the window that its counter is the
number of its ones, and of a hardfork to come that the votes last counted back it
and its time. Nothing is assumed of the votes in headers.

**Accounts.** `HistoryValid` (in the order of time, nothing outdated) makes the
loop of `account_recovery_processing`, which stops at the first entry that is
still valid, whichever account it is of, remove all that is outdated;
`ReplacedKnown` is the other half. `RequestWasAsked` and `ChangeWasWanted` tie
requests and changes to what was asked for last.

**Pool.** For any set of transactions and blocks, every order of pushes, switches
and productions. `PoolInv` says, beside the types: the states on the chain are
those its blocks make one after the other from genesis (`ChainGood`); applying
the pending transactions in order to the state at the head gives the state of
the session (`PoolGood`), unless the production has just failed on the size of
the block; and nothing is pending when a production is tried a second time. A
fold over transactions is told apart by what it has after each of them (`FoldIs`),
so that "applies in order" needs no recursion. A transaction is applied twice
only if its `transaction_object` was gone in between, which only happens when the
transaction had expired, and then it applies no more: `AppliedOnce`.
`NothingDropped` follows each transaction through `clear_pending` and the
destructor of `pending_transactions_restorer`. The assumption that a header is
no larger than a block may be (`HeaderSize <= MaxBlockSize`) is what
`SlotIsFilled` needs: the second attempt produces a block without transactions.

**Fetching blocks.** For any tree of blocks, any number of peers and of faulty ones
among them, whichever chains they follow and whenever they leave. The difficulty is that a list of ids is continued
from a synopsis that was made several messages earlier, in another task. `HeldBy`
are the blocks that the delegate has or that are about to be passed to it,
`SafeBy` adds the invalid ones that build on them. `SyncInv` has two parts.
`SyncBase` holds always: types, `OneRequestEach`, that what a peer refused is
not waited for from anyone (`RefusedApart`), that the delegate has the chain up to each of its
blocks (`HaveOK`), and that the connections a call is for, those its task comes to
later included, have not closed (`TasksOf`). `FetchOK` holds as long as no task
has called for a connection that had got a list (`overtaken`): each
connection's list links and its first block builds on a block of `HeldBy`,
and of each call that is waiting for a synopsis, and each synopsis that a peer
has not answered, the blocks are in the connection's list or in `SafeBy`. So
the first id of a reply that fits the synopsis continues the list or begins one
anew, and taking blocks out of the front, in whatever order they arrive, passes
them in an order that links (`BlocksLink`). A task that goes on to its next call is one
lemma (`GoOnFacts`) for the three tasks that do. `SyncConstants` has that a reply
holds more than one id, that the ways to the blocks are those of a tree, and that
nothing builds on an invalid block: whoever produces a block has applied the one
below. Under `FetchOK` only invalid blocks are ever rejected, which is part of
the argument.

**Ledger.** `Inv`: requests are on schedule, no two have the same key, and the
iterator of `process_savings_withdraws` is a request or the end; `BeginPoints`
derives from the unique key that the index has a first element, `NextOnSchedule`
is the arithmetic of one instalment, modulo 256 (`OneMorePaid`), and
`ScheduleFacts` that of a request on its plan, whose order does not wrap
(`NoWrap`) and whose shares do not exceed its total (`SharesFit`). Sums are over
integers; where no request of a payee is off its plan all of them are natural,
and one is not more than their sum (`OwedCovers`). `MoneyInv` relates the sums: supply, balances,
savings, funds and stakes; savings and requests; fund_withdraw_ready and stakes;
and `Looping` says that the loop has not passed a request without a first payment. `SupplyAccounted`
is kept by every round of every loop, hence also by a block that stops half way.

**Plugins.** The comments are a forest (`Forest`) in which the ancestors of a
comment are those of its parent and the parent; a comment's counter is the
number of comments that have it above them (`Counted`), which one new or deleted
comment changes for exactly its ancestors. `TokenInv` relates the sums as in the
ledger, and adds what `DueOnlyWaits` is about: both indexes are in the order of
their dates (`Ordered`, which insertion and `modify` keep), a request has left what
its schedule says (so no payment exceeds the savings), and the iterator of the
savings' loop is at the beginning or just behind a request paid in this block
(`Waiting`).

Only model-checked:

* Liveness (`UndoAllEnds`, `CallsReturn`), which is out of the prover's reach.
* `PushUnwinds` of the chain database. Finding 1 breaks it, and under `Orderly`,
  where no block fails half way, it would say nothing of the unwinding. The
  passing run that checks it has invalid blocks and no deep forks.
* `HeadStaysInForkDb` of the chain database, which is about rejected blocks; the
  invariant of the fork database that is proved (`ForkInv`) is under `Orderly`.
* `QuietMeansSynced` of the sync conversation. It says that something still
  happens; an inductive invariant would have to name, for each peer in each
  state, what brings the next request about.

## 4. Not modelled

* Checkpoints and skip flags (push_block is called with the node's defaults).
* In `ChainDatabase`, the content of blocks: whether a block applies. Money is
  `Ledger`, the pool `TransactionPool`, the schedule `BobserverSchedule`, accounts
  `AccountRecovery`; each sees the others' blocks only as steps of its own.
* Torn writes within the shared memory file, and a crash within one block of a
  reindex (applied without a session).
* `_unlinked_index` and `_push_next`: the insert follows a `throw`, so the cache
  is always empty. The comment above `push_block` says otherwise.
* The read/write lock manager of chainbase. After a timeout `next_lock` constructs
  the next of ten mutexes anew and the writer goes on while the holder of the old
  one is inside: no exclusion holds from then on, and the repository claims none.
  Before a timeout the exclusion is that of boost.
* Of the p2p node: the handshake and the firewall check, the inventory of
  transactions, the peer database, what it serves to others. In `PeerSync` no
  block becomes irreversible, so the answers for blocks older than the undo
  history are not reached, and the list of hard fork blocks, empty in this
  application, is left out.
* In `TransactionPool`, the assertion of `clear_pending` (`database.cpp:808`),
  which the producer's handler violates as said above; in `GenericIndex`, a
  `modify` that changes a unique key to one in use, which no index of this node
  is used for.
* Authority checking (`sign_state`), a recursion without state; the active and
  posting authorities; `decline_voting_rights`, whose request nothing processes.
* Wallet, query APIs, history plugins, schema, utilities, fc: no protocol of
  their own (see `components` in `PROJECT.json`).

## 5. Plan

What is left, in order of importance.

1. **PeerSync**: `QuietMeansSynced` for any number of peers.
2. **ChainDatabase**: `PushUnwinds`, and the theorems that assume `Orderly`, for
   trees with invalid blocks: the fork database's head is then a removed item,
   and `ForkInv` has to say what may follow on it.
3. **Irreversibility** across nodes: several chain databases and one network;
   under which share of honest bobservers two nodes agree on irreversible
   blocks.
