# Verification of the Super-Pi chain

TLA+ models of the consensus core of this repository, the PIC node under
`libraries/`: the object database with its undo history, the chain database that
applies blocks, switches between forks and restarts from disk, the pending
transactions, the transactions a block producer inserts (incentives and
deflation), the witness schedule, and the way a node fetches blocks from its
peers. The models are checked with TLC on small instances; every safety property but
one is also proved with TLAPS, for every instance or for every instance that
meets a stated condition.

## 1. Inventory

The repository holds a Graphene-derived C++ node (`libraries/`, `programs/`,
`tests/`) and a large collection of separate programs (`contracts/`,
`packages/`, `src/hyper_core/`, `apps/`, `governance/`, ...) that the node
neither builds nor calls. This project is about the node.

| Component | State | Operations | Interacts with |
|---|---|---|---|
| Object database and undo history (`db/`) | one primary index per object type with its next free instance; `_stack` of `undo_state`, `_active_sessions`, `_max_size`, `_disabled` | create, modify, remove; start_undo_session; undo, merge, commit of a session; pop_commit; set_max_size; enable, disable | every evaluator writes through it; blocks, pending transactions, transactions and proposals are sessions |
| Fork database (`chain/fork_database.cpp`) | `_index` of items linked by weak pointers, `_head`, `_max_size` | push_block, pop_block, set_head, remove, fetch_branch_from, set_max_size, start_block, reset | push_block of the chain database asks it which fork to follow |
| Block log (`chain/block_database.cpp`) | index file: number -> (id, position, size); block file | store, remove, contains, fetch, last, last_id | filled by push_block, emptied by pop_block and close, read by open and reindex |
| Chain database, blocks (`chain/db_block.cpp`, `db_management.cpp`, `db_update.cpp`) | head, irreversible block | push_block, pop_block, open, close, reindex | all of the above |
| Pending transactions (`chain/db_block.cpp`, `db_with.hpp`) | `_pending_tx`, `_pending_tx_session`, `_popped_tx`, the list of known transactions | push_transaction, push_proposal, generate_block, the restorer around push_block | sessions of the object database, fork switches, system transactions |
| Start and stop (`app/application.cpp`) | flags on disk | startup with or without replay, shutdown, kill | open, close, reindex |
| Witness schedule and production (`chain/db_witness_schedule.cpp`, `plugins/witness`) | shuffled witnesses, slots, participation | update_witness_schedule, get_scheduled_witness, maybe_produce_block | generate_block, maintenance |
| Construction capital and incentive (`chain/construction_capital_evaluator.cpp`, `incentive_evaluator.cpp`, `db_incentive.cpp`) | capital objects, votes, a summary | create, vote, incentives inserted by the producer or held by any transaction | generate_block, pending state |
| Deflation (`chain/deflation_evaluator.cpp`, `db_deflation.cpp`) | deflation object with cursors, one record per account and order | initiate, account and order steps over several blocks | generate_block, transfers, limit orders |
| Proposals, maintenance, markets, assets, vesting, withdraw permissions, accounts, committee, workers, confidential transfers | objects of the database | evaluators | object database |
| Network (`net/node.cpp`) | peers, lists of ids, requests, backlog | item fetching, sync of block ids, inventories | handle_block and the synopsis of `app/application.cpp` |
| APIs, wallet, history plugins | caches, subscriptions, files | requests, observers | read the chain database |

What is hard here, and what the properties are for (the full list, line by
line, is `hazards` in `PROJECT.json`; what remains is in section 7):

* the undo history keeps differences, not copies: one record per object and
  session must survive every order of create, modify, remove, nested undo and
  merge; identifiers are handed out again after an undo; writes made while undo
  is disabled are missing from the levels below;
* three histories (undo stack, fork database, block log) are cut, popped and
  extended in several steps of one call, any of which may throw;
* the head of the fork database and the head of the state are different
  variables that usually, but not always, agree;
* blocks come late, twice, out of order, on several forks, and invalid;
* a shutdown pops blocks from everything, a kill leaves the log with its buffers
  unwritten; the next start decides from what is left whether to replay;
* pending transactions are applied again and again, each time in a state they
  were not written for, and are dropped silently when they fail;
* incentives and deflations are spread over many blocks. Their operations are
  computed in one state and applied in another, users act in between, and one
  operation that fails stops all of them. The same operations may stand in an
  ordinary transaction, with checks of their own only;
* the guards against a minority fork stop every producer at once, and only a
  block could release them;
* the network code runs as fibers: while one waits for the delegate, others go
  on with lists and requests that it has read.

The chain database runs in one thread: `push_block`, `push_transaction` and
`close` run to completion. The interleavings are those of the calls, and of the
loops inside a call with the exceptions that leave them. The network code runs
in a thread of its own and calls the chain database in the other.

## 2. Modules

| Module | Models | Sources |
|---|---|---|
| `UndoDatabase` | the undo history, its sessions, create/modify/remove of the primary index | `undo_database.cpp`, `undo_database.hpp`, `generic_index.hpp`, `index.hpp` |
| `SnapshotStack` | what the undo history promises: a stack of complete snapshots | abstract |
| `ChainDatabase` | `_push_block` with fork switch and restore, `pop_block`, the fork database, the block log and its buffers, `close`, a kill, `open`, `reindex`, the irreversible block | `db_block.cpp`, `fork_database.cpp`, `block_database.cpp`, `db_management.cpp`, `db_update.cpp`, `application.cpp` |
| `PendingTransactions` | `push_transaction`, the restorer of pending and popped transactions, `generate_block`, duplicates and expiry | `db_block.cpp`, `db_with.hpp`, `db_update.cpp` |
| `ConstructionCapital` | capitals, votes, the incentive transaction | `construction_capital_evaluator.cpp`, `incentive_evaluator.cpp`, `db_incentive.cpp` |
| `Deflation` | a deflation over many blocks, with trade in between | `deflation_evaluator.cpp`, `db_deflation.cpp`, `transfer_evaluator.cpp`, `market_evaluator.cpp`, `db_market.cpp` |
| `WitnessSchedule` | slots, shuffle, participation, irreversible block, production | `db_witness_schedule.cpp`, `db_update.cpp`, `db_maint.cpp`, `witness.cpp` |
| `NetworkSync` | how a node fetches ids and blocks from its peers | `node.cpp`, `peer_connection.cpp`, `application.cpp` |
| `UndoDatabaseProofs`, `ChainDatabaseProofs`, `PendingTransactionsProofs`, `ConstructionCapitalProofs`, `DeflationProofs`, `WitnessScheduleProofs`, `NetworkSyncProofs` | theorems about the modules of these names | |
| `NumberLemmas` | what they share: least and largest numbers, ranks, division, sums over finite sets, recursions and folds over sequences | |
| `MC...` | instances for TLC | |

Each layer takes the one below by its promise. `ChainDatabase` represents the
undo stack by the states its levels go back to, which `RollsBackToSnapshots`
justifies. `PendingTransactions` takes fork switches, completed or failed, at any
time and of any blocks, which is more than `ChainDatabase` allows; its system
transaction stands for those of `ConstructionCapital` and `Deflation`. Those two
assume that blocks go on being produced, which is `NeverStops` of
`WitnessSchedule`. `SyncSpec` of `ChainDatabase` assumes that linkable blocks
keep arriving, which is what `NetworkSync` is about.

Definitions under a comment that begins with "Mutant" are plausible bugs:
replacing the definition that follows by one of them must make TLC report the
property it is paired with in `PROJECT.json`. They are used by nothing else.

### UndoDatabase

`store` and `next_id` are the primary indexes; `stack`, `active_sessions`,
`max_size`, `disabled` are the members of `undo_database`; `disable_on_exit` is
the flag of the session that forced undo on. The maps of an `undo_state` are
total functions with `None` for "no entry"; an object is its identifier and a
value. Two history variables record what the code does not have: `saved`, the
state when each level was pushed, and `stale`, how many of the lowest levels
missed changes because undo was disabled.

| Action | Code |
|---|---|
| `create`, `modify`, `remove` | `primary_index` calling `on_create`, `on_modify`, `on_remove` |
| `start_undo_session` | the same, including the forced form of `push_proposal` and the trim to `max_size` |
| `undo`, `merge`, `commit` | the same, together with the destructor of the session |
| `pop_block` | `pop_commit` where its only caller calls it |
| `set_max_size`, `disable`, `enable` | the same |

Guards that come from callers, not from the function itself: only
`push_proposal` starts a session while undo is disabled; `disable` is called on
a freshly opened database (`init_genesis`, `reindex`); only the session of
`apply_block` is committed; `pop_block` does not reach a level that a replay
left behind, because the fork database cannot be popped below the block it was
started with. How deep sessions nest is bounded by `MaxNesting` in the model
only: a proposal that approves another one executes it, and each execution opens
a session (`db_block.cpp:271`). No assumption relates this bound to the size of
the history. A `modify` whose modifier throws is left out (section 7).

`SnapshotStack` is refined with `saved` above the `stale` levels as the stack of
snapshots: `RollsBackToSnapshots` says that `undo` and `pop_commit` go back to
exactly the state of the start of the session, that `merge` and `commit` leave
the state alone, and that trimming forgets only the oldest snapshots. Which of
them belong to open sessions is not in it; that is `ActiveLevelsKept`.

### ChainDatabase

A block is the sequence of the contents on its branch, so that its id
determines its ancestors as a hash does; `Valid` says which blocks apply to the
state of their parent. The state of the database is represented by the block it
is the result of. `fork_db` has the index, the head, the items whose weak
pointer is empty or expired (`dead`), and the same flag for the head (`cut`),
which may be an item the index no longer has. `log` maps a number to the id and
the block of the entry of the index file. `disk` is what of it is not yet in the
files: the entry changed last with what it was before, the block stored last,
and whether the stream of the blocks has failed.

Both files of the log are buffered and written at the next seek, the index at
the next question for a block, the blocks when the next one is stored. `crash`
kills the process at any point, in the middle of a switch too; the log is then
one of `OnDisk`: with or without the last change of the index, and with or
without the data of the last block (`Torn`). The kill is one of the process and
not of the machine, so older writes are safe, and a start is not interrupted. A
read beyond the end of a file leaves its stream in the failed state; after that
reads throw and writes do nothing, without an exception.

The loops of a fork switch are separate steps so that an exception can leave
them in the middle; `task` says which loop runs. `push_transaction(k)` stands
for a call that opens the pending session with `k` sessions nested in it (1: a
transaction, 2: with a proposal) and for everything that follows until the next
block, which discards the pending session: its lasting effect is the levels
that were dropped.

Left out: checkpoints, the debug interface, and the unlinked index of the fork
database, which is never filled because `push_block` rethrows before it inserts.

Three specifications: `RunningSpec` (from the first start to the first
shutdown), `Spec` (with shutdowns, kills, restarts and
replays), `SyncSpec` (peers that
send blocks in order and again until they are taken).

### PendingTransactions

`chain` is the blocks with the state after each, `pending` is `_pending_tx`,
`session` is `_pending_tx_session` (none, or the pending state), `fork` a switch
in progress with `_popped_tx` and the pending transactions the restorer holds. A
transaction is what it needs and what it makes, its expiration, the block it
refers to and its size, so that transactions build on each other, compete,
expire, and depend on a fork. The system transaction needs the current turn,
`<<"slot", k>>`, and makes the next one. A transaction of a user has nothing to
do with turns or takes one, as `incentive_operation` and
`account_deflation_operation` need nobody's authority (`TurnAssumption`).

| Action | Code |
|---|---|
| `push_transaction` | `_push_transaction`; the session stays open if the transaction fails |
| `push_block`, `push_block_ignored` | `push_block` inside `without_pending_transactions`, for a block that extends the head, and for one that is refused or only stored |
| `switch_forks`, `push_fork_block`, `fork_block_fails` | the loops of a switch; popping a block queues its transactions; after a failure those of the new fork go in front |
| `generate_block` | `_generate_block`: system transactions first, by their operations alone, then what is pending and fits; a block that is too large throws after the session is gone; any other is pushed |

Left out: `push_proposal`, and the change of a transaction's size between push
and inclusion.

### ConstructionCapital

`capitals` are the capital objects in the order of their ids, `votes` the pairs
voted, `summary` the summary object, `ops` the rest of the incentive transaction
that is being applied and `session` what its session goes back to. `paid` is a
history of what the owner got.

| Action | Code |
|---|---|
| `create`, `vote` | the two evaluators, evaluation and application |
| `update_issuance_rate` | the outcome of the vote count at a maintenance: any rate |
| `produce_block` | the end of a block, and `generate_incentive_transaction` for the next: due slots, then pending periods, up to the limit |
| `incentive`, `incentive_fails` | `incentive_evaluator` for each operation of this transaction (`do_apply`), and the handler in `_generate_block` that drops the whole transaction |
| `incentive_of_transaction` | the same evaluator for an operation of any other transaction: the fee payer is the temporary account and `validate` is empty |

The evaluator asks for a slot that is due with reason 0, for a pending period
with reason 1, and for neither with another reason; it takes a pending period
with every reason but 0. The periods are 16-bit counters (`Uint16`), so one that
is taken while none is pending leaves 65,535.

Whether an owner can pay, the instant payback and the collecting accounts are
left out with all other balances. `real128` is exact up to the truncation.

### Deflation

`dflt` is the latest `deflation_object`; `accounts` and `orders` hold the
`account_deflation_object` and `order_deflation_object` of each id; `ops` is the
rest of the deflation transaction and `session` the state it is undone to if one
of its operations throws. Amounts are replaced by `charged`: how often the
running deflation has taken its part. `strayed` is a history variable: an order
operation of this deflation named an order whose turn it was not.

| Action | Code |
|---|---|
| `deflation` | `deflation_evaluator`; only when the one before is over |
| `create_account` | a new account, later than `last_account` |
| `transfer` | `transfer_evaluator`: both sides are charged before their turn |
| `limit_order_create` | `limit_order_create_evaluator` with `apply_order`, `fill_order` and `maybe_cull_small_order`: which orders are filled is a choice |
| `limit_order_cancel` | `limit_order_cancel_evaluator` and `cancel_order`, for the owner and for `clear_expired_orders` |
| `produce_block` | `generate_deflation_transaction` |
| `apply_account_deflation`, `apply_order_deflation`, `deflation_fails` | `apply_deflation`, operation by operation with the two evaluators (`account_deflation`, `order_deflation`), and the handler in `_generate_block` |
| `account_deflation_of_transaction`, `order_deflation_of_transaction` | the same evaluators for an operation of any other transaction |

An account operation has to name the account at the cursor, so in another
transaction it does what the producer's would do. An order operation is
evaluated with neither the cursor nor `last_order` and sets the cursor behind
its order.

### WitnessSchedule

All counters are kept relative to the head block or modulo `Cycle`, a multiple of
every number of active witnesses there is, so that behaviours need no bound. One
action, `produce_block`, is the
scheduled witness producing (`maybe_produce_block`) and the part of
`_apply_block` that follows: missed slots and `recent_slots_filled`, the ages of
the witnesses' last blocks, the irreversible block, the maintenance flag and
time, and the new schedule. The witnesses in `down` never produce. The votes,
which decide who is active and how many are, and the shuffle are choices.
`turns`, `passedOver` and `resized` are history variables: whose slots have
passed in this round, who had none in the one before, and whether the number of
active witnesses has ever changed. A change of the number ends what `turns`
counts for that round, since the block numbers are then divided by another
number; the next round counts again.

### NetworkSync

`conn` is the `peer_connection` of each peer (list of ids to get, ids being
processed, number of unfetched ids, the synopsis last sent, blocks asked for in
sync and in normal operation); `active`, `received`, `fresh`, `accepted`,
`items`, `suspended` are the members of `node_impl`; `calls` the calls of the
delegate that wait or have returned; `wake` the triggered loops; `out` and `in`
the messages of each connection.

| Action | Code |
|---|---|
| `OnIds`, `OnSynopsis`, `OnInventory`, `OnBlock`, `OnMissing` | the message handlers; the last is `on_item_not_available_message` |
| `FetchSyncItems`, `FetchItems`, `ProcessBacklog` | the three loops |
| `DelegateHandles` | `handle_block`, in the other thread |
| `SyncAccepted`, `SyncRejected`, `NormalAccepted`, `NormalUnlinkable`, `NormalRejected` | what a fiber does when its call has returned |
| `ClosingEnds`, `ConnectionLost`, `Reconnect` | `on_connection_closed` after a disconnect, a lost or timed-out connection, `new_peer_just_added` |
| `PeerReplies`, `PeerAdvances` | the peers: the same code in the role of the server, and new blocks at a peer |

`MaxLost`, `MaxAdvances` and `MaxMissing` bound, for each peer, how often its
connection is lost, how often it gets a new head, on the same fork or another,
and for how many blocks it answers that it lacks them. A peer that runs this
code sends no such answer for a block, as `get_item` asserts where
`key_not_found` is expected (`application.cpp:640`); another may. `denied` is a
history variable: the blocks of the sync that were answered so. If the
delegate throws while it makes a synopsis (it lacks the block the synopsis goes
up to), the exception ends the read loop of the connection: its state is
"failed" and `ClosingEnds` does the rest. `TreeAssumption` says that every block
goes back to a first one, as hashes do.

A handler is one step except where it waits for `handle_block`; the short
questions it puts to the delegate are part of the step. The peers are ahead of
the node, so it never serves blocks itself. Transactions, addresses, hello
messages, timestamps and expiry are left out.

## 3. Runs

| Run | Instance | Shows |
|---|---|---|
| `undo_levels` | 1 type, 2 instances, 2 values, 4 nested sessions, history of 2 | `EveryLevelRestores`, `RevertNeverThrows`, `ActiveLevelsKept`, `MergeIsCausal` (the asserts of `merge` hold), and the refinement `RollsBackToSnapshots` |
| `chain_sync` | `Partition`: a trunk of 2, two forks of 3, each signed by one witness, all valid, delivered in order and repeatedly | `BlockLogMatches`, `CatchesUp` |
| `chain_invalid` | `Spoilt`: the same with an invalid block on each fork | `SwitchCompletes`, `LevelsLeadBack`, `LongestForkFollowed` |
| `chain_restart` | `Wild`: two first blocks, forks at two heights, invalid ends; shutdowns, kills at any point, restarts and replays | `ChainIsValid`, `RestartStaysOnFork` |
| `chain_window` | `Long`: two forks of 5 with irreversible blocks on the way | `SwitchStaysInWindow` |
| `pending` | 4 transactions, chain of up to 3 blocks, switches of up to 2, a second system transaction that is too large | `NoTransactionTwice`, `GeneratedBlockApplies`, `SessionRecreated`, `CulledOnlyIfInvalid` |
| `capital` | 2 capitals of two kinds, time up to 4, 3 operations per block, incentives of every reason in other transactions | `SummaryMatches`, `VotePointsConserved`, `PrincipalReturned`, `OnlyClashStops` |
| `deflation` | 1 account and another one created later, 3 orders, 2 deflations, 2 operations per block, account and order operations in other transactions | `ChargedAtMostOnce`, `TransactionApplies`, `ClearedMeansAll`, `AccountsCleared` |
| `witness_schedule` | 4 witnesses of which 3 or only 1 are active, at most one down | `EveryoneHasTurn`, `IrreversibleFollows`, `NeverStops` |
| `network_sync` | 2 peers on forks of 3 blocks and of 4, one of them invalid; one peer goes on along its fork or changes to the other and may lack a block it listed, the connection to the other may be lost | `RequestsMatch`, `SyncInOrder`, `SuspensionEnds`, `ListsFollow` |

Every module's `TypeOK` is checked in one run of the module.

Two runs show that the code does not do what its comments say; the findings in
`PROJECT.json` quote the lines.

| Run | What TLC finds |
|---|---|
| `deflation_stuck` | `DeflationFinishes` is violated: if the last order is filled or cancelled before its turn, the code notes the end of the orders in the pending state, which is discarded, so that the deflation never ends and no other can be issued (`db_deflation.cpp:58`) |
| `sync_stuck` | `SyncEnds` is violated: a block fetched a second time while the first copy is with the delegate is dropped without the bookkeeping of an accepted block, so that the synchronization with that peer never ends (`node.cpp:3270`) |

### Bounds

* Undo: two instances and two values are enough for an object to be created,
  modified, removed and its identifier handed out again next to another object;
  a history of two levels makes the trim bite at every start of a session, and
  four nested sessions (pending, transaction, a proposal and one it approves)
  are one more than such a history keeps. 186,162 states. The theorems remove
  these bounds.
* Chain: two forks of three blocks let each overtake the other, with a switch
  of up to three blocks back; two witnesses put the irreversible block at the
  end of the trunk of `Partition` on one fork and a block below it on the
  other. There no witness signs on both forks behind the trunk, so that the
  irreversible block does not move along them; in `Wild` and `Long` the
  witnesses sign on all forks, and it does. `InitialMax = 10`
  is larger than every height, as the initial sizes (1024, and
  `GRAPHENE_MIN_UNDO_HISTORY` = 10) are for a young chain; after the first block
  the sizes are the code's own.
* Pending: the transactions are a payment, one that spends what it makes and
  refers to a block of one fork, one that competes with the first, and one that
  needs nothing, so that only the list of known transactions keeps it from being
  applied again. Time goes past each expiration. A switch pops up to two blocks.
* Capital: two capitals, equal or of different size and period, let votes bring
  forward no, one and several periods and leave points over; the limit of 3
  operations is below what they can have due; the amounts do not divide evenly.
  Of the reasons other than 0 and 1 one is enough, as the code treats them
  alike. 277,800 states.
* Deflation: two deflations show marks left behind by the first; the limit of
  operations makes both parts take several blocks; with three orders an order
  operation out of turn can leave one out, come back to one, and name one behind
  the last. 500,673 states.
* Witnesses: 3 active of 4 let the vote bring in a witness that has not
  produced; with a threshold of 66% one may be down. The vote may also leave a
  single witness, and return to three. The maintenance interval is one slot
  longer than a round, and shorter with missed slots. `Window = 4` and
  `MaxUndo = 8` are small versions of 128 and 10,000, which makes both guards
  easier to hit. 73,709 states.
* Network: the tree is a1-a2-a3 and a1-b2-b3-b4 with b3 invalid; one peer starts
  at a2, the other at b2. The first may then tell of a3, which is accepted, of b3,
  which is refused, or of b4, which does not link. Replies of two ids overlap and
  come in several batches; each peer may be asked for two blocks at a time and the delegate may
  have two; a backlog of one block suspends fetching. The first peer may change
  forks once and answer once that it lacks a block, the connection to the other
  may be lost once, at any point of a request. 1,057,632 states.
  The theorems remove these bounds. `sync_stuck` has two peers on one chain and
  no faults at all.
* Symmetry: values and types in `undo_levels`, witnesses in `witness_schedule`,
  where only invariants and one refinement without liveness are checked; no
  other run uses it.

### Fairness

* `chain_sync`: weak fairness of the loops of a switch, which are plain loops of
  one function, and of the delivery of each block whose parent the node has,
  which is what the sync protocol does. Nothing is assumed about the order in
  which forks are sent or how often a block is sent again.
* `capital`, `deflation`: weak fairness of `Chain`, which is that blocks go on
  being produced, each with its system transaction. Users need not act.
* `sync_stuck`: weak fairness of `Works`, which is that ready fibers run, the
  delegate's thread runs, and peers answer. Connections need not be lost and
  chains need not grow.

`network_sync` has no deadlock check: a node that has fetched everything waits.
Neither has `witness_schedule`: where a vote leaves only the witness that is
down, production really stops. That it goes on while the number of witnesses
does not change and few enough are down is the invariant `NeverStops`.

## 4. Proofs

A theorem holds for every value of the constants that the assumptions of its
module allow. Each proof module has an inductive invariant of its own, which TLC
checked on the instance of the run before it was proved, one lemma for each
action that preserves it, and the properties as consequences. Induction over
numbers goes by the least counterexample (`LeastNumber`), since the induction
rules of the library cannot be applied by the provers.

| Module | Theorem | States |
|---|---|---|
| `UndoDatabaseProofs` | `Invariance` | `Spec => []IInv` |
| | `TypeCorrectness` | `Spec => []TypeOK` |
| | `LevelsRestore` | `Spec => []EveryLevelRestores` |
| | `RevertsSucceed` | `Spec => []RevertNeverThrows` |
| | `MergeCausality` | `Spec => []MergeIsCausal` |
| | `OpenSessionsKeepTheirLevel` | `Spec => ActiveLevelsKept` |
| | `Refinement` | `Spec => RollsBackToSnapshots` |
| `ChainDatabaseProofs` | `CoreInvariance`, `LogInvariance` | `Spec => []CoreInv`, `Spec => [](CoreInv /\ LogOnFork)` |
| | `TypeCorrectness` | `Spec => []TypeOK` |
| | `ValidChain` | `Spec => []ChainIsValid` |
| | `HistoryLeadsBack` | `Spec => []LevelsLeadBack` |
| | `RestartsStay` | `Spec => RestartStaysOnFork` |
| | `BlockLogHolds` | `RunningSpec /\ []HistoryReaches => []BlockLogMatches`, unless a switch is restored |
| | `SwitchesComplete` | `RunningSpec /\ []HistoryReaches /\ []UnwindPops => SwitchCompletes` |
| | `ValidForksComplete` | valid blocks imply `RunningSpec /\ []HistoryReaches => SwitchCompletes /\ []BlockLogMatches` |
| | `HistoryLasts` | `IrreversibleShared` and `Nested \subseteq {1}` imply `RunningSpec /\ []NoSwitchFails => []HistoryReaches` |
| | `SharedForksComplete` | these and valid blocks imply `RunningSpec => SwitchCompletes /\ []BlockLogMatches` |
| | `SharedForksLongest` | the same imply `RunningSpec => []LongestForkFollowed` |
| | `SyncStaysOnLongest` | the same imply `SyncSpec =>` all three |
| | `SwitchesStayInWindow` | valid blocks imply `RunningSpec /\ []HistoryReaches => []SwitchStaysInWindow` |
| `PendingTransactionsProofs` | `Invariance` | `Spec => []IndInv` |
| | `TypeCorrectness` | `Spec => []TypeOK` |
| | `NobodyTwice` | `Spec => []NoTransactionTwice` |
| | `OwnBlockApplies` | `Spec => []GeneratedBlockApplies` |
| | `SessionIsRecreated` | `Spec => SessionRecreated` |
| `DeflationProofs` | `Invariance` | `Spec => []IndInv` |
| | `TypeCorrectness` | `Spec => []TypeOK` |
| | `NobodyPaysTwice` | `Spec => []ChargedAtMostOnce` |
| | `TransactionsApply` | `Spec => []TransactionApplies` |
| | `ClearedReachedAll` | `Spec => []ClearedMeansAll` |
| `WitnessScheduleProofs` | `Invariance` | `Spec => []IndInv` |
| | `TypeCorrectness` | `Spec => []TypeOK` |
| | `NobodyPassedOver` | `Spec => []EveryoneHasTurn` |
| | `IrreversibleKeepsUp` | `SlowChurn` implies `Spec => []IrreversibleFollows` |
| | `HistorySuffices` | `SlowChurn` and a history of more than two rounds imply `Spec => [](~resized => Undoable)` |
| | `ParticipationSuffices` | `SparseOutage` implies `Spec => [](~resized => Participating)` |
| | `ProductionGoesOn` | all three imply `Spec => []NeverStops` |
| `ConstructionCapitalProofs` | `Invariance` | `Spec => []IndInv` |
| | `TypeCorrectness` | `Spec => []TypeOK` |
| | `SummaryIsTrue` | `Spec => []SummaryMatches` |
| | `PointsConserved` | `Spec => []VotePointsConserved` |
| | `PrincipalComesBack` | `Spec => []PrincipalReturned` |
| `NetworkSyncProofs` | `Invariance` | `Spec => []IndInv` |
| | `TypeCorrectness` | `Spec => []TypeOK` |
| | `RequestsAgree` | `Spec => []RequestsMatch` |
| | `SuspensionIsLeft` | `Spec => []SuspensionEnds` |
| | `ListsAreChains` | `Spec => []ListsFollow` |
| | `SyncStaysInOrder` | `Spec => []SyncInOrder` |

### Undo history

Assumptions: `NoneAssumption` (None is no value and no number) and
`BoundAssumption` (the bounds are naturals, and a history has at least one level;
`update_global_dynamic_data` never sets less than two). The depth of nesting is
unrelated to the size of the history.

`EveryLevelRestores` alone is not inductive: that a level
restores its state now does not say it still does after a merge or after the
next write. `IInv` says for each level what it must contain relative to the
state below it and the state above it (`Fits`): a new object is absent below
and present above, an old value is the value below of an object present above,
a removed one the value below of an object absent above, everything else is the
same in both; and next free instances only grow (`WellFormed` ties them to the
objects). Each write keeps `Fits` of the top level (`CreateFits`, `ModifyFits`,
`RemoveFits`), a revert of a level that fits gives the state below
(`RevertRestores`), and the composition of two levels that fit fits between the
outer states (`MergeFits`). A level that missed changes because undo was
disabled keeps only `Remnant`: what it mentions is older than the next free
instance, and what it removed is still absent, which is what keeps `merge` out
of the N/A cells (`MergeRemnant`). `Refinement` follows action by action: the
initial state maps to one of `SnapshotStack`, and by `RevertRestores` every step
to a step of it or a stutter.

`ActiveLevelsKept` is a property of steps, as no invariant says it: once more
than `max_size + 1` sessions are open the trim has taken the level of the
outermost, and it stays taken. The theorem says that this is the only way: while
each open session has its level, a step after which no more than `max_size + 1`
are open leaves one for each. `EveryLevelRestores`, `RevertNeverThrows`,
`MergeIsCausal` and the refinement hold also with deeper nesting, of the levels
there are.

### Chain database

Assumptions: `BlocksAssumption` (the blocks are a finite set of sequences that
is closed under parents, and the names used for "no block" and "unreadable" are
no blocks), `WitnessAssumption`, `NestedAssumption` and `InitialMaxAssumption`
(types and ranges of the other constants).

`CoreInv` has the types, the validity of every state on the undo history and of
the head, that the levels lead back one by one, and of a switch under way that
its origin is valid and its target above the head. `RestartStaysOnFork` needs
what the log can bring back. `LogOnFork` says that everything readable in it is
on the branch of the head, where the entry that is not written yet may bring
back the child of the head that was popped last; or that the stream has failed
after a start, and what is readable belongs to an older fork above the head with
an unreadable entry behind it, which ends every replay before it begins. After a
kill it says that the readable blocks are on one valid branch that the head is
on, or next to. The two interact: only because a restored block is stored under
a wrong id (`db_block.cpp:184`) is it unreadable instead of misleading.

The other theorems are about a node from its first start to its first shutdown
(`RunningSpec`). They hold under conditions without which the code does not keep
the properties (section 5), each condition in the theorems that need it:

* `HistoryReaches`, of the behaviour: `pop_block` finds the undo level of the
  block it pops.
* No restore, for the log, as a restored block is stored under a wrong id; and
  `UnwindPops`, for the completion of a switch that fails: the fork database can
  be cut while the new fork is applied, and `pop_block` then throws on the way
  back.
* `Valid = Blocks`: all blocks are valid, and no switch fails.
* `IrreversibleShared`, of the tree: of two forks, the block that was
  irreversible on one before its newest block is on the other one too. It is
  what a partition gives that leaves neither side enough witnesses to make a
  block behind the fork point irreversible, if no witness signs on both sides.
  `Nested \subseteq {1}`: pending transactions open one session, no
  proposal opens three.

With the last three nothing is assumed of the behaviour. The instance of
`chain_sync` meets them, and so do the larger trees that were tried.

The invariants, in the order in which they rest on each other:

* `LogHolds`: each block up to the head is in the log under its own number and
  id, during a switch as well as between two calls, and its streams work, so
  that each new entry can be written.
* `SwitchInv`: where a switch is. The state is on the old fork above the fork
  point while it pops, on the new one while it applies (`OnTheWay`); the head of
  the fork database goes down the new fork as the state goes down the old one,
  and it can trace both (`ForkFollows`); an item that is not dead has its
  previous item in the index (`LinkedDown`), which is why a switch that was
  begun does not fail for want of an item. So `pop_block` throws before the
  first block or not at all.
* `DeepInv`: the levels of the undo history reach down to where any fork parts
  from this one, also once a further block or a pending session has dropped the
  lowest, and during a switch for the new fork already. It gives
  `HistoryReaches`.
* `FollowInv`: between two calls no block in the index is higher than the head,
  and dead items are not above the first block behind a fork point. The fork
  database can therefore always trace the way to a higher fork, and a switch is
  to a block one higher than the head.
* `WindowInv` needs no condition on the tree. There a fork can be left higher
  than the head, but then it is out of reach (`OutOfReach`: the head was cut
  off, or a dead item is on the way), and stays so: a head that was cut off is
  too low to be pushed again. A switch thus begins with a block that moves the
  head of the fork database, for which the index was just cut to the size that
  the head needs.

TLC checked `FollowInv` and `DeepInv` on the instance of `chain_sync` and on trees
with up to 4,044 states, `WindowInv` on the instance of `chain_window` and on
trees with up to 3,900 states in which witnesses sign on several forks, cut off
where `HistoryReaches` fails.

### Pending transactions

Assumptions: `PendingAssumption` (positive bounds, a size for every system
transaction, at least one id), `TxsAssumption` (a transaction has the fields the
code reads), `TurnAssumption` (above), and `LifetimeAssumption`: a system
transaction expires within what the chain allows. The code gives it 30 seconds
(`db_incentive.cpp:72`); the default limit is a day
(`maximum_time_until_expiration`).

`IndInv` says of the chain that each block was applied to the state the one
before it left (`Grown`), and during a switch says the same of the chain that a
failure would bring back: what is left of the old one, and the popped blocks on
top. From `Grown` alone follows, by induction over the blocks, that a chain is
`Clean`: its transactions are different ones, each of them still known or
expired, and exactly one turn of the system is open, later than that of every
known transaction. The block after it cannot repeat a transaction, because a
known one is refused as a duplicate and an expired one as expired; the first
block, where expiry is not looked at, has no block before it.

`OwnBlockApplies` compares the state in which `_generate_block` tries the
transactions with the one in which the block is applied (`Drafted`): they differ
in the list of known transactions, where the first lacks the system
transaction. A pending copy of it, from a block that was popped, could be
included a second time only if it applied again, and its turn is over by then.
`SessionIsRecreated` follows from `Matches`, which each push keeps.

`ApplyAll`, the restorer, `Generated` and `TxsOf` are folds. The library defines
a fold by a recursion over sets of indices; `FoldExists` and `FoldIs` say that
this recursion has a solution and goes through the indices in order, and each
fold has a lemma that states its steps (`ApplyAllIs`, `RepushedFacts`,
`ConsiderFold`, `FlattenIs`). Of this invariant TLC checked the part without
types, as the coins are an infinite set in the proofs.

### Deflation

The invariant ties the two cursors to the marks: an account below the cursor
was charged by the running deflation and lost its mark when its turn came, one
above it has been charged only if it is marked; the same for orders up to
`last_order`, until an order operation comes out of turn (`OrdersInTurn`). The
operations of a transaction under way are the next ones from the cursor on, none
left out (`OpsFrom`), so that each of them is in its turn. That an operation
leaves the others applicable is then the cursor moving to the next one.

Of orders after an operation out of turn it is left that one in the index was
charged once at most and not before its mark; a second charge needs the
cancellation that removes it. The producer's transaction can then fail at an
order that is marked with this deflation, for which the invariant says that the
state it is undone to (`GoesBackTo`) has the same accounts and the same cursor
of accounts: operations for orders come first. The accounts thus need no
condition, except to be reached at all.

### Witness schedule

`IndInv` counts the turns: after k blocks of a round at least k different
positions of the schedule have passed, so after as many blocks as witnesses all
have. That needs a schedule as long as the round, and a slot counter whose
remainder moves with the slots; both hold for any numbers of witnesses that
divide `Cycle`, except in a round during which the number changes.
`IrreversibleFollows` and the two guards are stated until the first such change
(`resized`): a change of the number can bring in more witnesses that have not
produced for long than may lag, and cut short the round in which they would.

`IrreversibleFollows` does not follow from the code for every change of the
active set either. `SlowChurn` states what is needed: the witnesses that a
maintenance brings in for as many others and the ones that are down are together
no more than the threshold lets lag, `(100 - Threshold) * n \div 100` of n. With
the 70 percent of the code and 11 witnesses this is three. `RoundInv` then says
that everyone who was scheduled in the round before and is up has produced since
that round began. The instance of the run, with 3 active witnesses, one of them
down and another one new, is not slow in this sense; there TLC shows the
property because there is room for one new witness only. `RoundInv` was checked
by TLC with a threshold of 33.

That participation stays high rests on `SparseInv`: the slots missed since the
last shuffle were of different witnesses that are down, and so were those of the
last slots before it; so of as many slots in a row as there are witnesses, with
a shuffle somewhere between them, at most twice `MaxDown` are missed.
`SparseOutage` says that the rest is enough: of n witnesses,
`100 * ((Window \div n) * (n - 2 * MaxDown)) >= Required * Window`. With the 128
slots and 33 percent of the code and 11 witnesses up to three may be down. The
instance of the run, with one of 3 down and 4 slots, is too small for it, and TLC
shows `NeverStops` there directly; `SparseInv` was checked by TLC on the same
instance. `ProductionGoesOn` puts both guards together.

### Construction capital

The invariant keeps the books: the count and the sum of what is owed equal the
summary; every period achieved has paid at least its part; and of every capital
the periods paid by time (the slot moved that often), and the points of its
votes as periods brought forward plus the points left. The periods brought
forward are those paid otherwise and those pending, modulo 2^16: an incentive of
another reason adds one to the first and takes one from the second, also below
zero. It also holds of the
capitals and the summary to which the session of a transaction under way would
be undone, which is why a failed transaction preserves it. Sums over all
capitals are `SumFunctionOnSet`; `SumSplit` and `SumAgrees` say how it changes
when one of them does.

### Network

Assumptions: `SyncAssumption` (a finite set of peers, a parent for each block,
limits of at least one) and `TreeAssumption`. Blocks, forks, peers, lost
connections and invalid blocks are otherwise arbitrary.

`RequestsMatch` says of a block in `_active_sync_requests` that one connection
waits for it or that it is `denied`; a denied block was left there by
`OnMissing`, stays there, and so is asked for by no connection. The property
is kept by every handler only together with three facts it does
not say: a connection that waits for blocks of the sync waits for no advertised
one (`OneKind`; otherwise one answer could be counted for the other), a closed
connection waits for nothing (`Gone`; otherwise a reconnect would forget a
request), and the messages have the form their handlers expect, lists of ids
being consecutive (`Typed`). `ListsFollow` is needed for connections that are
about to be closed too (`Lists`), and `SuspensionEnds` needs that the return of
the last sync block triggers the backlog. The bound of `TypeOK` on the blocks
that the delegate has is `Limited`.

`SyncInOrder` needs `InOrder`, a statement about the delegate, the calls under
way and the lists of all peers together. A block is sure if the delegate has it,
a call for it waits, or its chain holds an invalid block. The parent of the
first id in the list of a peer is sure (`Leads`); the parent of a block with the
delegate is known or the block of an earlier call (`InTurn`), and calls are
taken in order; and each id that was sent in a synopsis is sure or still in the
list (`Follows`), so that a reply, which begins with one of them, continues a
list without a gap, whatever has been taken off the list meanwhile. Unlinkable
is then only a block whose chain holds an invalid one. TLC checked `InOrder` on
the instance of the run with peers that lack no block (954,803 states).

The loops of the code are recursive functions: the synopsis, the blocks to ask
one peer for, the round over all peers, and the rounds of the backlog. That such
a function exists (`IterateExists`) and that what each iteration keeps holds of
its result (`IterateKeeps`) is proved once, by the least counterexample; for
each loop it remains to show what one iteration keeps.

### Only model-checked

* Liveness under fairness (`CatchesUp`, `OnlyClashStops`, `AccountsCleared`),
  which is beyond this prover.
* With invalid blocks in the tree: `LongestForkFollowed`, and that a switch that
  fails is taken back, from a condition on the tree alone. A switch that fails
  leaves a fork database that `FollowInv` does not describe: items are removed
  and cut on the way back, and its head may be a block that failed.
  `chain_invalid` checks one such tree. `SwitchStaysInWindow` is not claimed
  there: after failed switches a head that was cut off can be pushed again.
* `CulledOnlyIfInvalid` of `PendingTransactions`, which does not hold for all
  transactions: one that fails when it is pushed again is dropped although a
  later one may make what it needs (TLC shows this with three transactions, of
  which two make the same). It holds for those of the run.

## 5. What holds, in short

The undo history is exact: no order of writes, nesting, merges, trims and
replays makes it restore a wrong state or throw halfway, for any size, and every
open session has its level unless they nest deeper than the history is long. The
chain follows the longest valid fork in reach and never applies an invalid
block; its log matches the chain as long as no switch fails, and a restart,
after a shutdown or a kill, stays on the fork. No transaction is applied twice;
one that was pending or popped is lost only if it could not be applied when its
turn came; and the block a node generates applies. Capitals are paid back, and
deflations take their part of every account once, whoever sends the operations;
as long as order operations come in turn they take their part of every order
once and end for the accounts. Every witness has a slot in each round of
constant size; with a minority down and the number of witnesses unchanged,
production goes on and the irreversible block follows. Requests to peers are
given back when a connection is lost, and blocks reach the chain after their
parents.

Where the code deviates from this, and how the runs stay clear of it:

* Proposals that approve each other nest one undo session each, and nothing
  limits the depth (`proposal_evaluator.cpp:178`, `db_block.cpp:271`). With more
  than `max_size + 1` sessions open, `start_undo_session` has dropped the level of
  one of them (`undo_database.cpp:40`). The runs and the proofs include it;
  `ActiveLevelsKept` says that nothing less does.
* After a switch that failed the restored blocks are missing from the log: they
  are stored under the id of the pushed block (`db_block.cpp:184`).
  `BlockLogMatches` is checked with valid blocks only.
* A block that failed stays the head of the fork database (`db_block.cpp:203`),
  and after a switch that head lags behind its highest block
  (`db_block.cpp:150`). The models have both; the properties are about the chain
  that is followed, not about that head.
* A failed switch between two first blocks stops in the middle, as the first
  block cannot be popped from the fork database (`fork_database.cpp:43`).
  `SwitchCompletes` is checked behind a common trunk.
* Once witnesses have signed on both forks, the irreversible block of one fork
  can pass the fork point. The head of the fork database can then move to a
  branch that cannot be traced, and a switch that failed cannot always be
  restored. `LongestForkFollowed`, `SwitchCompletes` and `CatchesUp` are checked
  where no witness signs on both.
* After an invalid block, a known block that is sent again can take the place of
  the block to apply and be removed from the fork database for it
  (`db_block.cpp:203`), and the node can stop following. `CatchesUp` is about
  valid blocks.
* The three sessions of a pending proposal drop levels that a later switch can
  need (`undo_database.cpp:41`). One session drops one level, which a
  switch to the lowest point the window allows can miss. The runs have `Nested = {1}`,
  and switches that do not go down that far wherever completion is claimed.
* After a restart the undo history is empty, while the fork database can be
  filled again from below: `SwitchCompletes` and `SwitchStaysInWindow` are
  checked between two starts.
* A kill between the write of the index and the write of the blocks leaves an
  entry that points beyond the end of the file. `last` (`block_database.cpp:234`)
  then finds no last block: nothing is replayed although all earlier blocks can
  be read, and as the stream stays failed, blocks stored afterwards are lost too.
  `ChainIsValid` and `RestartStaysOnFork` hold also then; that a replay recovers
  what is readable is not claimed.
* If votes have brought forward all periods left of a capital when its slot is
  due, one incentive too many is generated, and the incentives of all capitals
  stop for good. An incentive operation of a reason other than 0 and 1, which any
  transaction may contain, takes a pending period that need not be there
  (`incentive_evaluator.cpp:94`): pending becomes 65,535, more periods than are
  left, with the same effect. `OnlyClashStops` says that nothing else does this,
  and `VotePointsConserved` counts modulo 2^16.
* An order operation of a deflation, which any transaction may contain, is not
  compared with the cursor or the last order (`deflation_evaluator.cpp:218`). Out
  of turn it can move the cursor past orders, end the orders early, or move the
  cursor back. Then the producer's transaction comes to an order that is marked
  with this deflation and is left out of the block, with the accounts in it, and
  an order that was charged is charged again when it is cancelled
  (`db_market.cpp:124`). The model has this and records it as `strayed`:
  `ChargedAtMostOnce` and `TransactionApplies` name exactly these outcomes, what
  they say of accounts does not depend on it; the order part of
  `ClearedMeansAll`, `AccountsCleared` and `DeflationFinishes` are about
  deflations without it.
* The restorer tries each transaction once, in order (`db_with.hpp:79`). One that
  refers to a popped block fails, and what needs its outcome fails with it, even
  if a transaction further behind makes the same. `CulledOnlyIfInvalid` is checked
  with transactions that have no such substitute.
* System transactions are not counted against the block size. If they exceed
  it `generate_block` throws, and the pending state is gone until the next
  block; `SessionRecreated` is about the time after a block.
* An account created during a deflation keeps the mark of a transfer and is
  exempt from the next one; `ClearedMeansAll` is about the accounts up to
  `last_account`.
* When the active set changes its size at a maintenance (`db_maint.cpp:299`), the
  round can be cut short, and `EveryoneHasTurn` does not count it;
  `IrreversibleFollows` and `NeverStops` are about the time before. An outage of
  more than two thirds of the witnesses stops production for good.
* A peer that changes forks may continue from a block of which the node has
  only sent the id. The comment at `node.cpp:2611` expects that the delegate has
  it, "because it should be one of the blocks we sent in the initial synopsis",
  but the synopsis also holds ids that are still to be fetched or with the
  delegate. A build with assertions stops there; without them the
  next synopsis for that peer throws and the connection is closed. The model
  has this; no property claims the contrary.
* When a peer answers that it lacks a block it listed, the block stays in
  `_active_sync_requests` (`node.cpp:2805`), also after the connection is closed,
  and is not asked for again. `RequestsMatch` says that this is the only way a
  block is left there.
* Two overlapping requests for ids let the node disconnect an honest peer
  (`node.cpp:2499`); no property claims the contrary.

## 6. Plan

1. Proofs: a condition on trees with invalid blocks under which a switch that
   fails is taken back (`UnwindPops`) and the longest valid fork is followed.
2. A `modify` that fails for `UndoDatabase`; a kill during a start, and a failure
   of the machine, for `ChainDatabase`.
3. Proposals with approval and expiry; the vote on the rate of issue; vesting,
   withdraw permissions and call orders.

## 7. Not modelled

`components` in `PROJECT.json` lists every part. Of the C++ sources, half of all
lines are the word table of the wallet (`utilities/words.cpp`); the wallet, the
API servers and most evaluators are sequential code that checks, formats or
writes in one step, with roll back as their only hard part. Of the modelled
parts:

* an index that refuses a modification erases the object although `on_modify`
  has recorded it (`generic_index.hpp:71`), which the next `undo` would trip
  over; the model has no failing `modify`;
* a node whose very first block is not number 1 never links anything to it;
  `SyncSpec` excludes it;
* a failure of the machine, which can lose more than the last writes of the log,
  and a kill during a start;
* amounts: balances, fees, the statistics of accounts, supply, the collection of
  a deflation from call orders, and with them the places where an account is
  marked as charged and nothing is taken (`market_evaluator.cpp:228`) or the
  same amount is taken twice from the statistics (`deflation_evaluator.cpp:308`);
* of the witness plugin the keys, the stale-chain flag and the lag check;
* of the network the node as a server, transactions, hello and address messages,
  the search for peers, firewall checks, and the short waits of handlers other
  than for `handle_block`.
