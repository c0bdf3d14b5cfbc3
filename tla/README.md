# Aztec: TLA+ models of the L1 contracts, the node and Barretenberg

This directory verifies two halves of the repository. The first moves state
between L1 and the node: the L1 contracts through which messages and blocks
pass, the archiver that copies their events into a local store, the queue and
downloader that carry L2 blocks through the node, and the world state that
applies them while the sequencer builds on the same trees. The second is the
part of the C++ proving system that has control state of its own: the thread
pools behind `parallel_for`, the Merkle trees, the AVM witness generator and the
Ultra circuit builder. Field arithmetic, provers and compilers are outside.

Run a model check with `tlc -workers 2 -config X.cfg M`, the proofs with
`tlapm M.tla`. `PROJECT.json` lists components, runs, mutants, the map from
definitions to source lines, hazards and theorems.

## 1. The system

| Part | State | Operations | Talks to |
|---|---|---|---|
| MessageBox (library) | per key: fee, count, version, deadline | insert, consume, contains | Inbox, Outbox |
| Inbox | a message box, `feesAccrued`, ether | sendL2Message, cancelL2Message, batchConsume, withdrawFees | portals, Rollup, Registry |
| Outbox | a message box | sendL1Messages, consume | Rollup, portals, Registry |
| Registry | snapshots, rollup -> version | upgrade | everyone on L1 |
| Rollup, HeaderLib | archive root, lastBlockTs | process | Inbox, Outbox, AvailabilityOracle |
| AvailabilityOracle | published body hashes | publish | Rollup |
| Archiver | the key-value store; pointers into L1 | start, sync, stop | L1 provider; sequencer, downloader, PXE |
| MemoryFifo, SerialQueue, Semaphore | items and waiting consumers | put, get, end, cancel, process | downloader, world state |
| L2BlockDownloader | `from`, job queue, block queue, tokens | start, pollImmediate, getBlocks, stop | archiver; world state, P2P client |
| World state (MerkleTrees, synchronizer) | six trees with uncommitted changes, snapshots, last block | handleL2Block, commit, rollback, snapshot | downloader, sequencer |
| Sequencer, block builder, publisher | block under construction | work, publish | world state, L1 |
| P2P client and tx pool | pool, last synced block | reconcile, gossip | downloader, sequencer |
| PXE | notes, deferred notes, header | sync, note processing | node |
| Simulator / AVM (TypeScript) | journal | nested calls, fork/accept/reject | sequencer |
| `parallel_for` and its pools (C++) | counters or queue of tasks, sleeping workers, `stop` | start_tasks, worker_loop, run_loop_in_parallel, destructor | every prover |
| Append-only and indexed tree (C++) | node store, leaves and their indices, root, size | add_or_update_values, add_values | thread pool |
| Sparse and nullifier trees, memory store (C++) | store with uncommitted puts and deletes, leaves | update_element, commit, rollback, paths | tests of the world state |
| AVM witness generator (C++) | memory and tags, call stack, main, memory and alu traces | parse, op_..., call, return, finalize | prover, relations of `pil/avm` |
| Ultra circuit builder (C++) | variables and copy classes, tags, range lists, ROM/RAM records, gates | assert_equal, create_..., ROM/RAM accesses, finalize, check_circuit | every gadget |

What is hard about them:

* *Re-entrancy and reverts.* `withdrawFees` hands control to its recipient,
  whose code may call the contract again and may then fail.
* *Several versions at once.* After an upgrade older rollups keep processing
  blocks on the message boxes of the newest snapshot.
* *Awaits.* Every node component runs in one event loop; between two awaits
  nothing interrupts it, at an await anything may.
* *Crashes.* LMDB transactions are atomic, but one sync or one block is many
  transactions.
* *Eventually consistent providers.* The L1 provider announces a block before
  it returns its events.
* *Shared uncommitted state.* Sequencer and synchronizer work on the same
  uncommitted trees.
* *Shutdown.* Loops that wait for each other while one of them is told to stop.
* *Shared memory.* The thread pools hand out iterations with a mutex, with
  atomics or through a queue; the indexed tree's workers write the same plain
  array, kept apart only by one signal each.
* *Content-addressed storage.* Equal subtrees share one node of the store.
* *Two descriptions that must agree.* The AVM's traces against its relations;
  the circuit that is built against what its user asked for, in whatever order
  the calls came.

## 2. Modules

| Module | Models |
|---|---|
| `MessageBox` | `libraries/MessageBox.sol`, as operators on a box; used by Inbox and Outbox |
| `InboxRules` | the checks and the casts of the Inbox's functions, as operators |
| `Inbox` | the Inbox as a state machine, with nested withdrawals |
| `L1Contracts` | Registry, Rollup, AvailabilityOracle, Inboxes and Outboxes composed |
| `Bridge` | abstract: what a sender of a message is promised |
| `ArchiverStore` | `message_store.ts`, one operator per transaction |
| `Archiver` | `archiver.ts` with L1, the provider and crashes |
| `MemoryFifo` | `memory_fifo.ts` |
| `BlockDownloader` | `l2_block_downloader.ts` with `SerialQueue`, `Semaphore` and its client, the loop, `syncImmediate`, serial queue and stop of `server_world_state_synchronizer.ts` |
| `WorldState` | `merkle_trees.ts`, the transactions of `tree_base.ts` and `standard_indexed_tree.ts`, `handleL2Block`, and sequencer and publisher as they touch the trees |
| `ParallelFor` | abstract: what a caller of `parallel_for` is promised |
| `ThreadPools` | `parallel_for_{mutex_pool,atomic_pool,queued,moody,spawning}.cpp` and `thread.cpp` |
| `IndexedTree` | `indexed_tree.hpp`, `append_only_tree.hpp`, `leaves_cache.cpp`, `array_store.hpp` |
| `MerkleTree` | `merkle_tree.hpp`, `memory_store.hpp`, `nullifier_tree`, and the in-memory reference trees |
| `AvmAlu`, `AvmBytecode`, `Avm` | `avm_alu_trace.cpp`; `avm_deserialization.cpp`; `avm_execution.cpp`, `avm_mem_trace.cpp`, `avm_trace.cpp` |
| `CircuitBuilder` | `circuit_builder_base.hpp` and `ultra_circuit_builder.cpp` |
| `InboxProofs`, `L1ContractsProofs`, `ArchiverProofs`, `MemoryFifoProofs`, `BlockDownloaderProofs`, `WorldStateProofs`, `IndexedTreeProofs`, `ThreadPoolsProofs` | the theorems about the module of that name (section 5) |
| `MC...` | instances for TLC |

Definitions marked *Fault* are the bugs the mutants put in: each is a version
of the definition below it with one plausible mistake, and no specification
uses them.

### Inbox

State: `entries`, `feesAccrued`, `balance` are the contract's storage and
ether; `sent`, `consumed`, `cancelled` count events. `calls` holds a copy of
all of this for every withdrawal in progress: `WithdrawFees` is the function up
to the external call, then any action may happen (the recipient's code), and
`WithdrawReturn` or `WithdrawRevert` ends it, the latter restoring the frame.
Time passes only between transactions. Values keep their width: a count fits
in `MaxCount` (uint32), the fee is guarded by and cast to uint64, the version
is cast with `% VersionMod`. A key is the hash of a message; hashes are taken
to be injective, so a message is its own key.

### L1Contracts and Bridge

An action is a whole L1 transaction. `Process` is `Rollup.process`: every check
of `HeaderLib.validate`, availability, consumption from the *current* snapshot's
inbox and insertion into its outbox under the caller's version. The verifier is
the repository's MockVerifier and accepts every proof, so any root may become
the archive, `NoArchive` (bytes32(0)) included, after which `HeaderLib.validate`
compares nothing, as before the first block. `chain`, `sent`, `cancelled`,
`withdrawn` are the emitted events. Under the refinement mapping a *slot* is a
message in one inbox; pending is the count of its entry, delivered the number of
places where blocks of the version it names took it.

### Archiver

`sync` is cut at every await: `Begin`, four queries (repeated while
`blockUntilSynced` and something was found), per L1 block `AddPending` and
`CancelPending`, then `StoreLogs`, `AddContractData`, `Confirm` and `AddBlocks`.
Each store operation is one transaction, and one that throws has no effect and
ends the polling loop (`Fail`). `Mine` appends an L1 block with additions,
cancellations, an L2 block and a contract deployment as the contracts allow
them. `Visible` is the range a query covers: `getLogs` treats `toBlock` as
exclusive according to the comment in `eth_log_handlers.ts`, which the code
compensates by adding one. If `Lags`, the provider indexes a block some time
after announcing it.

### MemoryFifo and BlockDownloader

One action per call, because no await is inside. A get that waits is resumed by
`Put`, `End`, `Cancel` or its timer; `end` and `cancel` answer the waiting
consumers without clearing their list, as in the code. In `BlockDownloader`
the poll loop and any number of `pollImmediate` callers share one serial queue
of `collectBlocks` jobs; a job fetches, waits for a token and enqueues, and a
request that fails ends its job. The client is the world state synchronizer, with
a second serial queue for its own jobs: its loop (`BlockProcess`) and
`syncImmediate` enqueue `collectAndProcessBlocks`, which takes a batch
(`GetBlocks`, `GetTimesOut`) and handles it. `syncImmediate` is `SyncImmediate`
(the `syncPoint`), `PollImmediate`, and `Collect` for the batch it polled, until
the poll brings nothing or the minimum block number is reached (`SyncReturns`).
The client's `stop` goes through the same awaits as in the code: the downloader's
job queue, its block queue and its poll loop, then the client's job queue and its
loop. Timers fire only once pending continuations have run, hence
`runner # "ready"` in `Wake`.

### WorldState

A tree is the sequence of its leaves and a block adds one leaf to each, the
header to the archive. Roots are injective except that trailing zero leaves do
not show: `isBlockOurs` compares roots, `updateArchive` compares roots and
sizes. Operations on the trees are jobs of one serial queue, so a job of the
synchronizer is not interrupted by the sequencer, but the process may end
between any two transactions: `CommitTree` and `SnapshotTree` are one action per
tree. An indexed tree keeps its leaves a second time, by index (`preimages`),
and writes them in a transaction after that of its nodes, when it is created
(`CreateLeaves`) and at every commit (`CommitLeaves`); its snapshot takes them
from there. While the two are of different blocks the tree is `Stale`, and a
batch insertion, which looks for low leaves among the preimages, inserts
something else than the block says (`Inserted`). The sequencer starts, inserts
tree by tree, validates, fails at any point, publishes or is told that
publishing failed although the block is mined later, and rolls back. Another
sequencer may publish at any time.

### ParallelFor and ThreadPools

`strategy` is chosen initially and fixes which steps exist. A step of a thread
is one critical section, one atomic operation, one entry into or return from
`func` or one notification; `pc` says where it is, `at` is its local iteration
and `job` the call it works for. Main calls `parallel_for` directly or through
`run_loop_in_parallel` (`points` is its loop size), waits as its strategy does,
and in the end runs the destructor. `task_` is the number of the call whose
function the pool holds, so that a worker acting on a stale one is seen. `begun`
and `ended` count the invocations of `func`; they are the state of the abstract
`ParallelFor`, with `active` mapped to "main is in a call". `raced` is set by a
step that uses the state of a call other than its own. The vendored queue of the
moody pool is external and taken to be atomic.

### IndexedTree

`AddOrUpdateValues` is the sequential first half of `add_or_update_values`: it links
every new value into the leaves and fixes the `insertions`. Then one worker per
value runs `update_leaf_and_insert`/`update_leaf_and_get_hash_path`, one access
to the node store or one signal operation per step, on as many threads as
`parallel_for` has, which starts them in order. When all are done the new leaves
are appended as a subtree (`AppendSubtree`). `regular`
records whether each batch so far had the shape `add_values_internal` is written
for: "yes", "last" when only the last one had not, whose workers still started
from a tree that matches its leaves, and "no" after that.

### MerkleTree

One action per call; both the tree over the store and the in-memory tree receive
it. The store is the code's three containers (`puts_`, `deletes_`, `store_`);
its keys are node hashes, its values regular nodes, stumps and the meta entry
with root and size. `why` collects the reasons for which the code lets the two
trees differ: `shared` (a removed node that another place of the tree uses),
`recommit` (a root that `commit` could not overwrite), `rollback`, `zero`.

### Avm

`Parse` decodes one instruction, then there is one action per opcode, and the
table appears with `finalize`. U128 has 8 bits, U8 has 4 and the field 8209
elements: as in the code, the partial products of half words fit in the field
and the full product does not.
`AvmBytecode` encodes an instruction as digits with the operand sizes of
`OPCODE_WIRE_FORMAT`. The invariants evaluate, on the table that `finalize`
returned, the relations of `pil/avm` that are about control, memory, tags and
arithmetic.

### CircuitBuilder

The builder is one record and each method an operator on it. A gate has wires
and a kind in place of selectors. `check_circuit` is whole: it finalises a copy
(range lists, ROM and RAM sorted records), evaluates the gates and compares the
tag multisets, then the builder is restored as the code's snapshot restores it.
A *session* fixes which methods a user calls and with which witness; witnesses
of values and indices may be wrong, so that both answers of the check occur.

## 3. Runs

Times are for two workers.

| Run | States | Bounds | Shows |
|---|---|---|---|
| `inbox` | 149 807, 45 s | 3 messages, 2 copies, batch 2, depth 2 | solvency, each copy once, one exit, cancellation final |
| `l1` | 461 008, 100 s | 2 rollups, 2 inboxes, 3 snapshots, 2 blocks, 2 archives (one zero), 3 timestamps | chain, registry, outbox, refinement of `Bridge` |
| `archiver` | 192 163, 2 min | 3 L1 blocks, 2 L2 blocks, 2 copies, 1 crash | exactly-once without a crash, exact counters with one, and when it can fail or fall behind |
| `archiver_faults` | 637 839, 85 s | lagging provider, 3 L1 blocks, 2 messages, 1 crash | sane counters, complete blocks, no ghost messages |
| `fifo` | 440 | 2 getters and the loop, 4 items | order, nobody stranded, drained |
| `downloader` | 108 848, 90 s | 5 blocks in batches of 2, queue of 2, 1 caller of `syncImmediate` | order, queue bound, progress, stop |
| `world_state` | 107 203, 26 s | 2 blocks, 3 trees (one indexed), 2 crashes | committed is published, snapshots exact, when it can throw or stall |
| `parallel_for` | 121 820, 24 s | 5 strategies, 3 cpus, 2 calls of up to 3 iterations | exactly once, calls and joins return, refinement of `ParallelFor` |
| `indexed_tree` | 28 499, 30 s | depth 3, 3 threads, 3 batches of up to 4 values | no data race, sequential paths, the tree matches its leaves, progress |
| `merkle_tree` | 150 249, 70 s | depth 3, 3 values, 3 updates, 2 commits or rollbacks | agreement with the full tree, linked leaves |
| `avm` | 108 389, 30 s | 5 cells, programs of up to 4 instructions, traces of up to 20 rows | the table satisfies the relations, parsing is exact, programs end |
| `circuit_builder` | 334 460, 64 s | 5 sessions of 3 or 4 calls | a check accepts exactly the true statements and changes nothing |

### 3.1 The bounds, and why they are enough for the question

* `inbox`: a message consumed by version 1, one whose version
  wraps to 2, one whose fee does not fit its width, so all casts matter. Batches
  of two hold duplicates. Depth 2 lets a re-entrant withdrawal fail inside one
  that succeeds and the reverse. Time passes both deadlines. The theorems of
  section 5 remove all of these bounds.
* `l1`: three snapshots are the constructor's and two upgrades, so that an old
  rollup processes on the boxes of a newer one. The message names version 2 and
  can be sent while version 1 is the newest; the outgoing message of version 2
  can be emitted by both versions. Headers range over right and wrong chain ids,
  versions, archives and all times, and a block may leave the archive root zero,
  upon which one of any `lastArchive` follows. Rollups and inboxes are interchangeable
  (symmetry); the checked properties name none of them.
* `archiver`: two copies of a message that may be consumed in different blocks,
  and a third L1 block in which what is left is cancelled, with L1 growing
  between any two steps; two L2 blocks in one sync, and a crash at every await.
* `archiver_faults`: two messages, so that an addition and a cancellation meet
  in one L1 block, with a provider that may index between any two queries.
* `fifo`: two getters with timeouts and the loop compete for four items; a
  getter may time out before, between and after puts and after end or cancel.
* `downloader`: five blocks make three batches, more than the queue holds, so
  that the semaphore blocks. One caller gives each of the two serial queues two
  owners, one job active and one behind it, which is what order, tokens and the
  discarding of a job depend on; the theorems are for any number of callers.
* `world_state`: two blocks let one be built on the wrong predecessor, be mined
  late after the next was attempted, or be handled again after each of two
  crashes. Three trees: one whose leaf may be zero, the marker, which is
  indexed and so commits in two transactions, and the archive. The process may end
  before every transaction but those that commit the initial header (section 3.3).
* `parallel_for`: three cpus give two or three workers besides main, so that a
  worker can be late while another takes the last iteration; two calls let it
  meet the state of the next one. Sizes 0 (nothing to do), 2 (fewer iterations
  than threads), and loops of 1 (inline) and 4 points over 3 cpus (chunks of 2,
  2 and none). More calls repeat the second.
* `indexed_tree`: three threads for batches of four make workers wait for a
  thread as well as for a leader; the batches of `MCIndexedTree` share low leaves
  or not, in either order, with values present before and duplicates. Depth 3
  has a level between the leaves and the root where wavefronts overlap; two
  batches fill it, and a third may follow one of the wrong shape.
* `merkle_tree`: with three updates an equal subtree can be created, used and
  replaced; with two commits a root can come back.
* `avm`: addresses 0 to 4 with the call stack from 3 on, so that programs reach
  it; all sequences of up to four control-flow instructions, three memory
  preambles followed by all pairs of sixteen arithmetic ones, every bytecode at
  one replaced, missing or added byte from a program, and all pairs of direct
  calls. `MaxRows` cuts off programs that loop.
* `circuit_builder`: the sessions are separate because the features meet in
  copy classes and ranges, which most of them include. Range 4 with three values
  to a row makes a padded list; two RAM or ROM cells with two accesses let an
  access be sorted before an earlier one.

### 3.2 What the properties say

Where several invariants are about the same thing a run checks their
conjunction, and the parts keep their names:

| Checked | Parts |
|---|---|
| `Consistent` (L1) | `TypeOK`, `RegistryConsistent` |
| `CrashSafe` (archiver) | `UnconsumedExact`, `FailsOnlyAhead` |
| `StoreSane` (archiver) | `TypeOK`, `BlocksComplete` |
| `SyncSafe` (world state) | `SnapshotsExact`, `ThrowsOnlyTorn` |
| `CountersSound`, `Terminates` (thread pools) | `TypeOK`, `Accounted`; `Returns`, `DestructorEnds` |
| `TreeSound` (indexed tree) | `TypeOK`, `TreeMatchesLeaves`, `SortedList` |
| `TreesAgree`, `NullifiersSound` (Merkle trees) | `RootsAgree`, `PathsAgree`; `TypeOK`, `NullifiersLinked`, `RootCommitsToLeaves` |
| `SatisfiesRelations` (AVM) | `MemoryRelations`, `RegistersMatchMemory`, `TagErrorsCounted`, `ControlFlow`, `DivisionRelations`, `AluExplainsMain` |
| `MachineSound` (AVM) | `TypeOK`, `ParseInverts`, `ValuesFit` |
| `BuilderSound`, `ChecksExactly` (circuit builder) | `TypeOK`, `CopyClasses`, `NamesKept`; `AcceptsOnlyTrue`, `AcceptsTrue` |

*Inbox.* `Solvency`: ether equals what can still be claimed, also in states a
re-entrant caller sees and in those a revert returns to. `EachCopyOnce`,
`ExactlyOneExit`: copies are conserved, and a pending message is consumable by
its version up to the deadline and cancellable only after it. `CancelledIsFinal`
is an action property over all steps, reverts included.

*L1.* `ChainLinked`: a block names the archive root its predecessor left, unless
that is zero, and time does not run backwards, zero or not. `RegistryConsistent`,
`WithdrawnBacked`, and `KeepsBridge`, the refinement of `Bridge`.

*Archiver.* `ReadOnce` compares the counters with the events up to the three
pointers in every intermediate state. `FailsOnlyAhead` and `CatchesUpUnlessAhead`
name the one situation in which `sync` throws and never recovers: messages
confirmed ahead of their block. `UnconsumedExact`, `NoGhostPending` and
`BlocksComplete` are what does survive crashes (and lag).

*Fifo and downloader.* `FifoOrder`, `NobodyStranded`, `DrainsUntilThrown`;
`BlocksInOrder`, `QueueBounded`, `EveryBlockHandled`, and `StopsUnlessBlocked`,
which names the three ways in which a stop never returns (`Blocked`): a job of the
poll loop, or of the client's loop, that was discarded unsettled, and a job that
waits for a token nobody will give back.

*World state.* `CommittedIsPublished` speaks of every tree's nodes and of the
indexed trees' leaves: each is that of the last block handled or of the next, and
the two of one tree differ only as long as the archive, committed last, is still
the older one. `SnapshotsExact`; `ThrowsOnlyTorn` and `FollowsUnlessTorn` name the
one situation from which it does not recover: the process ended amid the commits
of a block, between two trees or within an indexed one.

*Thread pools.* `ImplementsParallelFor` is the refinement, with the two races and
the crash as its only exceptions. `Accounted` is the invariant behind it for the
mutex and queued pools. `PointsOnce`: the chunks partition the loop. `Returns`
and `DestructorEnds`: no wake-up is lost.

*Indexed tree.* `NoDataRace` over every pair of workers; `PathsSequential`: each
path is that of a sequential insertion, also in the first batch of a wrong shape; `TreeMatchesLeaves` and `SortedList`
relate store, root, size and leaves; `BatchCompletes`: workers wait for each
other in an order that the threads respect.

*Merkle trees.* `RootsAgree`, `PathsAgree`: nodes, stumps and empty subtrees
represent the full tree; `NullifiersLinked`; `RootCommitsToLeaves`.

*AVM.* `MemoryRelations`, `RegistersMatchMemory`, `TagErrorsCounted`,
`ControlFlow`, `DivisionRelations` and `AluExplainsMain` are relations between
rows of one trace or of two. `ValuesFit`: a cell is in the range of its tag.
`ParseInverts`, and `Ends` for programs without backward jumps.

*Circuit builder.* `CopyClasses` compares the classes with the closure of the
equalities asked for. `AcceptsOnlyTrue` and `AcceptsTrue` are soundness and
completeness of the finalised circuit for the given witness. `NamesKept`, and
`CheckRestores` as an action property.

Every property of a run has a mutant in `PROJECT.json` that breaks it, and every
part of a conjunction has one of its own.

### 3.3 Observations

Behaviour of the code that is surprising and that the models show. Each is the
exception that a property names, or the reason why it is stated as it is.

L1 and node:

* `Rollup.process` stores whatever archive root it is given, and a root of zero
  makes `HeaderLib.validate` skip the comparison for the next block. With the mock
  verifier nothing forbids one, so a chain may be cut there (`ChainLinked`).
* The archiver's pointer of additions moves for an L1 block that had only
  cancellations among the events *read*. If the provider indexes that block, or
  an earlier one, between the two queries, its additions are skipped for ever
  (`ReadOnce` is checked without lag).
* `confirmL1ToL2Messages` and `addBlocks` are separate transactions and only the
  second moves the pointer; after a crash between them the confirmation is
  repeated, the counter throws, and so does every later sync (`FailsOnlyAhead`,
  `CatchesUpUnlessAhead`).
* The sequencer's comment promises at most NUMBER_OF_L1_L2_MESSAGES_PER_ROLLUP
  pending messages; the key-value store, asked without a limit, returns all.
* With the block queue full and the client's loop ended, the job waiting for a
  token keeps `stop` from returning (`StopsUnlessBlocked`).
* Trees are committed one by one, and an indexed tree's nodes before its leaves; a
  process that ends in between can never handle that block (`ThrowsOnlyTorn`,
  `FollowsUnlessTorn`). Nodes of block n + 1 beside leaves of block n are a tree
  that was never published, though each half was (`CommittedIsPublished`).
* `memory_fifo.ts` says the iteration continues after a handler's exception; the
  `try` encloses the loop, so it ends (`HandlerThrows`; hence the last disjunct
  of `DrainsUntilThrown`).
* `SerialQueue.cancel` discards jobs without settling their promises: a poll
  loop whose job waits behind an immediate poll never ends (first disjunct of
  `Blocked`), nor does the synchronizer's loop when its job waits behind one of
  `syncImmediate` (third disjunct), and `stop` awaits both loops.
* `isDbPopulated` looks at the nullifier tree's meta data, written long before
  creation is complete: a process that ends within it leaves a database that
  `Boot` cannot load. The run ends the process while trees are created, not while
  the initial header is committed, where this happens.
* Extended contract data is appended, so after a crash it is stored twice;
  hence `ReadOnce` speaks of runs without a crash.

Thread pools (only the mutex pool is selected; the others are commented out in
`thread.cpp`):

* Atomic pool: a worker still in `do_iterations` when the next job is published
  takes iterations with the old function or miscounts the new ones.
* Moody pool: tasks capture `num_iterations` by reference and the call may have
  returned before the last one compares with it; with 0 iterations the call
  waits for ever.
* Spawning: 0 iterations underflow the number of threads.

Trees:

* In the indexed tree a worker's second wait, for the level above, is implied by
  the first: no interleaving needs it. A batch in which no value is new reads
  element 0 of an empty vector of hashes. A batch that is not a power of two of
  new values, or not aligned to it, leaves a root that does not match the leaves.
* `MerkleTree::update_element` removes the nodes it replaces although an equal
  subtree may use them; `MemoryStore::commit` uses `map::insert`, so an entry
  that was committed before, the root in particular, keeps its old value;
  `NullifierTree`'s vector of leaves does not follow a rollback; `size` is the
  last index written plus one; the value 0 is treated differently by the two
  nullifier trees.

AVM:

* A cell that was never written and is loaded under two tags violates the tag
  relation of the memory trace. The registers ib and ic of `return_op` stay 0
  (assignments to shadowing variables). A program may overwrite the call stack,
  and running off the end violates the relations of the last row.
* `op_div` stores a quotient under a tag mismatch, and a field quotient under
  integer tags; NOT and EQ under a mismatch leave ic non-zero (TODO 4613 in the
  code); NOT of a field element returns 0 and has no alu row.
* `gen_trace` throws on NOT (`operands.at(3)` of three operands) and never moves
  `pc` on EQ or on a CALLDATACOPY of size 0; one of size above 3 skips
  instructions. An empty program makes `finalize` throw, INTERNALRETURN on an
  empty stack is undefined, and `reset` leaves tags, counts, `pc` and the call
  pointer as they were.

Circuit builder:

* A clash of tags in `assert_equal` makes a true statement fail depending on the
  order of calls (the builder reports the failure, as `AcceptsTrue` allows). A
  range on a variable that is in no gate is unsatisfiable, as a comment in the
  code says (`Unused`); so is a single read of a ROM cell set as a pair whose
  second value is not 0 (`HalfRead`).
* The inner loop of `finalize_variable_names` increments the outer index.

### 3.4 Hazards without a property

Some hazards in `PROJECT.json` have no property because what they warn of does
happen in the code: a handler that throws, the reset of the atomic pool, shared
nodes, repeated commits and rollbacks of the memory store, the opcodes that do not
move `pc`. The models show them, and the properties name them as exceptions
(section 3.3). Besides these, the first creation of the trees and the limit of
pending messages (above), the following are known and not covered by any model:

* A transaction gossiped after its block was reconciled stays in the pool
  (`p2p_client.ts`), and `isReady` returns a promise, so that the guard of
  `publishStoredTxs` is never taken.
* Contract data is published before the block; if the block then fails, the data
  is on L1 for a block number that another block will take (`sequencer.ts`).
* A note processor that throws is left behind the header that was already stored,
  together with the processors after it (`synchronizer.ts` of the PXE).

## 4. Fairness

No specification assumes that a user, a block producer or a stop acts.

* `MemoryFifo`: the event loop resumes the process loop, and its handler ends,
  normally or by an exception.
* `BlockDownloader`: settled promises are resumed, the poll timer fires, requests
  to the block source return or fail, the client's handler ends. A get's timeout is
  not assumed to fire, nor anybody to call `syncImmediate`. Two assumptions are
  strong: the poll timer fires although jobs of others keep coming (`Wake`, which
  waits for pending continuations), and the source does not fail every request of
  the poll loop (`Fetch(Poller)`).
* `Archiver`: the polling loop runs, the provider indexes what it announced, and
  the operator restarts a process that ended. L1 need not produce blocks.
* `WorldState`: the archiver follows L1, the synchronizer's loop runs, and the
  node is restarted. Crashes are bounded: progress is claimed for behaviours in
  which the process ends finitely often.

* `ThreadPools`: the operating system keeps running every thread that can take a
  step, main included. Nobody has to call, and there are no spurious wake-ups
  (the code re-checks its condition after one, so they would only add stuttering).
* `IndexedTree`: a running batch goes on; nobody has to start one.
* `Avm`: a sequential loop goes on.

All else is weak fairness: each of these steps stays possible until it is taken.

## 5. Proofs

TLC shows the properties on the instances of section 3; these theorems show them
for every value of the constants that satisfies the named assumptions.

| Module | Theorem | Statement |
|---|---|---|
| `InboxProofs` | `TypeCorrect` | `Spec => []TypeOK` |
| | `AlwaysSolvent` | `Spec => []Solvency` |
| | `CopiesConserved` | `Spec => []EachCopyOnce` |
| | `OneExit` | `Spec => []ExactlyOneExit` |
| | `CancelFinal` | `Spec => CancelledIsFinal` |
| `L1ContractsProofs` | `AlwaysConsistent` | `Spec => []Consistent` |
| | `AlwaysLinked` | `Spec => []ChainLinked` |
| | `AlwaysBacked` | `Spec => []WithdrawnBacked` |
| | `ImplementsBridge` | `Spec => KeepsBridge` |
| `ArchiverProofs` | `StoreIsSane` | `Spec => []StoreSane` |
| | `NothingGhostly` | `Spec => []NoGhostPending` |
| | `DataIsReadOnce` | `~ Lags` implies `Spec => []ReadOnce` |
| | `CrashesAreSafe` | `~ Lags` implies `Spec => []CrashSafe` |
| `MemoryFifoProofs` | `FifoOrdered` | `Spec => []FifoOrder` |
| | `NobodyLeftWaiting` | `Spec => []NobodyStranded` |
| `BlockDownloaderProofs` | `HandledInOrder` | `Spec => []BlocksInOrder` |
| | `QueueAlwaysBounded` | `Spec => []QueueBounded` |
| `WorldStateProofs` | `OnlyPublishedCommitted` | `Spec => []CommittedIsPublished` |
| | `SyncAlwaysSafe` | `Spec => []SyncSafe` |
| `IndexedTreeProofs` | `RaceFree` | `Spec => []NoDataRace` |
| | `LeavesSorted` | `Spec => []SortedList` (a part of `TreeSound`) |
| `ThreadPoolsProofs` | `CountersAlwaysSound` | `Spec => []CountersSound` |
| | `EveryStrategyImplements` | `Spec => ImplementsParallelFor` |
| | `EveryPointOnce` | `Spec => []PointsOnce` |

Each module first proves its inductive invariant `IInv` (`Inductive`,
`FifoInvariant`, `DownloaderInvariant`, `WorldStateInvariant`, `LevelsInvariant`,
`PoolsInvariant`), by one lemma per action. The invariants were checked with TLC
before they were proved.

### 5.1 The arguments

*Inbox* (`InboxAssumption`, `RulesAssumption`, `MaxCountAssumption`). Solvency of
a step needs that a pending entry holds the very fee of its message (else
consuming it would credit another amount than was deposited), which needs that
an insertion agrees with what an earlier one left; the single exit needs the
same of version and deadline; and a failing withdrawal replaces the state by a
frame, about which the current state says nothing. `IInv` therefore says that a
contract state is *sound* (types; sums match; every pending entry carries its
message's fee, version and deadline; copies are conserved; a message of which a
copy was cancelled is past its deadline), for the current state and for every
frame of `calls`. `CancelFinal` is a fact about steps. For a batch it follows
from `IInv`: a message with a cancelled copy is past its deadline and so not
consumable. For a revert it also needs that consumption counts never decrease
from a frame to the frames after it and to the current state, a second inductive
invariant (`Ordered`). Solvency is about sums over finite sets, the community
module's `SumFunction`; the facts needed are proved first, by arguments with a least
element in place of induction rules.

*L1 contracts* (`L1Assumption`: the rollups are finitely many, no placeholder is
a real rollup, box or key, bytes32(0) is an archive root like any other, fields
are numbers, the registry's bound is not zero). `WithdrawnBacked` is not
inductive: a withdrawal is covered only because all copies in a slot of an
outbox were emitted by the one version the slot names, and because an upgrade
gives no version to a rollup that has blocks. `OutSlotOK` counts the places at
which any block put a key into the outbox: copies present plus copies withdrawn.
`TipKept` ties the archive root and the time a rollup keeps to its last block,
which is what `ChainLinked` needs of the next one, if that root is not zero. For
the refinement a transaction that consumes from an inbox is mapped to the
deliveries it makes; that a delivery is one for the version named rests on
`InSlotOK`, which also keeps a cancelled slot from being refilled.

*Archiver* (`ArchiverAssumption`: the bounds are numbers, at least one copy of
contract data is told apart). The first two theorems hold for a provider that lags
and any number of crashes. Their invariant `IInv` ties what `sync` holds in its
local variables to L1 and to the store: up to where each kind of event was read and
that every addition and cancellation read and not yet applied is in an L1 block
still to come (`MessagesOK`); that the L2 blocks read are those up to `blockTo` and
follow the stored ones without a gap (`BlocksOK`), whence `retrieveBlocks` never
throws; and that logs and contract data of these blocks are read or stored, by the
step sync is at (`DataOK`). Contract data is found because it is emitted before its
block and after the previous one (`L1OK`). `NoGhostPending` needs the count of the
blocks confirmed and not yet stored (`NoGhost`), and that the pointer of
cancellations passes over none.

`ReadOnce` and `CrashSafe` have the hypothesis `~ Lags`: with a provider that
announces L1 blocks before it returns their events, additions can be skipped for
good (section 3.3), and both are false. Without a lag every query reaches the newest
L1 block (`ReadsAll`), so the counters follow the events (`PendingExact`,
`KnownExact`), and a copy that L1 cancels or consumes is found in the store: L1
never cancels and consumes more copies than were sent, at the end of any L1 block
(`Conserved`, from the guard of `Mine`), and the events before the last stored L2
block are all applied (`Applied`). A step that throws therefore shows a counter
below what L1 gives, which without a crash contradicts `PendingExact`
(`NotRemovable`). After a crash `PendingExact` still holds of every message that no
block has consumed. What `Total` sums is proved without induction rules, from the
least index at which a partial sum would differ.

*Fifo.* `put` hands an item to the first waiter past the queued items, which is in
order only if nobody waits while items are queued, and reaches a consumer only if
those in the list still wait; hence `WaitersExact`, `WaitersListed` and
`CancelCloses` beside the two properties.

*Downloader.* That a batch continues the queue rests on there being one job at a
time (`OneJob`), on `from` having stayed where the job read it
(`BatchFromHere`), and on the queue being empty when a batch goes past it to a
waiting client (`QueueEnds`).

*World state* (`WorldStateAssumption`: every tree is committed once, the archive
last; a header is no leaf of zeros; the placeholder is no tree). The theorems
have one hypothesis, `"populate" \notin MayCrash`: a process that ends while the
initial header is committed leaves a database that is not recognised as
incomplete (section 3.3), and the properties are then false. Everywhere else the
process may end, any number of times. What is committed next is what is in
memory, which a sequencer may have changed: that a block found to be ours is
exactly the published one, zero leaves included, rests on its header being the
last leaf of the archive (`Sealed`, in `ChainOK` and `BuilderOK`); that a torn
database is never built upon, on the order of the commits and on what `Boot`
waits for (`CommitOK`, `SyncOK`). The leaves of an indexed tree lag behind its
nodes only while the archive is still that of the earlier block (`LeavesOK`); a
database that is not torn therefore has none that do, and what is inserted into
it is what the block says.

*Indexed tree* (`TreeAssumption`). The signal of a worker is the level it has
written (`SignalsOK`), a worker is at a level only when its leader is past it
(`FollowsLeader`), and by transitivity behind every leader (`Ascending`): two
workers that touch the same level are never there together, whatever nodes
their paths share.

`LeavesSorted` has an invariant of its own, `ListOK`, since the list changes
once in a batch, before the tree does, and only there. It adds to `SortedList`
that value 0 is always present, so that every new value has a low leaf; that
every value is held by the leaf at its index, so that no two values share one and
the index of a new leaf belongs to none; and that the leaves are numbered without
a gap. `LinkKeepsList` is one round of the loop, for a value that is new,
repeated within the batch or already present; `BatchKeepsList` goes round by round,
through the largest values first, with the least round that breaks the list as a
counterexample (`NatMin`) in place of an induction.

*Thread pools* (`PoolAssumption`: at least one cpu, and calls of up to `NumCpus`
iterations within the bound). `IInv` has two halves. `PoolInv` says for each
strategy what its shared state says of the threads: the mutex pool's two counters
differ by the iterations held; the atomic pool's completed iterations and those in
flight add up to the numbers fetched, up to `n`, and past it every thread has
fetched at most one number too many (`Spent`); the queue of the queued and the
moody pool holds the last iterations in order, and held, completed and queued
ones add up; a spawned thread has left the loop when it is joined. `Once`, the
same for all strategies, says that every iteration below `Handed` is held by one
thread or has ended, and no other was entered. A `raced` state or a crash of
spawning excuses `Once`, not the counters. Every action lemma proves the
invariant and the step of `ParallelFor` together (`StepOK`); the refinement
follows at once. `PointsOnce` follows from `Once` between calls, from the number
of iterations a loop asks for (`Unused`), and from `OneChunk`: chunks of the
rounded-up size contain every point once.

The proof found one flaw of the model: the place a thread goes to after `func`
was a CASE whose arms overlapped for a small loop under spawning; TLC takes the
first arm, TLA+ leaves it open. It is an IF now.

### 5.2 Only model-checked

* All liveness (`DrainsUntilThrown`, `EveryBlockHandled`, `StopsUnlessBlocked`,
  `CatchesUpUnlessAhead`, `FollowsUnlessTorn`, `Terminates`, `BatchCompletes`,
  `Ends`): the prover does not reason about fairness.
* What recursive functions compute on data: the rest of `TreeSound`
  (`TypeOK`, `TreeMatchesLeaves`) and `PathsSequential` of the indexed tree
  (hashes of whole trees of `2^Depth` leaves), `MerkleTree`, the AVM's traces
  (`MachineSound`, `SatisfiesRelations`) and the circuit builder's check
  (`ChecksExactly`) would need induction over trees, programs and lists of gates.
* Not attempted: `BuilderSound` and `CheckRestores` of the circuit builder, and
  `NullifiersLinked`, the part of `NullifiersSound` that is no recursion on trees
  (section 8).

## 6. Assumptions about what is not in the models

LMDB transactions are atomic, durable in order, and undone when their callback
throws. The EVM undoes a reverted frame. L1 does not reorganise (the archiver
says that it does not handle this). The provider indexes blocks in order.
Hashes are injective. Random challenges of the circuit builder separate what is
different. Memory is sequentially consistent between the atomics and locks of
the thread pools (the moody pool's one relaxed counter is only incremented). The circuits compute the state a block leads to. At most
one block given up by the publisher is still in the mempool.

## 7. Not modelled

See `components` in `PROJECT.json`. The models cover a small part of the C++
lines, because most of them have no control state that a model checker could
explore: arithmetic of 254-bit fields and curves, polynomials, hashes,
commitments, provers and verifiers; the stdlib gadgets and their fuzzers, whose
correctness is field algebra; the ACIR deserialiser, which is generated; the
vendored lock-free queue; verifier contracts kept as string constants. The slab
allocator is one mutex around a map of free lists. Of the modelled C++ parts,
left out are: in the circuit builder public inputs, lookup tables, elliptic and
non-native field gates and empty RAM arrays; in the AVM the tags U16, U32 and
U64, which differ from U8 in the width alone, and `reset`; the LevelDB store.

In TypeScript and elsewhere: byte decoding, compilers, client libraries, CLI and
infrastructure. P2P gossip and the transaction pool, PXE, the AVM journal and
transaction selection have control state and are left for later.

## 8. Plan

Done, in this order: MessageBox and Inbox with proofs; the L1 contracts and the
abstract bridge; the archiver; fifo and downloader; the world state; thread
pools with the abstract `ParallelFor`; the indexed tree; the sparse trees; the
AVM witness generator; the circuit builder.

Then the proofs of section 5, in its order.

Proofs left, each with the strengthening it will need:

1. `CircuitBuilder`: `CopyClasses`, from the cycle that `assert_equal` splices.
2. `MerkleTree`: `NullifiersLinked`, along the lines of `ListOK` of
   `IndexedTreeProofs`.

Modelling left:

1. `TxPool` with the P2P client: reconciliation of blocks against gossip that
   arrives late, restart from the last synced block. Correct when no mined
   transaction stays or returns to the pool for good.
2. `PxeSync`: the synchronizer with several note processors, catch-up, deferred
   notes, and a processor that throws. Correct when no processor skips a block
   and a failing processor does not hold up the others.
3. `Sequencer`: transaction selection, the publisher's retries, contract data
   before the block; composed with `WorldState`. Correct when a block is
   published once, only on its predecessor.
4. The AVM journal: fork, accept, reject under nested calls. Correct when a
   rejected call leaves no write and every access remains in the trace.
