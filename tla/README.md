# Verification of the Bitcoin client

TLA+ specifications of the client in this repository, the TLC configurations
that model-check them on small instances, and proofs that TLAPS checks. Paths
below are relative to the root of the repository.

    tlasany M.tla                          parse a module
    tlc -workers 2 -config X.cfg M         run a configuration
    tlapm M.tla                            check the proofs of a module

`PROJECT.json` lists the runs with the properties of each, the source lines
behind every definition (`map`), the hazards and the disagreements found.

## 1. The system

A node is one process. `src/main.rs` creates the block store, the pool of
transactions (mempool), the server and one channel from the server to the
network workers, and starts the threads that share them.

| Component | State | Operations | Talks to |
|---|---|---|---|
| Block store, `src/blockchain/mod.rs` | `blocks`, `heights`, `tip`, behind one mutex | `new`, `insert`, `tip`, `all_blocks_in_longest_chain` | called by miner, miner's worker, network workers, API |
| Network worker threads (4 by default), `src/network/worker.rs` | an orphan buffer per thread | one arm of `worker_loop` per message: `Ping`, `Pong`, `NewBlockHashes`, `GetBlocks`, `Blocks`, `NewTransactionHashes`, `GetTransactions`, `Transactions` | takes messages from a shared channel, locks store and pool, answers the sending peer, broadcasts |
| Server and peers, `src/network/server.rs`, `peer.rs` | a handle per address, a write queue per connection; a control channel (10000 entries) | `dispatch_control`: `ConnectNewPeer`, `GetNewPeer`, `BroadcastMessage`, `DroppedPeer`; `listener_loop`; a reader and a writer task per connection, all on one thread | the workers through the message channel (10000 entries) |
| Miner thread, `src/miner/mod.rs` | `operating_state`, `parent` | one turn: read tip, look for a control signal, fill and try a block, sleep | signals from the API, blocks to its worker, locks store, then pool |
| Miner's worker thread, `src/miner/worker.rs` | none | insert a finished block and announce it, both with the store locked | the store, the server |
| Transaction generator and its worker, `src/txgenerator` | `operating_state` | look for a signal, generate and sign, sleep; add to the pool and announce | signals from the API, the pool, the server |
| Merkle tree, `src/types/merkle.rs` | `hashes` | `new`, `root`, `proof`, `verify` | block construction |
| Blocks, transactions, hashes, addresses, keys, `src/types` | none | hashing, comparing, signing, verifying | everyone |
| API server, `src/api/mod.rs` | none | starts miner and generator, pings the peers, lists the longest chain | miner, generator, server, store |
| Connecting thread, `src/main.rs` | the addresses left | ask the server for a connection, again after a failure | the server |

What is hard about it, and what makes each part correct:

* **Block store.** Parents come before children; heights are cached; ties keep
  the first tip. Correct when every stored block hangs from genesis at its cached
  height, the tip ends a longest chain and moves only to a strictly longer one.
* **Network workers.** Several threads receive from one channel and lock later,
  so messages overtake each other. The orphan buffer belongs to a thread. The loop
  that empties it edits the vector it walks over, with the store's mutex held, so
  a panic poisons the mutex. Correct when no block is inserted without its
  parent, every inserted block is announced exactly once, and nodes converge.
* **Miner.** It reads the tip, drops the lock, and mines on a tip that may be
  stale; its worker inserts without a check. It holds the pool's lock from the
  choice of transactions to the removal, and through its sleep. Correct when
  insertions cannot fail, the locks lose no transaction and mine none more often than
  it came in, the block limit holds, Exit always stops it, and nobody starves behind
  it who holds the store. (It should also extend its own chain, keep the transactions
  of a lost branch and mine none twice; it does not: section 6.)
* **Transactions.** Membership is decided in the pool only. Correct when a
  transaction reaches every pool, is announced once, and the exchange ends.
* **Server and peers.** Connections come and go, channels fill up, and their
  senders hold the store's or the pool's mutex. Tasks unwrap the results of channels
  whose other ends other tasks and threads drop, a panic in any task ends the
  thread of all, and a thread that finds the server gone panics in its turn and
  poisons what it holds. Correct when live peers get every broadcast, nobody holds a
  mutex for ever, no task panics while the server is needed, and a node that has lost
  its server stops.
* **Transaction generator.** Exit may come at any point of a turn; the interval can
  overflow and kill the thread. Correct when Exit ends it soon, and when however it
  ends its transactions are handed on.
* **Merkle tree.** Correct when every proof verifies for its datum and for no
  other (it does for the first two: section 6).

## 2. The modules

| Module | What it models |
|---|---|
| `Chain` | The store as a record, its methods as operators, and `ChainInv`, what they keep true. A record, so that one specification can hold a store per node. |
| `LongestChainRule` | Abstract specification: a tree that grows, and a head that is a deepest block of it, given up only when it is no longer one. |
| `Blockchain` | One store as a state machine: any insertions that present parents first, repeated ones too. Refines `LongestChainRule` with `tree <- DOMAIN chain.blocks`, `head <- chain.tip`, and so do the store of `MiningNode` and, node by node, the stores of `BlockGossip`. |
| `BlockHandling` | The checks of the arm `Blocks`, in their order: known, orphan, proof of work, signatures. |
| `Network` | Control channel, broadcast, first-in first-out links, idle, busy and dead workers. |
| `BlockGossip` | Nodes composed of miner, miner's worker, network workers (`BlockHandling` on a `Chain`) and `Network`: blocks mined, announced, fetched, delivered, buffered as orphans. Poisoned mutexes included. |
| `MiningNode` | The threads of one node that share store and pool: miner, miner's worker, a network worker, at the grain of critical sections. |
| `TransactionGossip` | Generators, their workers and network workers over `Network`: transactions announced, fetched, delivered, and taken out by blocks. |
| `PeerServer` | One node's server at the grain of connections: listener, dispatcher, readers, writers, connecting thread, bounded channels, workers that hold the store's mutex while they announce, and how all of these end. |
| `TxGenerator` | The generator's control loop and interval, its worker, the pool's mutex and what else may happen to it. |
| `Merkle` | `new` level by level, `proof` and `verify`. |
| `MC...` | Instances for TLC. |
| `ChainTheorems` | Lemmas about the operators of `Chain`; the main one, `InsertedInv`: inserting an insertable block preserves `ChainInv`. Also lemmas about first-in first-out channels. |
| `BlockchainProofs`, `BlockGossipProofs`, `MiningNodeProofs`, `TransactionGossipProofs`, `PeerServerProofs`, `TxGeneratorProofs`, `MerkleProofs` | The theorems (section 5). |

How state and actions correspond to the code:

* `chain.blocks`, `.heights`, `.tip` are the fields of `struct Blockchain`.
  A block is named by its hash; SHA-256 is taken to be free of collisions, so the
  parent, the difficulty and the numeric value of a hash are functions of it.
  Whether a nonce meets the difficulty is the choice of which header is found.
* A method of the store is one step: callers hold the mutex. A whole critical
  section is one action. The two that are not: the orphan loop (`Popping`, one
  action per turn, since a turn may panic) and the eviction of a received block's
  transactions, which locks the pool once for each (`Evict`) with the store
  locked throughout (`receiving`).
* `control[n]` is the server's control channel, `link[n][m]` a peer's write
  queue, the socket and the reader task. The channel that merges the readers is
  left out: a worker takes the head of any of its links, which gives exactly the
  orders that the merged channel can deliver. A worker that is `Busy` holds a
  message and no mutex; that is where messages overtake each other.
* `mining[n]` holds the tip the miner has read; `finished` is the channel to its
  worker; `mined` and `own` record what was mined, so that no header is mined
  twice (a nonce is random).
* In `MiningNode`, `pc` names the position in `miner_loop`. `pc = "sleep"` is
  the sleep with the guard of the pool alive; it is the only time between two
  actions when the pool is locked. `Visits` are the sets of transactions the loop
  over the `HashMap` may have seen when it stops, since the iteration order is
  arbitrary.
* In `PeerServer` a connection is a record: the state of its reader and its
  writer, the message its reader holds (`read`), the length of its write queue.
  `peers` maps an address to the connection whose handle is kept. `HasHandle(i)`
  says that somebody holds a sender of the write queue of `i`; when nobody
  does, the writer's `next()` is `None`. `stored` numbers the blocks that the node
  inserts, `unannounced` are those that `dispatch_control` has not yet written to the
  peers' queues, and a broadcast carries the number of its block. A block that brings
  orphans is inserted before the loop over them (`InsertBlock`), so a worker that
  panics there (`PanicOverOrphans`) leaves a block behind that is stored and not
  announced. Orphans popped from the buffer are broadcast as blocks of number 0: they
  are not stored. All tasks run on one thread:
  a panic in `dispatch_control` drops the control receiver and the executor
  (`server = "gone"`), a panic in any other task leaves `dispatch_control`
  suspended with the receiver open (`"stuck"`): that of a reader or writer, and that of
  `listener_loop` when `accept()` on the listening socket fails for a node that
  connects (`ListenerFails`). The readers' and writers' awaits
  are the boundaries of their actions. Messages are reduced to
  two kinds: answered to the sender (`Ping`), and handled and announced under the
  store's mutex (`Blocks`).
* In `TxGenerator` transactions are numbers in the order in which they are made.
  `holder` and `poisoned` are the pool's mutex; `Others` are the threads that
  lock it meanwhile. `WordSize` stands for 2^64 and `Scale` for 30000.
* In `Merkle` the hash of a datum is the datum and the hash of two hashes is
  their pair; `ZeroHash`, the root of an empty tree, is the empty tuple, which is
  neither. The pointer of `proof` and `verify` and the hash that `verify` carries
  upwards are functions of the level (`Pointer`, `Test`).

Several modules contain operators that a comment calls *faulty*: `InsertedOnTie`,
`ForwardToOne`, `VisitsOneMore` and so on. No specification uses them. Each is a
plausible mistake in the operator that follows it; put in that operator's place,
it makes one property fail (`mutants` in `PROJECT.json`), which shows that the
property depends on the code it is about.

## 3. The runs

| Run | Configuration | Result | What it shows |
|---|---|---|---|
| blockchain | `MCBlockchain` | passes | Any insertion order of any subtree of a binary tree of depth 3: type, rootedness, longest tip, path, refinement of the rule (no flip on a tie). |
| gossip_line | `MCBlockGossipLine` | passes | Four nodes in a line, one worker each. The ends mine two blocks, one on the other's or both on genesis, and hear of each other only through the nodes between, which have to announce what they store: no block before its parent, and all nodes converge. |
| gossip_catch_up | `MCBlockGossipCatchUp` | passes | A node joins late, two workers per node, three siblings of a block it lacks: orphans, panic and poisoning; the stores stay sound, announcements are stored, every node follows the longest-chain rule, and blocks are announced exactly when they are inserted. |
| gossip_late_joiner | `MCBlockGossipLateJoiner` | violates `NodesConverge` | Section 6, 1. |
| gossip_orphans | `MCBlockGossipOrphans` | violates `OrphansWaitForParent` | Section 6, 2. |
| mining | `MCMiningNode` | passes | Miner and network worker race for store and pool, with a branch that overtakes, headers of another difficulty and without proof of work, unsigned transactions, a transaction that arrives twice, and any two signals in any state of the miner: insertions are safe, a transaction is lost to a side branch only and mined no more often than it arrives, blocks are valid, the store implements the longest-chain rule, Exit stops the miner, received blocks get stored past a miner that sleeps with the pool locked. |
| mining_chain | `MCMiningNodeChain` | violates `OwnBlocksChain` | Section 6, 3. |
| merkle | `MCMerkle` | passes | All inputs of up to five data: the loop of `new` ends (each turn adds a level, and the states are finite in number), proofs have the right length, the first two data are proved and nothing else in their place. |
| transactions | `MCTransactionGossip` | passes | A transaction crosses a triangle with two workers per node: every pool gets it, nobody announces it twice, and a block that takes it out meanwhile does not keep the exchange going. |
| server | `MCPeerServer` | passes | Peers come, return from the same port, never read, or leave; the listening socket fails; channels are full; workers broadcast orphans and panic: live peers are served, the server gets stuck only for the named causes, all stored blocks but one are broadcast or queued, the mutex is released, peers that left are forgotten, all workers end once the server has. |
| server_accepts | `MCPeerServerAccepts` | violates `EndlesslyAccepts` | Section 6, 4. |
| generator | `TxGenerator` | passes | The generator ends by Exit, overflow or the loss of its worker, while others lock, poison and lose: nothing is left behind unless the pool is poisoned or the server lost. |

### Bounds

* *Headers.* The gossip runs have two to four besides genesis. Two make a chain;
  a fork arises in the same run when the miner reads its tip again before its
  worker has inserted. Three siblings are the fewest for which the orphan loop
  runs past the end of its buffer. The store alone is checked on the full binary
  tree of depth 3 (a branch that ties, overtakes, and is overtaken again).
* *Nodes and workers.* In a line of four a block reaches a node that is no
  neighbour of its miner's over two others, and each of these has one peer who sends
  it and one who does not. That blocks reach a node over two routes and still
  parents first is proved (`GossipNoBlockBeforeParent`, for any network); the
  transactions take two routes in their run, and two workers fetch one block twice
  in `gossip_catch_up`. Two workers are enough for any two messages to change
  places; one per node is used where order is the question.
* *Transactions.* `BlockLimit = 1` with two valid transactions and one invalid
  reaches the limit (42 in the code) and what lies beyond it. One of the valid
  ones arrives twice, from two peers: the second copy before or after the first was
  mined (`MCMaxArrivals`).
* *Signals.* `MaxSignals = 2` is the shortest queue in which a signal follows an
  Exit; three let the generator be started, started again, and told to exit.
  The miner of `mining` sleeps in every turn, since it is the sleep that others
  have to get past; the generator has `theta = 0` as well.
* *Headers of one node.* `mining` has a header, and beside it one of another
  difficulty with a child that can be mined here and would be refused from a peer: the
  miner mines on a stale tip and forks its own chain, and one branch overtakes the
  other. `mining_chain` needs two siblings.
* *Connections.* Two connections give a peer and one that is gone; they may be
  from one port, one after the other, or one of them made by this node. A control
  channel of two and a message channel of one are full at once; with one entry in the
  control channel no two signals ever wait. One network worker and the miner's
  worker are the two threads that compete for the mutex, and with one worker the
  case that all have died is reached. `MaxEvents = 2` messages, mined blocks or
  pings, in any mixture: a worker can die of the first message while its reader holds
  the second, or compete with the miner's worker. `MaxOrphans = 2` for each block: one
  orphan is broadcast, and a panic or a lost server comes at the next. The error of
  `accept()` on the listening socket comes in place of a connection.
  `server_accepts` needs two callers, and neither a second event nor an orphan.
* *Generator.* Words of eight values with a scale of three: `theta = 2` fits, 3
  overflows. Three transactions: one announced, one with the worker, one queued.
* *Merkle.* Five data are the fewest with an odd level above the leaves.
* `MaxInclusions = 1` lets a transaction leave a pool at any moment of the exchange.

Runs over a system that may fall silent (no block left to mine, no message under
way) have `CHECK_DEADLOCK FALSE`.

### Fairness

Weak fairness is assumed of threads that have something to do: the server's
task, each network worker on receiving and on handling, the miner's worker, the
turns of the miner. Each is a loop in a thread or task of its own that nothing
else schedules. Nothing is assumed to mine a block, generate a transaction, send a
signal, or arrive. No mutex is assumed fair: where a thread waits for one, its
action is simply disabled, and weak fairness gives nothing to an action that is
disabled again and again. `ReceivedBlocksAreStored` holds all the same, because
the network worker waits for the pool with the store locked and the miner needs
the store before it can lock the pool once more. A thread that waits for the
*pool* alone has no such argument: the miner sleeps with the pool locked and
needs no luck to lock it again, so nothing is claimed about those threads
but `MadeIsAnnounced`: the generator's worker gets through *or* others lock the
pool again and again; there is no deadlock behind the starvation.

In `PeerServer` fairness is assumed of `dispatch_control`, of the report of a dropped
peer, of the network workers and of whoever has a block to announce; of readers,
other steps of writers and the connecting thread nothing is assumed. A peer that is up
need not read: writing to it may never end, and nothing depends on it, because
write queues are unbounded. That `connect()` returns is assumed (the operating system
gives up after a while). Who sends on the control channel is treated with strong
fairness. Its room is taken again and again only by the connecting thread, which sleeps
for a second between two attempts while the others wait; all other
senders are bounded by what they have to say.

## 4. Properties worth arguing about

* `InsertionsAreSafe`: the miner's worker inserts without a
  check a block whose parent was read two locks earlier. It is safe because
  stores only grow.
* `NoBlockBeforeParent`: insertion and announcement are one critical section,
  and every queue between is first-in first-out, so parents reach every node
  before children, over any number of hops, *with one worker per node*. With the
  default of four it fails, and with it `NodesConverge` (section 6).
* `AnnouncedWhenInserted`: the blocks that join a store are those announced, even
  when two workers fetch one block from two peers.
* `LostOnlyToSideBranches`: a transaction that has arrived is in the pool, on the
  longest chain, or on its way into a block, *unless a stored block off the longest
  chain has taken it*. That exception is the code's (section 6); the property says
  that filling, eviction and insertion in any order, with locks taken and dropped in
  between, lose nothing else.
* `MinedAsOftenAsArrived`: the next block is filled before the last one is stored, so
  only the removal from the pool under the same lock keeps the miner from using a
  transaction twice. A copy that arrives later is mined again (section 6), so
  what can be said is a count.
* `StoredBlocksAreValid`: the miner measures a block by its constant, a worker by
  the parent's field, and on a header of another difficulty the two disagree; each
  block meets the measure of the thread that brought it in, and no other.
* `PeersAreServed`, `StuckForACause`: `DroppedPeer` names an address, not a
  connection, and the writer unwraps the end of a queue whose senders are in the map of
  peers, in the reader, and in messages under way. Both are safe for peers with an
  address of their own, because only the writer itself reports the peer; a reader
  that reported it as well, which its last comment invites, would kill the server.
  For two connections with one address (a listed peer given twice, a port used
  again) a peer that is up loses its handle and its writer panics; the properties exempt
  it for that reason, and the runs contain it. `StuckForACause` names two more causes:
  the end of all workers, whose channel a reader unwraps, and the error of `accept()`
  on the listening socket, which `start` unwraps.
* `MutexIsReleased`: workers wait for room in the control channel with the store
  locked. They get it because the dispatcher waits for nobody who may wait for
  them: not for a full write queue, not for a writer that is reporting.
* `StoredIsAnnounced`: of all stored blocks but one `dispatch_control` has told the
  peers, or the signal that makes it do so waits in its channel. The one belongs
  to the thread that holds the mutex or has died with it, over an orphan (after the
  insertion) or a server that is gone. Of the signals that a dead or a stuck server
  leaves in its channel nothing better can be said: those blocks are stored and nobody
  hears of them, as many as the channel holds.
* `WorkersFollowServer`: the unwraps make the node stop as a whole when its server is
  gone. When the server is stuck, senders wait for ever instead; that is exempt here
  and in `MutexIsReleased`.
* `NothingLeftBehind`: the generator's panics cost no transaction, because its worker
  drains the channel first. A worker that has died over a lost server or a poisoned
  pool is exempt: what was queued behind is lost then.
* `AnnouncedOnce`, `GossipDiesOut`: the exchange of transactions cannot multiply,
  nor go on for ever between nodes that have mined and nodes that have not.

## 5. What is proved

For all values of the constants that satisfy the named assumptions:

* **The store** (`BlockchainProofs`): `StoreTypeCorrect`, `StoreStaysRooted`,
  `StoreTipIsLongest`, `StoreTipKeptUntilOvertaken` (which the run covers with
  `ImplementsRule`), `StoreLongestChainIsPath`, `StoreImplementsRule`. The inductive invariant is `ChainInv`: the maps share their
  keys, every block hangs from genesis at a height one above its parent's, no height
  exceeds the tip's. None of the parts is inductive alone: `insert` compares a height
  it computes from a cached one, and re-inserting a block must not change its height,
  or its children's would be wrong. Two facts follow from it by induction over
  heights, on the *set* of heights for which they hold (`SetInduction`): the cached
  heights are the true depths, which the refinement needs (`InsertFollowsRule`), and
  the walk back from the tip reaches genesis after as many steps as the tip's height
  says, which makes `all_blocks_in_longest_chain` return a path. Assumed:
  `HeaderAssumption` (genesis and its zero parent) and `DepthAssumption` (parent links
  have no cycle: a header contains the hash of its parent).
* **The gossip** (`BlockGossipProofs`), for any nodes, connections, numbers of workers
  and blocks, and any sound initial stores:
  * `GossipInvariant` and from it `GossipStoresSound` and
    `GossipAnnouncementsAreStored`. `GossipInv` ties all that is under way to the
    store it came from: the tip a miner has read is stored, a finished block is
    insertable, a message announces a block its sender stores, wherever it is
    (control channel, link, worker), a block that travels or waits in a buffer of
    orphans is in some store, and a worker in the orphan loop has stored the block it
    announces at the end. The stores only grow (`StoresGrow`), so what is tied stays
    tied (`StillPossible`); then each action has a lemma. The properties by
    themselves are not inductive: they say nothing of what a worker holds or a miner
    has read.
  * `GossipNodesFollowRule`: a store changes only by the insertion of a block whose
    parent it holds (`StoreStep`), and each insertion is a step of the longest-chain
    rule.
  * `GossipMutexAndFresh`: at most one worker of a node is in the orphan loop, since
    it runs under the mutex, and a block that a miner has finished is in no store and
    in one channel until its worker inserts it. `GossipAnnouncedWhenInserted` needs
    both: without the first, the block that one worker has still to announce could be
    that of another; without the second, the miner's worker could announce a block
    that the store has already.
  * `GossipTypeCorrect`.
  * `GossipNoBlockBeforeParent`, for nodes that start with genesis and mine valid
    blocks and have one worker each (`AllStartAnew`, `AllPassChecks`, `SingleWorker`,
    the hypotheses of the theorem, which the run `gossip_line` satisfies; a node
    that joins late gets an orphan, and so does one of whose workers the second
    overtakes the first: section 6). `PairInv(n, m)` looks
    at the way from `n` to `m` as a pipeline: announced, heard, asked, served,
    answered, delivered. Every queue on it is in order: a block is behind its parent,
    or its parent is in a later stage, or stored by `m` already. Every block of `n` is
    in some stage. `CalmInv` adds that nobody has an orphan, without which the orphan
    loop would broadcast blocks outside the pipeline. A single worker is what keeps a
    message from passing the one that another worker holds.

  Assumed: `HeaderAssumption`, `DepthAssumption`, `NetworkAssumption`,
  `HandlingAssumption`, `GossipAssumption`.

* **The mining node** (`MiningNodeProofs`): `MiningInsertionsAreSafe`,
  `MiningLostOnlyToSideBranches`, `MiningMinedAsOftenAsArrived`,
  `MiningOwnBlocksAreValid`, `MiningStoredBlocksAreValid`, `MiningImplementsRule`,
  `MiningTypeCorrect`, for any headers, difficulties, block limits and numbers of
  arrivals. They rest on `FlowInv`:
  the tip the miner has read is stored; a finished block is new, there once, and its
  parent is stored; a received block still passes every check, because its worker
  has kept the chain's mutex while it waited for the pool. `InsertionsAreSafe` alone
  is not inductive: without the parent that the miner has read it says nothing of
  the next block found, and without "new" an insertion could replace a stored block
  and lose its transactions. `LostOnlyToSideBranches` follows from `AccountedInv` (in
  the pool, in a stored block, or on its way), which unlike the property does not
  change when a branch overtakes. `MinedAsOftenAsArrived` is inductive together with
  the finiteness that counting needs (`CountInv`), and so are the limit and the
  signatures (`ValidInv`). Both ways into the store, the
  miner's worker and the network worker, insert blocks whose parent is stored
  (`ChainStep`), so the store implements the longest-chain rule while they race. The
  type invariant needs to know in which turns of the miner it is running and what its
  signals have done (`ControlInv`).
* **The server** (`PeerServerProofs`): `ServerPeersAreServed`,
  `ServerStuckForACause`, `ServerStoredIsAnnounced`, `ServerTypeCorrect`, for any callers, known peers,
  workers and capacities. `PeersInv` adds to the property what the control channel
  may hold: a stream in it is there once and has no tasks yet; an address to be
  removed is that of a connection whose writer has ended; the connecting thread
  waits for one result at most. Without the second, `DroppedPeer` could remove a
  peer that is served, which is what happens when an address is used twice:
  `HasOwnAddress` in the properties is needed. `StuckForACause` follows, since a writer fails only
  when nobody holds its queue. `StoredIsAnnounced` has invariants of its own: who has a
  block to announce holds the mutex (`MutexInv`), and every other stored block is
  broadcast or queued (`AnnouncedInv`).
  In the type invariant, the capacities of the two channels are what counts: each
  sender looks for room in the action in which it sends (`RoomInv`).
  Assumed: `ServerAssumption`.
* **The generator** (`TxGeneratorProofs`): `GeneratorLeavesNothing`,
  `GeneratorTypeCorrect`. `OrderInv` says that the transactions announced, the one
  the worker is with and those in the channel are, in this order, all that were
  generated, unless the worker has died over a poisoned pool or a lost server.
* **Transactions** (`TransactionGossipProofs`), for any network: `GossipInvariant`,
  `GossipAnnouncedIsPooled`, `GossipAnnouncedOnce`. As long as no block has taken a
  transaction out, pools only grow, so what a node could once send it can still send
  (`MayGrow`). `GossipInv` says of every channel, link and worker that what is in it is
  sendable by the node it came from, and that a transaction still in a generator's
  channel is nowhere else: in no pool and in no answer. So it is new to the pool when
  the generator's worker adds it, and a transaction is announced only in the step that
  puts it into the pool. `OnceInv` counts: the announcements of a transaction under way
  to a peer, in the control channel, in the link and with workers about to make one,
  never exceed its `Budget`, one for its stay in the pool and one for each block that
  has been included. Assumed: `TransactionAssumption`, `NetworkAssumption`.

* **The Merkle tree** (`MerkleProofs`), for any number of data: `MerkleTreeInvariant`
  and from it `MerkleLevelsShrink`, `MerkleProofIsShort`, `MerkleProofStaysInTree`,
  `MerkleFirstPairIsProved`; and `VerifyTellsApart`, which is about `verify` alone.
  `TreeInv` says of every level that it has half as many hashes as the one below,
  rounded up, that 2^(k-1) times their number (on level k) is the least such multiple
  that reaches the number of data, that it is evened out, and that its first hash is
  that of the first two below. The length of a proof alone is not inductive: it
  needs how far the levels have shrunk. `MerkleLevelsShrink` is what the end of the
  loop rests on: its levels get shorter. `MerkleProofStaysInTree` is why `proof` never
  indexes past a level: its pointer stays among the hashes a level had before it was
  evened out, so the neighbour it reads is there, be it the copy that was added.
  `MerkleFirstPairIsProved` walks up the first hashes of the levels, where `new` and
  `verify` pair the same positions (section 6 is about the others), and no other
  datum verifies, since the hash of two hashes determines both. `Power`, `Pointer` and
  `Test` are recursive functions; that they satisfy their equations is proved here
  first (`IteratesExists`, `PowerStep`, `PointerStep`, `TestStep`), by induction over
  the *set* of the arguments for which it holds. Assumed: `MerkleAssumption` (no
  datum's hash is the zero hash), and that SHA-256 is free of collisions.

Every safety invariant, every action property and every refinement that a passing
run checks is proved. Liveness stays with the runs, since this prover has neither
fairness nor ENABLED: `NodesConverge`, `ReceivedBlocksAreStored`, `ExitIsHonoured` of
`MiningNode` and `TxGenerator`, `EveryPoolGetsEveryTransaction`, `GossipDiesOut`,
`MutexIsReleased`, `DeadPeersAreForgotten`, `WorkersFollowServer`, `MadeIsAnnounced`.

## 6. Where the code disagrees with its documents and tests

1. *An orphan is never inserted* (`src/network/worker.rs:181`). When its parent
   arrives it leaves the buffer and is broadcast to the peers, who have it and
   ignore it. `Project6/README.md:30` asks to process it, `:36` that all nodes
   have the same tree. A node that joins late stays behind for ever. Run
   `gossip_late_joiner`.
2. *The orphan loop panics* (`:175`). It counts to the length the buffer
   had before removals and corrects its index by one only. Three orphans of one
   parent end the thread with the store's mutex poisoned, and then every thread
   that locks it. Run `gossip_orphans`.
3. *The miner forks its own chain* (`src/miner/mod.rs:204`): `parent` is set to the
   block just found and overwritten at the top of the loop (`:109`) by a tip that its
   worker may not have moved yet. The test `miner_three_block` (`:240`) asserts that
   each finished block is the parent of the next. Run `mining_chain`.
4. *The server stops accepting* (`src/network/server.rs:96`). A connection that is
   reset before the server registers it has no peer address any more; the error
   ends `dispatch_control`. The comment at `:64` promises "the loop that endlessly
   accept incoming peers". Every thread that broadcasts afterwards panics. Run
   `server_accepts`.

More, contained in the models, and exempt from their properties where these would
fail over them, or read in the code; there is no run for them:

* Connected nodes with several workers need not converge (`src/network/worker.rs:59`,
  `:61`, against `Project6/README.md:36`). The workers of a node share a channel and
  have a buffer of orphans each. One worker can handle a block before another has
  inserted its parent; it becomes an orphan that nothing sends again, even between
  two nodes that were connected from the start. The same happens when another worker
  than the one that buffered the orphan inserts the parent.
* A lost branch takes its transactions with it (`src/network/worker.rs:166`):
  blocks on any branch empty the pool, none returns its transactions when it is
  overtaken; `Project7/README.md:52` has the mempool store all received
  transactions not yet included in the blockchain, `:54` excepts stale blocks.
* A block's own difficulty field is not compared with its parent's
  (`src/network/worker.rs:142`, against `Project6/README.md:20`).
* A transaction that is already on the chain is accepted into the pool again and
  mined again (`:262`, against `Project7/README.md:52`).
* Merkle proofs fail for the third datum on (`src/types/merkle.rs:55`, against
  `Project2/README.md:27`): `new` hashes positions i and i + 1, `proof` and `verify`
  pair 2i and 2i + 1.
* A peer that reconnects from the same address can be removed with its predecessor
  (`src/network/server.rs:100`).
* A large `theta` makes a release build generate faster, not slower
  (`src/txgenerator/mod.rs:183`, against the comment at `:26`).

## 7. What is not modelled

* Serialization, SHA-256, Ed25519, addresses, command line, HTTP, logging.
* Messages with several elements: every sender in this program puts one block,
  transaction or hash in a message, and an answer has no more elements than its
  request; the loops over several elements are reached only by other programs.
* `SendToPeer`: unimplemented in the code, and nothing sends it.
* Messages that do not deserialize, frames cut short: nodes of this program do not
  send them.
* Connections in the modules about gossip: links persist there and queues are
  unbounded; `PeerServer` has connections and bounds, and no contents.
* What the pool's mutex does to network workers in `PeerServer`: a worker that
  announces a transaction holds no mutex; the two that announce with the pool locked
  are the generator's worker (`TxGenerator`) and the miner, who does not announce.
* Blocks with transactions across several nodes: `BlockGossip` has empty blocks,
  `MiningNode` one node, `TransactionGossip` blocks only as evictions.

## 8. Plan

Written, in this order: `Chain`, `Blockchain` with its rule and proofs;
`BlockHandling`, `Network`, `BlockGossip` with its proofs; `MiningNode` with its
proofs; `TransactionGossip`, `PeerServer`, `TxGenerator` and `Merkle`, with theirs.

Next, modelling:

1. `Node`: blocks with transactions between two nodes; `MiningNode` shown to be
   what a node does to its own pool and store.
2. `NetworkWorker`: messages of several elements, for peers that run another program.

Next, proofs: what `Node` keeps of the theorems about its parts, and the safety
that liveness rests on, such as that a thread which waits for a mutex is not in the
way of the thread which holds it.
