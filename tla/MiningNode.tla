------------------------------- MODULE MiningNode -------------------------------
(***************************************************************************)
(* The threads of one node that share its block store and its pool of       *)
(* transactions: the miner (src/miner/mod.rs), the miner's worker           *)
(* (src/miner/worker.rs) and a network worker (src/network/worker.rs),      *)
(* which brings in the blocks and the transactions of other nodes.          *)
(*                                                                         *)
(* Each action is one critical section.  The pool mutex is always free      *)
(* between two of them, except while the miner sleeps: the guard it took to *)
(* fill a block lives to the end of the turn.  The chain mutex is held over *)
(* several of them only by the network worker, which takes the pool mutex   *)
(* once for every transaction of a block it accepts.                        *)
(*                                                                         *)
(* Which transactions a miner finds first depends on the order of a HashMap *)
(* and whether a header meets the difficulty on the nonce: both are choices.*)
(***************************************************************************)
EXTENDS BlockHandling, FiniteSets

CONSTANTS
  BlockLimit,  \* 42 in the code: the most transactions the miner puts in a block
  Lambda,      \* the intervals, in microseconds, that a Start signal can carry
  MaxSignals,  \* bound: how many control signals are sent
  MaxArrivals  \* bound: how often each transaction arrives, from as many peers

ASSUME MiningAssumption ==
  /\ BlockLimit \in Nat \ {0}
  /\ Lambda \subseteq Nat
  /\ MaxSignals \in Nat
  /\ MaxArrivals \in [SignedTx -> Nat]

VARIABLES
  chain,      \* the block store, behind its mutex
  pool,       \* mem_pool, behind its mutex
  receiving,  \* the block (one or none) for which a worker holds the chain mutex
  pc,         \* where the miner thread is in its loop
  operating,  \* operating_state
  parent,     \* the miner's local variable of that name
  signals,    \* control_chan, from the API to the miner
  finished,   \* finished_block_chan, from the miner to its worker
  own,        \* the hashes of the blocks mined here
  sent,       \* how many signals have been sent
  arrivals    \* arrivals[t]: how often t has arrived

minerVars == <<pc, operating, parent, own>>
boundVars == <<sent, arrivals>>
vars == <<chain, pool, receiving, minerVars, signals, finished, boundVars>>

Paused == [mode |-> "Paused"]
Run(lambda) == [mode |-> "Run", lambda |-> lambda]
ShutDown == [mode |-> "ShutDown"]

Exit == [signal |-> "Exit"]
Update == [signal |-> "Update"]
StartSignal(lambda) == [signal |-> "Start", lambda |-> lambda]
ControlSignal == {Exit, Update} \union {StartSignal(i) : i \in Lambda}

ChainIsFree == receiving = {}
PoolIsFree == pc # "sleep"

Init ==
  /\ chain = NewChain
  /\ pool = {}
  /\ receiving = {}
  /\ pc = "top"
  /\ operating = Paused
  /\ parent = ZeroHash
  /\ signals = << >>
  /\ finished = << >>
  /\ own = {}
  /\ sent = 0
  /\ arrivals = [t \in SignedTx |-> 0]

--------------------------------------------------------------------------------
(* The miner thread *)

(* A faulty miner reads the tip without locking the chain. *)
ReadTipUnlocked ==
  /\ pc = "top"
  /\ parent' = chain.tip
  /\ pc' = "signal"
  /\ UNCHANGED <<chain, pool, receiving, operating, own, signals, finished, boundVars>>

(* The top of the loop. *)
ReadTip ==
  /\ pc = "top"
  /\ ChainIsFree
  /\ parent' = chain.tip
  /\ pc' = "signal"
  /\ UNCHANGED <<chain, pool, receiving, operating, own, signals, finished, boundVars>>

(* A faulty paused miner ignores Exit. *)
OperatingWithoutExit(s) ==
  CASE s \in {Exit, Update} -> Paused
    [] s \notin {Exit, Update} -> Run(s.lambda)

(* The state that a signal puts a paused miner in. *)
OperatingAfter(s) ==
  CASE s = Exit -> ShutDown
    [] s = Update -> Paused
    [] s \notin {Exit, Update} -> Run(s.lambda)

(* A paused miner blocks on the control channel and then starts a new turn. *)
SignalWhenPaused ==
  /\ pc = "signal" /\ operating = Paused
  /\ signals # << >>
  /\ operating' = OperatingAfter(Head(signals))
  /\ signals' = Tail(signals)
  /\ pc' = "top"
  /\ UNCHANGED <<chain, pool, receiving, parent, own, finished, boundVars>>

(* A miner that was paused when it was told to exit returns one turn later. *)
Return ==
  /\ pc = "signal" /\ operating = ShutDown
  /\ pc' = "stopped"
  /\ UNCHANGED <<chain, pool, receiving, operating, parent, own, signals,
                 finished, boundVars>>

(* A running miner looks for one signal per turn without blocking. *)
NoSignal ==
  /\ pc = "signal" /\ operating.mode = "Run"
  /\ signals = << >>
  /\ pc' = "build"
  /\ UNCHANGED <<chain, pool, receiving, operating, parent, own, signals,
                 finished, boundVars>>

SignalWhenRunning ==
  /\ pc = "signal" /\ operating.mode = "Run"
  /\ signals # << >>
  /\ LET s == Head(signals)
     IN  \/ /\ s = Exit
            /\ operating' = ShutDown
            /\ pc' = "stopped"
            /\ UNCHANGED parent
         \/ /\ s = Update
            /\ ChainIsFree
            /\ parent' = chain.tip
            /\ pc' = "build"
            /\ UNCHANGED operating
         \/ /\ s \notin {Exit, Update}
            /\ operating' = Run(s.lambda)
            /\ pc' = "build"
            /\ UNCHANGED parent
  /\ signals' = Tail(signals)
  /\ UNCHANGED <<chain, pool, receiving, own, finished, boundVars>>

(* A faulty loop stops one valid transaction too late. *)
VisitsOneMore ==
  {V \in SUBSET pool :
     LET valid == Cardinality(V \intersect SignedTx)
     IN  valid = BlockLimit + 1 \/ (V = pool /\ valid < BlockLimit + 1)}

(* The transactions that the loop over the pool may visit, in some order,   *)
(* before it has BlockLimit valid ones or has seen them all.                *)
Visits ==
  {V \in SUBSET pool :
     LET valid == Cardinality(V \intersect SignedTx)
     IN  valid = BlockLimit \/ (V = pool /\ valid < BlockLimit)}

(* The turn ends here, or with a sleep that keeps the pool locked. *)
EndTurn == pc' = IF operating.lambda = 0 THEN "top" ELSE "sleep"

(* A faulty miner removes the included transactions whether or not it finds *)
(* a block, another leaves them in the pool.                                *)
PoolWithoutVisited(V) == pool \ V
PoolWithIncluded(V) == pool \ (V \ SignedTx)

(* The invalid transactions it has visited leave the pool in every turn,    *)
(* the ones it has included only if it has found a block.                   *)
PoolAfterFailure(V) == pool \ (V \ SignedTx)
PoolAfterSuccess(V) == pool \ V

(* The block does not meet the difficulty. *)
FindNothing ==
  /\ pc = "build"
  /\ \E V \in Visits : pool' = PoolAfterFailure(V)
  /\ EndTurn
  /\ UNCHANGED <<chain, receiving, operating, parent, own, signals, finished,
                 boundVars>>

(* The block goes to the miner's worker, its transactions leave the pool    *)
(* along with the invalid ones.  The difficulty the miner puts in a header  *)
(* is the constant that is also in the genesis header.                      *)
FindBlock(h) ==
  /\ pc = "build"
  /\ Parent[h] = parent
  /\ Difficulty[h] = Difficulty[Genesis]
  /\ HashValue[h] <= Difficulty[h]
  /\ h \notin own \union DOMAIN chain.blocks \union {r.block.hash : r \in receiving}
  /\ own' = own \union {h}
  /\ \E V \in Visits :
       /\ finished' = Append(finished, [hash |-> h, txs |-> V \intersect SignedTx])
       /\ pool' = PoolAfterSuccess(V)
  /\ EndTurn
  /\ UNCHANGED <<chain, receiving, operating, parent, signals, boundVars>>

(* The end of the sleep drops the guard of the pool. *)
WakeUp ==
  /\ pc = "sleep"
  /\ pc' = "top"
  /\ UNCHANGED <<chain, pool, receiving, operating, parent, own, signals,
                 finished, boundVars>>

Miner ==
  \/ ReadTip
  \/ SignalWhenPaused
  \/ Return
  \/ NoSignal
  \/ SignalWhenRunning
  \/ FindNothing
  \/ \E h \in Hash : FindBlock(h)
  \/ WakeUp

--------------------------------------------------------------------------------
(* The miner's worker thread *)

InsertMined ==
  /\ finished # << >>
  /\ ChainIsFree
  /\ chain' = Inserted(chain, Head(finished))
  /\ finished' = Tail(finished)
  /\ UNCHANGED <<pool, receiving, minerVars, signals, boundVars>>

--------------------------------------------------------------------------------
(* The network worker thread *)

(* A block arrives and passes every check; the chain mutex stays locked.    *)
ReceiveBlock(block) ==
  /\ ChainIsFree
  /\ block.hash \notin own
  /\ Disposition(chain, block) = "accepted"
  /\ receiving' = {[block |-> block, todo |-> block.txs]}
  /\ UNCHANGED <<chain, pool, minerVars, signals, finished, boundVars>>

(* Its transactions leave the pool, one critical section each.              *)
Evict(t) ==
  /\ PoolIsFree
  /\ \E r \in receiving :
       /\ t \in r.todo
       /\ receiving' = {[r EXCEPT !.todo = @ \ {t}]}
  /\ pool' = pool \ {t}
  /\ UNCHANGED <<chain, minerVars, signals, finished, boundVars>>

InsertReceived ==
  /\ \E r \in receiving : /\ r.todo = {}
                          /\ chain' = Inserted(chain, r.block)
  /\ receiving' = {}
  /\ UNCHANGED <<pool, minerVars, signals, finished, boundVars>>

(* A transaction arrives and its signature verifies.  It is added unless    *)
(* the pool has it; the store is not consulted.                             *)
ReceiveTransaction(t) ==
  /\ PoolIsFree
  /\ arrivals[t] < MaxArrivals[t]
  /\ arrivals' = [arrivals EXCEPT ![t] = @ + 1]
  /\ pool' = pool \union {t}
  /\ UNCHANGED <<chain, receiving, minerVars, signals, finished, sent>>

HandleBlock == (\E t \in Tx : Evict(t)) \/ InsertReceived

--------------------------------------------------------------------------------
(* Whoever has a Handle of the miner sends it a signal; of these the API   *)
(* server only ever sends Start.                                            *)
SendSignal(s) ==
  /\ sent < MaxSignals
  /\ sent' = sent + 1
  /\ signals' = Append(signals, s)
  /\ UNCHANGED <<chain, pool, receiving, minerVars, finished, arrivals>>

Next ==
  \/ Miner
  \/ InsertMined
  \/ \E block \in Block : ReceiveBlock(block)
  \/ HandleBlock
  \/ \E t \in SignedTx : ReceiveTransaction(t)
  \/ \E s \in ControlSignal : SendSignal(s)

(* Every thread keeps running; nothing makes signals, blocks or             *)
(* transactions arrive, or the miner find a block rather than nothing.      *)
(* No mutex is assumed to be handed out fairly.                             *)
Fairness == WF_vars(Miner) /\ WF_vars(InsertMined) /\ WF_vars(HandleBlock)

Spec == Init /\ [][Next]_vars /\ Fairness

--------------------------------------------------------------------------------
OwnBlocks ==
  {chain.blocks[h] : h \in own \intersect DOMAIN chain.blocks}
    \union Range(finished)

Mentions(blocks, t) == \E b \in blocks : t \in b.txs

OnLongestChain == Range(LongestChain(chain))

Stored(hashes) == {chain.blocks[h] : h \in hashes}

(* Type correctness.                                                        *)
TypeOK ==
  /\ IsChain(chain)
  /\ pool \subseteq Tx
  /\ \A r \in receiving : r.block \in Block /\ r.todo \subseteq r.block.txs
  /\ pc \in {"top", "signal", "build", "sleep", "stopped"}
  /\ operating \in {Paused, ShutDown} \union {Run(i) : i \in Lambda}
  /\ parent \in Hash \union {ZeroHash}
  /\ signals \in Seq(ControlSignal)
  /\ finished \in Seq(Block)
  /\ own \subseteq Hash
  /\ sent \in 0 .. MaxSignals
  /\ arrivals \in [SignedTx -> Nat]
  /\ \A t \in SignedTx : arrivals[t] <= MaxArrivals[t]

(* A mined block can be inserted whenever the miner's worker gets to it,    *)
(* and so can a received block after the pool was locked and unlocked for   *)
(* its transactions: insert() finds the parent, and the store stays sound.  *)
InsertionsAreSafe ==
  /\ ChainInv(chain)
  /\ \A b \in Range(finished) : CanInsert(chain, b)
  /\ \A r \in receiving : Disposition(chain, r.block) = "accepted"

(* The node implements the longest-chain rule, although two threads insert  *)
(* blocks, one of them without looking whether the store has the block: the *)
(* tree grows by blocks whose parent it has, and the head is given up only  *)
(* for a deeper block, whoever mined it.                                    *)
Rule == INSTANCE LongestChainRule
          WITH tree <- DOMAIN chain.blocks, head <- chain.tip

ImplementsRule == Rule!Spec

(* The transaction waits in the pool, is in the blockchain, or is in a      *)
(* block that is on its way to the store.                                   *)
Kept(t) ==
  \/ t \in pool
  \/ Mentions(Stored(OnLongestChain), t)
  \/ Mentions(Range(finished), t)
  \/ \E r \in receiving : t \in r.block.txs

(* A node loses a transaction that has reached it in one way only: to a     *)
(* stored block that is off the longest chain, for the code also takes the  *)
(* transactions of a stale block out of the pool, and does not put back     *)
(* those of a branch that has been overtaken.  Neither a failed turn of     *)
(* the miner, a full block, nor the critical sections of three threads in   *)
(* any order lose one.                                                      *)
LostOnlyToSideBranches ==
  \A t \in SignedTx :
    arrivals[t] > 0 =>
      Kept(t) \/ Mentions(Stored(DOMAIN chain.blocks \ OnLongestChain), t)

(* The miner never puts more than BlockLimit transactions in a block, nor   *)
(* one whose signature does not verify; so a peer accepts the block.        *)
OwnBlocksAreValid ==
  \A b \in OwnBlocks : Cardinality(b.txs) <= BlockLimit /\ b.txs \subseteq SignedTx

(* Whatever headers peers send, a stored block holds signed transactions    *)
(* only, and has the proof of work that the thread which brought it in asks *)
(* for: the difficulty of its parent if it was received, the miner's        *)
(* constant if it was mined here, for the miner's worker inserts without    *)
(* checks.  The two differ as soon as a header carries another difficulty.  *)
StoredBlocksAreValid ==
  \A h \in DOMAIN chain.blocks \ {Genesis} :
    /\ HashValue[h] <= Difficulty[IF h \in own THEN Genesis ELSE Parent[h]]
    /\ chain.blocks[h].txs \subseteq SignedTx

(* The miner cannot mine a transaction more often than it has arrived: the  *)
(* blocks that it is in, and the pool if it waits there again, never count  *)
(* more copies than have come in, although the next block is filled before  *)
(* the last one is stored.                                                  *)
MinedAsOftenAsArrived ==
  \A t \in SignedTx :
    Cardinality({b \in OwnBlocks : t \in b.txs}) + (IF t \in pool THEN 1 ELSE 0)
      <= arrivals[t]

(* As long as the node has no blocks but its own, each block that the miner *)
(* finishes is the parent of the next.  But the miner reads the tip in      *)
(* every turn, and its worker may not have inserted the last block yet.     *)
OwnBlocksChain ==
  DOMAIN chain.blocks \subseteq own \union {Genesis} =>
    \A i \in 1 .. Len(finished) - 1 :
      Parent[finished[i + 1].hash] = finished[i].hash

(* A miner that has been told to exit stops, and stays stopped, whatever    *)
(* was queued before the signal.                                            *)
ExitIsHonoured ==
  (\E i \in DOMAIN signals : signals[i] = Exit) ~> [](pc = "stopped")

(* A block that is being stored is stored although the worker waits for the *)
(* pool with the chain locked, and the miner sleeps with the pool locked:   *)
(* the miner needs the chain before it can lock the pool again, so the      *)
(* worker is not starved even though the mutexes are unfair.                *)
ReceivedBlocksAreStored ==
  \A h \in Hash :
    (\E r \in receiving : r.block.hash = h) ~> HasBlock(chain, h)

================================================================================
