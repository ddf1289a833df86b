--------------------------- MODULE MiningNodeProofs ---------------------------
(***************************************************************************)
(* Theorems about MiningNode: insertions never fail, transactions are lost  *)
(* only to side branches and mined as often as they arrive at most, and     *)
(* only valid blocks are stored, for any tree of headers, any difficulties  *)
(* and any numbers of signals, transactions and arrivals.                   *)
(***************************************************************************)
EXTENDS MiningNode, ChainTheorems, FiniteSetTheorems

StoreInv ==
  /\ ChainInv(chain)
  /\ pc \in {"signal", "build"} => parent \in DOMAIN chain.blocks

(* What the miner has finished is new, each block of it once, and can be    *)
(* inserted.                                                                *)
MinedInv ==
  /\ own \subseteq Hash
  /\ finished \in Seq(Block)
  /\ \A k \in DOMAIN finished :
       /\ finished[k].hash \in own \ DOMAIN chain.blocks
       /\ Parent[finished[k].hash] \in DOMAIN chain.blocks
       /\ HashValue[finished[k].hash] <= Difficulty[Genesis]
  /\ \A k, l \in DOMAIN finished : finished[k].hash = finished[l].hash => k = l

(* The block that is being stored is none of the miner's and passes all     *)
(* checks still, because its worker has kept the chain's mutex.             *)
ReceivingInv ==
  /\ \A r, s \in receiving : r = s
  /\ \A r \in receiving :
       /\ r \in [block : Block, todo : SUBSET Tx]
       /\ r.todo \subseteq r.block.txs
       /\ r.block.hash \notin own
       /\ Disposition(chain, r.block) = "accepted"

FlowInv == StoreInv /\ MinedInv /\ ReceivingInv

--------------------------------------------------------------------------------
(* A block that passes every check. *)
LEMMA AcceptedBlock ==
  ASSUME ChainInv(chain), NEW block \in Block, Disposition(chain, block) = "accepted"
  PROVE  /\ ~HasBlock(chain, block.hash) /\ CanInsert(chain, block)
         /\ HashValue[block.hash] <= Difficulty[Parent[block.hash]]
         /\ block.txs \subseteq SignedTx
<1>1. /\ ~HasBlock(chain, block.hash) /\ HasBlock(chain, Parent[block.hash])
      /\ ~(HashValue[block.hash] > Difficulty[Parent[block.hash]])
      /\ block.txs \subseteq SignedTx
  BY DEF Disposition
<1>2. DOMAIN chain.heights = DOMAIN chain.blocks /\ DOMAIN chain.blocks \subseteq Hash
  BY ChainFacts DEF ChainInv
<1>3. HashValue[block.hash] \in Nat /\ Difficulty[Parent[block.hash]] \in Nat
  BY <1>1, <1>2, HandlingAssumption DEF HasBlock, Block
<1> QED
  BY <1>1, <1>2, <1>3 DEF HasBlock, CanInsert

(* The store after a block that it did not have is inserted. *)
LEMMA StoreGrows ==
  ASSUME ChainInv(chain), NEW block \in Block, CanInsert(chain, block),
         ~HasBlock(chain, block.hash), chain' = Inserted(chain, block)
  PROVE  /\ ChainInv(chain)'
         /\ DOMAIN chain'.blocks = DOMAIN chain.blocks \union {block.hash}
         /\ \A h \in DOMAIN chain.blocks : chain'.blocks[h] = chain.blocks[h]
         /\ chain'.blocks[block.hash] = block
         /\ block.hash \in Hash \ {Genesis} /\ Parent[block.hash] \in DOMAIN chain.blocks
<1>1. chain'.blocks = Put(chain.blocks, block.hash, block)
  BY InsertedFields
<1>2. ChainInv(Inserted(chain, block))
  BY InsertedInv
<1>3. /\ block.hash \in Hash \ {Genesis} /\ Parent[block.hash] \in DOMAIN chain.blocks
  BY InsertableIsNotGenesis DEF ChainInv
<1> QED
  BY <1>1, <1>2, <1>3 DEF Put, HasBlock

(* Steps that leave the store and what is on its way to it.                 *)
QuietStep ==
  /\ UNCHANGED <<chain, receiving, own, finished>>
  /\ pc' \in {"signal", "build"} =>
       parent' = chain.tip \/ (parent' = parent /\ pc \in {"signal", "build"})

LEMMA QuietKeepsFlow ==
  ASSUME FlowInv, QuietStep
  PROVE  FlowInv'
<1>1. chain.tip \in DOMAIN chain.blocks
  BY ChainFacts DEF FlowInv, StoreInv, ChainInv
<1>2. StoreInv'
  BY <1>1 DEF FlowInv, StoreInv, QuietStep
<1> QED
  BY <1>2 DEF FlowInv, QuietStep, MinedInv, ReceivingInv

LEMMA QuietSteps ==
  ASSUME \/ ReadTip \/ SignalWhenPaused \/ Return \/ NoSignal \/ SignalWhenRunning
         \/ FindNothing \/ WakeUp
         \/ \E t \in SignedTx : ReceiveTransaction(t)
         \/ \E s \in ControlSignal : SendSignal(s)
         \/ UNCHANGED vars
  PROVE  QuietStep
<1>1. CASE ReadTip \/ SignalWhenPaused \/ Return \/ NoSignal \/ WakeUp
  BY <1>1 DEF ReadTip, SignalWhenPaused, Return, NoSignal, WakeUp, QuietStep
<1>2. CASE SignalWhenRunning
  BY <1>2 DEF SignalWhenRunning, QuietStep
<1>3. CASE FindNothing
  BY <1>3 DEF FindNothing, EndTurn, QuietStep
<1>4. CASE \/ \E t \in SignedTx : ReceiveTransaction(t)
           \/ \E s \in ControlSignal : SendSignal(s)
           \/ UNCHANGED vars
  BY <1>4 DEF ReceiveTransaction, SendSignal, vars, minerVars, QuietStep
<1> QED
  BY <1>1, <1>2, <1>3, <1>4

LEMMA FindBlockKeepsFlow ==
  ASSUME FlowInv, NEW h \in Hash, FindBlock(h)
  PROVE  FlowInv'
<1>1. /\ pc = "build" /\ Parent[h] = parent /\ Difficulty[h] = Difficulty[Genesis]
      /\ HashValue[h] <= Difficulty[h]
      /\ h \notin own \union DOMAIN chain.blocks \union {r.block.hash : r \in receiving}
      /\ own' = own \union {h} /\ UNCHANGED <<chain, receiving>>
  BY DEF FindBlock
<1>2. PICK V \in Visits :
        finished' = Append(finished, [hash |-> h, txs |-> V \intersect SignedTx])
  BY DEF FindBlock
<1> DEFINE b == [hash |-> h, txs |-> V \intersect SignedTx]
           n == Len(finished) + 1
<1>3. b \in Block /\ b.hash = h
  BY HandlingAssumption DEF Block
<1> HIDE DEF b
<1>4. /\ finished' \in Seq(Block)
      /\ \A k \in DOMAIN finished' : k \in DOMAIN finished \/ k = n
      /\ \A k \in DOMAIN finished : finished'[k] = finished[k]
      /\ finished'[n] = b
  BY <1>2, <1>3, Sent DEF FlowInv, MinedInv, b
<1> HIDE DEF n
<1>5. parent \in DOMAIN chain.blocks
  BY <1>1 DEF FlowInv, StoreInv
<1>6. StoreInv'
  BY <1>1 DEF FlowInv, StoreInv, FindBlock, EndTurn
<1>7. MinedInv'
  <2>1. own' \subseteq Hash
    BY <1>1 DEF FlowInv, MinedInv
  <2>2. \A k \in DOMAIN finished' :
          /\ finished'[k].hash \in own' \ DOMAIN chain'.blocks
          /\ Parent[finished'[k].hash] \in DOMAIN chain'.blocks
          /\ HashValue[finished'[k].hash] <= Difficulty[Genesis]
    BY <1>1, <1>3, <1>4, <1>5 DEF FlowInv, MinedInv
  <2>3. \A k, l \in DOMAIN finished' : finished'[k].hash = finished'[l].hash => k = l
    BY <1>1, <1>3, <1>4 DEF FlowInv, MinedInv
  <2> QED
    BY <1>4, <2>1, <2>2, <2>3 DEF MinedInv
<1>8. ReceivingInv'
  BY <1>1 DEF FlowInv, ReceivingInv
<1> QED
  BY <1>6, <1>7, <1>8 DEF FlowInv

(* The miner's worker stores the first of the finished blocks. *)
LEMMA InsertMinedStores ==
  ASSUME FlowInv, InsertMined
  PROVE  /\ ChainInv(chain)'
         /\ Head(finished) \in Block /\ Head(finished).hash \in own
         /\ HashValue[Head(finished).hash] <= Difficulty[Genesis]
         /\ DOMAIN chain'.blocks = DOMAIN chain.blocks \union {Head(finished).hash}
         /\ \A h \in DOMAIN chain.blocks : chain'.blocks[h] = chain.blocks[h]
         /\ chain'.blocks[Head(finished).hash] = Head(finished)
         /\ finished' \in Seq(Block)
         /\ 1 \in DOMAIN finished /\ finished[1] = Head(finished)
         /\ \A k \in DOMAIN finished' :
              k \in Nat /\ k # 0 /\ k + 1 \in DOMAIN finished /\ finished'[k] = finished[k + 1]
<1>1. /\ finished' \in Seq(Block)
      /\ 1 \in DOMAIN finished /\ finished[1] = Head(finished) /\ Head(finished) \in Block
      /\ \A k \in DOMAIN finished' :
           k \in Nat /\ k # 0 /\ k + 1 \in DOMAIN finished /\ finished'[k] = finished[k + 1]
  BY Taken DEF InsertMined, FlowInv, MinedInv
<1>2. /\ Head(finished).hash \in own \ DOMAIN chain.blocks
      /\ Parent[Head(finished).hash] \in DOMAIN chain.blocks
      /\ HashValue[Head(finished).hash] <= Difficulty[Genesis]
  BY <1>1 DEF FlowInv, MinedInv
<1>3. CanInsert(chain, Head(finished)) /\ ~HasBlock(chain, Head(finished).hash)
  BY <1>2, ChainFacts DEF FlowInv, StoreInv, ChainInv, CanInsert, HasBlock
<1>4. chain' = Inserted(chain, Head(finished)) /\ ChainInv(chain)
  BY DEF InsertMined, FlowInv, StoreInv
<1> QED
  BY <1>1, <1>2, <1>3, <1>4, StoreGrows

LEMMA InsertMinedKeepsFlow ==
  ASSUME FlowInv, InsertMined
  PROVE  FlowInv'
<1> DEFINE b == Head(finished)
<1>1. /\ ChainInv(chain)'
      /\ DOMAIN chain'.blocks = DOMAIN chain.blocks \union {b.hash}
      /\ finished' \in Seq(Block)
      /\ 1 \in DOMAIN finished /\ finished[1] = b
      /\ \A k \in DOMAIN finished' :
           k \in Nat /\ k # 0 /\ k + 1 \in DOMAIN finished /\ finished'[k] = finished[k + 1]
  BY InsertMinedStores
<1>2. receiving = {} /\ UNCHANGED <<receiving, pc, parent, own>>
  BY DEF InsertMined, ChainIsFree, minerVars
<1> HIDE DEF b
<1>3. StoreInv'
  BY <1>1, <1>2 DEF FlowInv, StoreInv
<1>4. \A k \in DOMAIN finished' :
        /\ finished'[k].hash \in own' \ DOMAIN chain'.blocks
        /\ Parent[finished'[k].hash] \in DOMAIN chain'.blocks
        /\ HashValue[finished'[k].hash] <= Difficulty[Genesis]
  <2> SUFFICES ASSUME NEW k \in DOMAIN finished'
               PROVE  /\ finished'[k].hash \in own' \ DOMAIN chain'.blocks
                      /\ Parent[finished'[k].hash] \in DOMAIN chain'.blocks
                      /\ HashValue[finished'[k].hash] <= Difficulty[Genesis]
    OBVIOUS
  <2>1. finished[k + 1].hash # finished[1].hash
    <3>1. k + 1 # 1
      BY <1>1
    <3> QED
      BY <1>1, <3>1 DEF FlowInv, MinedInv
  <2> QED
    BY <1>1, <1>2, <2>1 DEF FlowInv, MinedInv
<1>5. \A k, l \in DOMAIN finished' : finished'[k].hash = finished'[l].hash => k = l
  <2> SUFFICES ASSUME NEW k \in DOMAIN finished', NEW l \in DOMAIN finished',
                      finished'[k].hash = finished'[l].hash
               PROVE  k = l
    OBVIOUS
  <2>1. k + 1 = l + 1
    BY <1>1 DEF FlowInv, MinedInv
  <2> QED
    BY <1>1, <2>1
<1>6. MinedInv'
  BY <1>1, <1>2, <1>4, <1>5 DEF FlowInv, MinedInv
<1>7. ReceivingInv'
  BY <1>2 DEF ReceivingInv
<1> QED
  BY <1>3, <1>6, <1>7 DEF FlowInv

LEMMA ReceiveBlockKeepsFlow ==
  ASSUME FlowInv, NEW block \in Block, ReceiveBlock(block)
  PROVE  FlowInv'
<1>1. /\ block.hash \notin own /\ Disposition(chain, block) = "accepted"
      /\ receiving' = {[block |-> block, todo |-> block.txs]}
      /\ UNCHANGED <<chain, pc, parent, own, finished>>
  BY DEF ReceiveBlock, minerVars
<1>2. [block |-> block, todo |-> block.txs] \in [block : Block, todo : SUBSET Tx]
  BY DEF Block
<1>3. ReceivingInv'
  BY <1>1, <1>2 DEF ReceivingInv
<1> QED
  BY <1>1, <1>3 DEF FlowInv, StoreInv, MinedInv

LEMMA EvictKeepsFlow ==
  ASSUME FlowInv, NEW t \in Tx, Evict(t)
  PROVE  /\ FlowInv'
         /\ pool' = pool \ {t}
         /\ \E r \in receiving, s \in receiving' :
              /\ receiving = {r} /\ receiving' = {s} /\ s.block = r.block /\ t \in r.block.txs
<1>1. PICK r \in receiving : t \in r.todo /\ receiving' = {[r EXCEPT !.todo = @ \ {t}]}
  BY DEF Evict
<1> DEFINE s == [r EXCEPT !.todo = @ \ {t}]
<1>2. /\ r \in [block : Block, todo : SUBSET Tx] /\ r.todo \subseteq r.block.txs
      /\ r.block.hash \notin own /\ Disposition(chain, r.block) = "accepted"
      /\ receiving = {r}
  BY <1>1 DEF FlowInv, ReceivingInv
<1>3. s \in [block : Block, todo : SUBSET Tx] /\ s.block = r.block /\ s.todo \subseteq s.block.txs
  BY <1>2
<1> HIDE DEF s
<1>4. receiving' = {s} /\ UNCHANGED <<chain, pc, parent, own, finished>> /\ pool' = pool \ {t}
  BY <1>1 DEF Evict, minerVars, s
<1>5. ReceivingInv'
  BY <1>2, <1>3, <1>4 DEF ReceivingInv
<1>6. FlowInv'
  BY <1>4, <1>5 DEF FlowInv, StoreInv, MinedInv
<1> QED
  BY <1>1, <1>2, <1>3, <1>4, <1>6

(* The network worker stores the block that it has received. *)
LEMMA InsertReceivedStores ==
  ASSUME FlowInv, InsertReceived
  PROVE  \E r \in receiving :
           /\ receiving = {r} /\ r.block \in Block /\ r.block.hash \notin own
           /\ HashValue[r.block.hash] <= Difficulty[Parent[r.block.hash]]
           /\ r.block.txs \subseteq SignedTx
           /\ ChainInv(chain)'
           /\ DOMAIN chain'.blocks = DOMAIN chain.blocks \union {r.block.hash}
           /\ \A h \in DOMAIN chain.blocks : chain'.blocks[h] = chain.blocks[h]
           /\ chain'.blocks[r.block.hash] = r.block
<1>1. PICK r \in receiving : chain' = Inserted(chain, r.block)
  BY DEF InsertReceived
<1>2. /\ receiving = {r} /\ r.block \in Block /\ r.block.hash \notin own
      /\ Disposition(chain, r.block) = "accepted" /\ ChainInv(chain)
  BY <1>1 DEF FlowInv, ReceivingInv, StoreInv
<1>3. /\ ~HasBlock(chain, r.block.hash) /\ CanInsert(chain, r.block)
      /\ HashValue[r.block.hash] <= Difficulty[Parent[r.block.hash]]
      /\ r.block.txs \subseteq SignedTx
  BY <1>2, AcceptedBlock
<1> QED
  BY <1>1, <1>2, <1>3, StoreGrows

LEMMA InsertReceivedKeepsFlow ==
  ASSUME FlowInv, InsertReceived
  PROVE  FlowInv'
<1>1. PICK r \in receiving :
        /\ r.block.hash \notin own
        /\ ChainInv(chain)'
        /\ DOMAIN chain'.blocks = DOMAIN chain.blocks \union {r.block.hash}
  BY InsertReceivedStores
<1>2. receiving' = {} /\ UNCHANGED <<pc, parent, own, finished>>
  BY DEF InsertReceived, minerVars
<1>3. StoreInv' /\ MinedInv'
  BY <1>1, <1>2 DEF FlowInv, StoreInv, MinedInv
<1> QED
  BY <1>2, <1>3 DEF FlowInv, ReceivingInv

LEMMA FlowStep ==
  ASSUME FlowInv, [Next]_vars
  PROVE  FlowInv'
BY QuietSteps, QuietKeepsFlow, FindBlockKeepsFlow, InsertMinedKeepsFlow,
   ReceiveBlockKeepsFlow, EvictKeepsFlow, InsertReceivedKeepsFlow
   DEF Next, Miner, HandleBlock

LEMMA FlowInit ==
  ASSUME Init
  PROVE  FlowInv
<1>1. ChainInv(chain) /\ pc = "top" /\ own = {} /\ finished = << >> /\ receiving = {}
  BY NewChainInv DEF Init
<1>2. finished \in Seq(Block) /\ DOMAIN finished = {}
  BY <1>1
<1> QED
  BY <1>1, <1>2 DEF FlowInv, StoreInv, MinedInv, ReceivingInv

LEMMA FlowInvariant == Spec => []FlowInv
<1>1. Init => FlowInv
  BY FlowInit
<1>2. FlowInv /\ [Next]_vars => FlowInv'
  BY FlowStep
<1> QED
  BY <1>1, <1>2, PTL DEF Spec

(* The miner's worker and the network worker never insert a block whose     *)
(* parent is missing, and what a worker has checked stays true while it     *)
(* waits for the pool.                                                      *)
THEOREM MiningInsertionsAreSafe == Spec => []InsertionsAreSafe
<1>1. FlowInv => InsertionsAreSafe
  <2> SUFFICES ASSUME FlowInv
               PROVE  InsertionsAreSafe
    OBVIOUS
  <2>1. \A b \in Range(finished) : CanInsert(chain, b)
    BY ChainFacts DEF FlowInv, StoreInv, MinedInv, ChainInv, CanInsert, Range
  <2> QED
    BY <2>1 DEF FlowInv, StoreInv, ReceivingInv, InsertionsAreSafe
<1> QED
  BY <1>1, FlowInvariant, PTL

--------------------------------------------------------------------------------
(* The blocks that the miner has found, stored or on their way. *)

(* Only finding a block adds to them. *)
LEMMA OwnBlocksStep ==
  ASSUME FlowInv, [Next]_vars,
         ~\E h \in Hash : FindBlock(h)
  PROVE  OwnBlocks' \subseteq OwnBlocks
<1>1. CASE QuietStep
  BY <1>1 DEF QuietStep, OwnBlocks
<1>2. CASE InsertMined
  <2>1. own' = own
    BY <1>2 DEF InsertMined, minerVars
  <2> SUFFICES ASSUME NEW b \in OwnBlocks'
               PROVE  b \in OwnBlocks
    OBVIOUS
  <2>2. CASE \E h \in own' \intersect DOMAIN chain'.blocks : b = chain'.blocks[h]
    BY <1>2, <2>1, <2>2, InsertMinedStores DEF OwnBlocks, Range
  <2>3. CASE \E k \in DOMAIN finished' : b = finished'[k]
    BY <1>2, <2>3, InsertMinedStores DEF OwnBlocks, Range
  <2> QED
    BY <2>2, <2>3 DEF OwnBlocks, Range
<1>3. ASSUME NEW block \in Block, ReceiveBlock(block)
      PROVE  OwnBlocks' \subseteq OwnBlocks
  BY <1>3 DEF ReceiveBlock, OwnBlocks, minerVars
<1>4. ASSUME NEW t \in Tx, Evict(t)
      PROVE  OwnBlocks' \subseteq OwnBlocks
  BY <1>4 DEF Evict, OwnBlocks, minerVars
<1>5. CASE InsertReceived
  <2>1. own' = own /\ finished' = finished
    BY <1>5 DEF InsertReceived, minerVars
  <2>2. PICK r \in receiving :
          /\ r.block.hash \notin own
          /\ DOMAIN chain'.blocks = DOMAIN chain.blocks \union {r.block.hash}
          /\ \A h \in DOMAIN chain.blocks : chain'.blocks[h] = chain.blocks[h]
    BY <1>5, InsertReceivedStores
  <2> QED
    BY <2>1, <2>2 DEF OwnBlocks
<1> QED
  BY <1>1, <1>2, <1>3, <1>4, <1>5, QuietSteps DEF Next, Miner, HandleBlock

LEMMA OwnBlocksFound ==
  ASSUME FlowInv, NEW h \in Hash, FindBlock(h)
  PROVE  \E V \in Visits :
           /\ OwnBlocks' \subseteq OwnBlocks \union {[hash |-> h, txs |-> V \intersect SignedTx]}
           /\ \A b \in Range(finished) : b \in Range(finished')
           /\ [hash |-> h, txs |-> V \intersect SignedTx] \in Range(finished')
           /\ pool' = pool \ V
           /\ UNCHANGED <<chain, receiving, arrivals>>
<1>1. /\ h \notin DOMAIN chain.blocks /\ own' = own \union {h}
      /\ UNCHANGED <<chain, receiving, arrivals>>
  BY DEF FindBlock, boundVars
<1>2. PICK V \in Visits :
        /\ finished' = Append(finished, [hash |-> h, txs |-> V \intersect SignedTx])
        /\ pool' = pool \ V
  BY DEF FindBlock, PoolAfterSuccess
<1> DEFINE b == [hash |-> h, txs |-> V \intersect SignedTx]
           n == Len(finished) + 1
<1>3. b \in Block
  BY HandlingAssumption DEF Block
<1>4. finished' = Append(finished, b)
  BY <1>2
<1> HIDE DEF b
<1>5. /\ \A k \in DOMAIN finished' : k \in DOMAIN finished \/ k = n
      /\ n \in DOMAIN finished'
      /\ \A k \in DOMAIN finished : k \in DOMAIN finished' /\ finished'[k] = finished[k]
      /\ finished'[n] = b
  BY <1>3, <1>4, Sent DEF FlowInv, MinedInv
<1> HIDE DEF n
<1>6. OwnBlocks' \subseteq OwnBlocks \union {b}
  BY <1>1, <1>5 DEF OwnBlocks, Range
<1>7. /\ \A c \in Range(finished) : c \in Range(finished')
      /\ b \in Range(finished')
  BY <1>5 DEF Range
<1> QED
  BY <1>1, <1>2, <1>6, <1>7 DEF b

ValidInv == IsFiniteSet(pool) /\ OwnBlocksAreValid

LEMMA PoolStep ==
  ASSUME IsFiniteSet(pool), [Next]_vars
  PROVE  IsFiniteSet(pool')
<1>1. CASE pool' \subseteq pool
  BY <1>1, FS_Subset
<1>2. ASSUME NEW t, pool' = pool \union {t}
      PROVE  IsFiniteSet(pool')
  BY <1>2, FS_AddElement
<1>3. CASE FindNothing \/ \E h \in Hash : FindBlock(h)
  BY <1>1, <1>3 DEF FindNothing, FindBlock, PoolAfterFailure, PoolAfterSuccess
<1>4. CASE \E t \in Tx : Evict(t)
  BY <1>1, <1>4 DEF Evict
<1>5. CASE \E t \in SignedTx : ReceiveTransaction(t)
  BY <1>2, <1>5 DEF ReceiveTransaction
<1>6. CASE \/ ReadTip \/ SignalWhenPaused \/ Return \/ NoSignal \/ SignalWhenRunning \/ WakeUp
           \/ InsertMined \/ InsertReceived
           \/ \E block \in Block : ReceiveBlock(block)
           \/ \E s \in ControlSignal : SendSignal(s)
           \/ UNCHANGED vars
  BY <1>1, <1>6 DEF ReadTip, SignalWhenPaused, Return, NoSignal, SignalWhenRunning, WakeUp,
       InsertMined, InsertReceived, ReceiveBlock, SendSignal, vars
<1> QED
  BY <1>3, <1>4, <1>5, <1>6 DEF Next, Miner, HandleBlock

LEMMA VisitsAreLimited ==
  ASSUME IsFiniteSet(pool), NEW V \in Visits
  PROVE  Cardinality(V \intersect SignedTx) <= BlockLimit
<1>1. V \in SUBSET pool
  BY DEF Visits
<1>2. IsFiniteSet(V \intersect SignedTx)
  BY <1>1, FS_Subset
<1>3. Cardinality(V \intersect SignedTx) \in Nat
  BY <1>2, FS_CardinalityType
<1>4. \/ Cardinality(V \intersect SignedTx) = BlockLimit
      \/ Cardinality(V \intersect SignedTx) < BlockLimit
  BY DEF Visits
<1> QED
  BY <1>3, <1>4, MiningAssumption

LEMMA ValidStep ==
  ASSUME FlowInv, ValidInv, [Next]_vars
  PROVE  ValidInv'
<1>1. IsFiniteSet(pool')
  BY PoolStep DEF ValidInv
<1>2. CASE OwnBlocks' \subseteq OwnBlocks
  BY <1>1, <1>2 DEF ValidInv, OwnBlocksAreValid
<1>3. ASSUME NEW h \in Hash, FindBlock(h)
      PROVE  ValidInv'
  <2>1. PICK V \in Visits :
          OwnBlocks' \subseteq OwnBlocks \union {[hash |-> h, txs |-> V \intersect SignedTx]}
    BY <1>3, OwnBlocksFound
  <2>2. Cardinality(V \intersect SignedTx) <= BlockLimit
    BY VisitsAreLimited DEF ValidInv
  <2> QED
    BY <1>1, <2>1, <2>2 DEF ValidInv, OwnBlocksAreValid
<1> QED
  BY <1>2, <1>3, OwnBlocksStep

(* No block of the miner has too many transactions or an unsigned one.      *)
THEOREM MiningOwnBlocksAreValid == Spec => []OwnBlocksAreValid
<1>1. Init => FlowInv /\ ValidInv
  <2>1. Init => OwnBlocks = {} /\ pool = {}
    BY DEF Init, OwnBlocks, Range
  <2> QED
    BY <2>1, FlowInit, FS_EmptySet DEF ValidInv, OwnBlocksAreValid
<1>2. FlowInv /\ ValidInv /\ [Next]_vars => FlowInv' /\ ValidInv'
  BY FlowStep, ValidStep
<1>3. ValidInv => OwnBlocksAreValid
  BY DEF ValidInv
<1> QED
  BY <1>1, <1>2, <1>3, PTL DEF Spec

--------------------------------------------------------------------------------
(* What is stored. *)

LEMMA StoredStep ==
  ASSUME FlowInv, ValidInv, StoredBlocksAreValid, [Next]_vars
  PROVE  StoredBlocksAreValid'
<1> DEFINE Valid(h) ==
      /\ h \in own => HashValue[h] <= Difficulty[Genesis]
      /\ h \notin own => HashValue[h] <= Difficulty[Parent[h]]
      /\ chain.blocks[h].txs \subseteq SignedTx
<1> SUFFICES ASSUME NEW h \in DOMAIN chain'.blocks \ {Genesis}
             PROVE  Valid(h)'
  BY DEF StoredBlocksAreValid
<1>1. h \in DOMAIN chain.blocks => Valid(h)
  BY DEF StoredBlocksAreValid
<1>2. CASE InsertMined
  <2> DEFINE b == Head(finished)
  <2>1. /\ b \in Range(finished) /\ b.hash \in own
        /\ HashValue[b.hash] <= Difficulty[Genesis]
        /\ DOMAIN chain'.blocks = DOMAIN chain.blocks \union {b.hash}
        /\ \A g \in DOMAIN chain.blocks : chain'.blocks[g] = chain.blocks[g]
        /\ chain'.blocks[b.hash] = b
    <3>1. /\ 1 \in DOMAIN finished /\ finished[1] = b
      BY <1>2, InsertMinedStores
    <3>2. b.hash \in own
      BY <3>1 DEF FlowInv, MinedInv
    <3>3. b \in Range(finished)
      BY <3>1 DEF Range
    <3> QED
      BY <1>2, <3>2, <3>3, InsertMinedStores
  <2>2. b.txs \subseteq SignedTx
    BY <2>1 DEF ValidInv, OwnBlocksAreValid, OwnBlocks
  <2>3. own' = own
    BY <1>2 DEF InsertMined, minerVars
  <2> HIDE DEF b
  <2> QED
    BY <1>1, <2>1, <2>2, <2>3
<1>3. CASE InsertReceived
  <2>1. own' = own
    BY <1>3 DEF InsertReceived, minerVars
  <2> QED
    BY <1>1, <1>3, <2>1, InsertReceivedStores
<1>4. CASE chain' = chain /\ own' = own
  BY <1>1, <1>4
<1>5. ASSUME NEW g \in Hash, FindBlock(g)
      PROVE  Valid(h)'
  <2>1. chain' = chain /\ own' = own \union {g} /\ g \notin DOMAIN chain.blocks
    BY <1>5 DEF FindBlock
  <2>2. h # g
    BY <2>1
  <2> QED
    BY <1>1, <2>1, <2>2
<1>6. QuietStep \/ (\E block \in Block : ReceiveBlock(block)) \/ (\E t \in Tx : Evict(t))
        => chain' = chain /\ own' = own
  BY DEF QuietStep, ReceiveBlock, Evict, minerVars
<1> QED
  BY <1>2, <1>3, <1>4, <1>5, <1>6, QuietSteps DEF Next, Miner, HandleBlock

(* Whatever difficulties the headers of peers carry: a stored block meets   *)
(* its parent's if it was received and the miner's if it was mined here,    *)
(* although own blocks are inserted unchecked, and holds signed             *)
(* transactions only.                                                       *)
THEOREM MiningStoredBlocksAreValid == Spec => []StoredBlocksAreValid
<1>1. Init => FlowInv /\ ValidInv /\ StoredBlocksAreValid
  <2>1. Init => OwnBlocks = {} /\ pool = {}
    BY DEF Init, OwnBlocks, Range
  <2>2. Init => StoredBlocksAreValid
    BY NewChainFields DEF Init, StoredBlocksAreValid
  <2> QED
    BY <2>1, <2>2, FlowInit, FS_EmptySet DEF ValidInv, OwnBlocksAreValid
<1>2. FlowInv /\ ValidInv /\ StoredBlocksAreValid /\ [Next]_vars
        => FlowInv' /\ ValidInv' /\ StoredBlocksAreValid'
  BY FlowStep, ValidStep, StoredStep
<1> QED
  BY <1>1, <1>2, PTL DEF Spec

--------------------------------------------------------------------------------
(* Where the transactions are. *)

Accounted(t) ==
  \/ t \in pool
  \/ \E h \in DOMAIN chain.blocks : t \in chain.blocks[h].txs
  \/ \E b \in Range(finished) : t \in b.txs
  \/ \E r \in receiving : t \in r.block.txs

LEMMA AccountedStep ==
  ASSUME FlowInv, [Next]_vars, NEW t \in SignedTx, Accounted(t)
  PROVE  Accounted(t)'
<1>1. CASE FindNothing
  <2>1. t \in pool => t \in pool'
    BY <1>1 DEF FindNothing, PoolAfterFailure
  <2> QED
    BY <1>1, <2>1 DEF FindNothing, Accounted
<1>2. CASE \E h \in Hash : FindBlock(h)
  <2>1. PICK h \in Hash, V \in Visits :
          /\ \A b \in Range(finished) : b \in Range(finished')
          /\ [hash |-> h, txs |-> V \intersect SignedTx] \in Range(finished')
          /\ pool' = pool \ V
          /\ UNCHANGED <<chain, receiving>>
    BY <1>2, OwnBlocksFound
  <2>2. CASE t \in V
    <3>1. t \in [hash |-> h, txs |-> V \intersect SignedTx].txs
      BY <2>2
    <3> QED
      BY <2>1, <3>1 DEF Accounted
  <2>3. CASE t \notin V
    BY <2>1, <2>3 DEF Accounted
  <2> QED
    BY <2>2, <2>3
<1>3. CASE InsertMined
  <2>1. /\ 1 \in DOMAIN finished /\ finished[1] = Head(finished)
        /\ DOMAIN chain'.blocks = DOMAIN chain.blocks \union {Head(finished).hash}
        /\ \A h \in DOMAIN chain.blocks : chain'.blocks[h] = chain.blocks[h]
        /\ chain'.blocks[Head(finished).hash] = Head(finished)
    BY <1>3, InsertMinedStores
  <2>2. \A b \in Range(finished) : b = Head(finished) \/ b \in Range(finished')
    <3> SUFFICES ASSUME NEW k \in DOMAIN finished, k # 1
                 PROVE  finished[k] \in Range(finished')
      BY <2>1 DEF Range
    <3>1. /\ finished \in Seq(Block) /\ finished # << >> /\ finished' = Tail(finished)
      BY <1>3 DEF FlowInv, MinedInv, InsertMined
    <3>2. /\ Len(finished) \in Nat /\ k \in 1 .. Len(finished)
          /\ finished' \in Seq(Block) /\ Len(finished') = Len(finished) - 1
          /\ \A i \in 1 .. Len(finished') : finished'[i] = finished[i + 1]
      BY <3>1, HeadTailProperties, LenProperties
    <3>3. k - 1 \in 1 .. Len(finished') /\ DOMAIN finished' = 1 .. Len(finished')
      BY <3>2, LenProperties
    <3>4. finished'[k - 1] = finished[k]
      BY <3>2, <3>3
    <3> QED
      BY <3>3, <3>4 DEF Range
  <2>3. pool' = pool /\ receiving' = receiving
    BY <1>3 DEF InsertMined
  <2> QED
    BY <2>1, <2>2, <2>3 DEF Accounted
<1>4. CASE \E block \in Block : ReceiveBlock(block)
  BY <1>4 DEF ReceiveBlock, ChainIsFree, Accounted
<1>5. CASE \E u \in Tx : Evict(u)
  <2>1. PICK u \in Tx, r \in receiving, s \in receiving' :
          /\ receiving = {r} /\ receiving' = {s} /\ s.block = r.block /\ u \in r.block.txs
          /\ pool' = pool \ {u}
    BY <1>5, EvictKeepsFlow
  <2>2. chain' = chain /\ finished' = finished
    BY <1>5 DEF Evict
  <2> QED
    BY <2>1, <2>2 DEF Accounted
<1>6. CASE InsertReceived
  <2>1. PICK r \in receiving :
          /\ receiving = {r}
          /\ DOMAIN chain'.blocks = DOMAIN chain.blocks \union {r.block.hash}
          /\ \A h \in DOMAIN chain.blocks : chain'.blocks[h] = chain.blocks[h]
          /\ chain'.blocks[r.block.hash] = r.block
    BY <1>6, InsertReceivedStores
  <2>2. pool' = pool /\ finished' = finished
    BY <1>6 DEF InsertReceived
  <2> QED
    BY <2>1, <2>2 DEF Accounted
<1>7. CASE \E u \in SignedTx : ReceiveTransaction(u)
  BY <1>7 DEF ReceiveTransaction, Accounted
<1>8. CASE \/ ReadTip \/ SignalWhenPaused \/ Return \/ NoSignal \/ SignalWhenRunning \/ WakeUp
           \/ \E s \in ControlSignal : SendSignal(s)
           \/ UNCHANGED vars
  BY <1>8 DEF ReadTip, SignalWhenPaused, Return, NoSignal, SignalWhenRunning, WakeUp,
       SendSignal, vars, Accounted
<1> QED
  BY <1>1, <1>2, <1>3, <1>4, <1>5, <1>6, <1>7, <1>8 DEF Next, Miner, HandleBlock

AccountedInv == \A t \in SignedTx : arrivals[t] > 0 => Accounted(t)

(* A transaction that has not arrived yet arrives, or nothing arrives.      *)
LEMMA ArrivalsStep ==
  ASSUME [Next]_vars
  PROVE  \/ arrivals' = arrivals
         \/ \E t \in SignedTx :
              /\ ReceiveTransaction(t)
              /\ arrivals' = [arrivals EXCEPT ![t] = @ + 1]
              /\ arrivals[t] < MaxArrivals[t]
              /\ pool' = pool \union {t}
<1>1. (\E t \in SignedTx : ReceiveTransaction(t)) \/ arrivals' = arrivals
  BY DEF Next, Miner, HandleBlock, ReadTip, SignalWhenPaused, Return, NoSignal,
     SignalWhenRunning, WakeUp, FindNothing, FindBlock, InsertMined, ReceiveBlock, Evict,
     InsertReceived, SendSignal, vars, boundVars
<1> QED
  BY <1>1 DEF ReceiveTransaction

LEMMA AccountedInvStep ==
  ASSUME FlowInv, AccountedInv, [Next]_vars
  PROVE  AccountedInv'
<1> SUFFICES ASSUME NEW t \in SignedTx, arrivals'[t] > 0
             PROVE  Accounted(t)'
  BY DEF AccountedInv
<1>1. CASE arrivals[t] > 0
  BY <1>1, AccountedStep DEF AccountedInv
<1>2. CASE ~(arrivals[t] > 0)
  <2>1. PICK u \in SignedTx :
          arrivals' = [arrivals EXCEPT ![u] = @ + 1] /\ pool' = pool \union {u}
    BY <1>2, ArrivalsStep
  <2>2. u = t
    BY <1>2, <2>1
  <2> QED
    BY <2>1, <2>2 DEF Accounted
<1> QED
  BY <1>1, <1>2

(* A transaction that has reached the node is lost only to a stored block   *)
(* off the longest chain, whatever the miner and the workers do.            *)
THEOREM MiningLostOnlyToSideBranches == Spec => []LostOnlyToSideBranches
<1>1. Init => FlowInv /\ AccountedInv
  BY FlowInit DEF Init, AccountedInv
<1>2. FlowInv /\ AccountedInv /\ [Next]_vars => FlowInv' /\ AccountedInv'
  BY FlowStep, AccountedInvStep
<1>3. AccountedInv => LostOnlyToSideBranches
  <2> SUFFICES ASSUME AccountedInv, NEW t \in SignedTx, arrivals[t] > 0
               PROVE  Kept(t) \/ Mentions(Stored(DOMAIN chain.blocks \ OnLongestChain), t)
    BY DEF LostOnlyToSideBranches
  <2>1. Accounted(t)
    BY DEF AccountedInv
  <2>2. ASSUME NEW h \in DOMAIN chain.blocks, t \in chain.blocks[h].txs
        PROVE  \/ Mentions(Stored(OnLongestChain), t)
               \/ Mentions(Stored(DOMAIN chain.blocks \ OnLongestChain), t)
    BY <2>2 DEF Mentions, Stored
  <2> QED
    BY <2>1, <2>2 DEF Accounted, Kept, Mentions
<1> QED
  BY <1>1, <1>2, <1>3, PTL DEF Spec

--------------------------------------------------------------------------------
(* How often a transaction is mined. *)

Copies(t) == {b \in OwnBlocks : t \in b.txs}

CountInv ==
  /\ arrivals \in [SignedTx -> Nat]
  /\ IsFiniteSet(OwnBlocks)
  /\ MinedAsOftenAsArrived

LEMMA PoolShrinks ==
  ASSUME [Next]_vars, ~\E t \in SignedTx : ReceiveTransaction(t)
  PROVE  pool' \subseteq pool
<1>1. CASE FindNothing \/ (\E h \in Hash : FindBlock(h)) \/ (\E t \in Tx : Evict(t))
  BY <1>1 DEF FindNothing, FindBlock, PoolAfterFailure, PoolAfterSuccess, Evict
<1>2. CASE \/ ReadTip \/ SignalWhenPaused \/ Return \/ NoSignal \/ SignalWhenRunning \/ WakeUp
           \/ InsertMined \/ InsertReceived
           \/ \E block \in Block : ReceiveBlock(block)
           \/ \E s \in ControlSignal : SendSignal(s)
           \/ UNCHANGED vars
  BY <1>2 DEF ReadTip, SignalWhenPaused, Return, NoSignal, SignalWhenRunning, WakeUp,
       InsertMined, InsertReceived, ReceiveBlock, SendSignal, vars
<1> QED
  BY <1>1, <1>2 DEF Next, Miner, HandleBlock

(* Counting elements: a part of a set, and a part of a set with one more.   *)
LEMMA CountPart ==
  ASSUME NEW S, NEW T, IsFiniteSet(S), T \subseteq S
  PROVE  Cardinality(T) \in Nat /\ Cardinality(S) \in Nat /\ Cardinality(T) <= Cardinality(S)
BY FS_Subset, FS_CardinalityType

LEMMA CountOneMore ==
  ASSUME NEW S, NEW T, NEW x, IsFiniteSet(S), T \subseteq S \union {x}
  PROVE  /\ Cardinality(T) \in Nat /\ Cardinality(S) \in Nat
         /\ Cardinality(T) <= Cardinality(S) + 1
<1> DEFINE U == S \union {x}
<1>1. Cardinality(S) \in Nat
  BY FS_CardinalityType
<1>2. IsFiniteSet(U) /\ (Cardinality(U) = Cardinality(S) \/ Cardinality(U) = Cardinality(S) + 1)
  <2>1. CASE x \in S
    <3>1. U = S
      BY <2>1
    <3> QED
      BY <3>1
  <2>2. CASE x \notin S
    BY <2>2, FS_AddElement
  <2> QED
    BY <2>1, <2>2
<1> HIDE DEF U
<1>3. T \subseteq U
  BY DEF U
<1>4. Cardinality(T) \in Nat /\ Cardinality(T) <= Cardinality(U)
  BY <1>2, <1>3, CountPart
<1> QED
  BY <1>1, <1>2, <1>4

(* No other thread makes the miner's blocks or the pool grow: a copy that   *)
(* is mined has left the pool, and one that enters the pool has arrived.    *)
LEMMA CountStep ==
  ASSUME FlowInv, CountInv, [Next]_vars
  PROVE  CountInv'
<1>1. \A t \in SignedTx :
        /\ IsFiniteSet(Copies(t)) /\ Cardinality(Copies(t)) \in Nat /\ arrivals[t] \in Nat
        /\ t \in pool => Cardinality(Copies(t)) + 1 <= arrivals[t]
        /\ t \notin pool => Cardinality(Copies(t)) <= arrivals[t]
  <2> SUFFICES ASSUME NEW t \in SignedTx
               PROVE  /\ IsFiniteSet(Copies(t)) /\ Cardinality(Copies(t)) \in Nat
                      /\ arrivals[t] \in Nat
                      /\ t \in pool => Cardinality(Copies(t)) + 1 <= arrivals[t]
                      /\ t \notin pool => Cardinality(Copies(t)) <= arrivals[t]
    OBVIOUS
  <2>1. Copies(t) \subseteq OwnBlocks /\ IsFiniteSet(OwnBlocks)
    BY DEF Copies, CountInv
  <2>2. IsFiniteSet(Copies(t)) /\ Cardinality(Copies(t)) \in Nat
    BY <2>1, FS_Subset, FS_CardinalityType
  <2>3. Cardinality(Copies(t)) + (IF t \in pool THEN 1 ELSE 0) <= arrivals[t]
    BY DEF CountInv, MinedAsOftenAsArrived, Copies
  <2> QED
    BY <2>2, <2>3 DEF CountInv
<1>2. ASSUME /\ arrivals' \in [SignedTx -> Nat]
             /\ IsFiniteSet(OwnBlocks')
             /\ \A t \in SignedTx :
                  /\ Cardinality(Copies(t)') \in Nat
                  /\ t \in pool' => Cardinality(Copies(t)') + 1 <= arrivals'[t]
                  /\ t \notin pool' => Cardinality(Copies(t)') <= arrivals'[t]
      PROVE  CountInv'
  <2> SUFFICES ASSUME NEW t \in SignedTx
               PROVE  Cardinality(Copies(t)') + (IF t \in pool' THEN 1 ELSE 0) <= arrivals'[t]
    BY <1>2 DEF CountInv, MinedAsOftenAsArrived, Copies
  <2> QED
    BY <1>2
<1>3. CASE \E h \in Hash : FindBlock(h)
  <2>1. PICK h \in Hash, V \in Visits :
          /\ OwnBlocks' \subseteq OwnBlocks \union {[hash |-> h, txs |-> V \intersect SignedTx]}
          /\ pool' = pool \ V
          /\ arrivals' = arrivals
    BY <1>3, OwnBlocksFound
  <2> DEFINE new == [hash |-> h, txs |-> V \intersect SignedTx]
  <2>2. new.txs = V \intersect SignedTx /\ V \subseteq pool
    BY DEF Visits
  <2>3. OwnBlocks' \subseteq OwnBlocks \union {new}
    BY <2>1
  <2> HIDE DEF new
  <2>4. IsFiniteSet(OwnBlocks')
    BY <2>3, FS_AddElement, FS_Subset DEF CountInv
  <2>5. ASSUME NEW t \in SignedTx
        PROVE  /\ Cardinality(Copies(t)') \in Nat
               /\ t \in pool' => Cardinality(Copies(t)') + 1 <= arrivals'[t]
               /\ t \notin pool' => Cardinality(Copies(t)') <= arrivals'[t]
    <3>1. CASE t \in V
      <4>1. Copies(t)' \subseteq Copies(t) \union {new}
        BY <2>3 DEF Copies
      <4>2. /\ Cardinality(Copies(t)') \in Nat
            /\ Cardinality(Copies(t)') <= Cardinality(Copies(t)) + 1
        BY <1>1, <4>1, CountOneMore
      <4>3. t \in pool /\ t \notin pool'
        BY <2>1, <2>2, <3>1
      <4> QED
        BY <1>1, <2>1, <4>2, <4>3
    <3>2. CASE t \notin V
      <4>1. Copies(t)' \subseteq Copies(t)
        BY <2>2, <2>3, <3>2 DEF Copies
      <4>2. /\ Cardinality(Copies(t)') \in Nat
            /\ Cardinality(Copies(t)') <= Cardinality(Copies(t))
        BY <1>1, <4>1, CountPart
      <4>3. t \in pool <=> t \in pool'
        BY <2>1, <3>2
      <4> QED
        BY <1>1, <2>1, <4>2, <4>3
    <3> QED
      BY <3>1, <3>2
  <2>6. arrivals' \in [SignedTx -> Nat]
    BY <2>1 DEF CountInv
  <2> QED
    BY <1>2, <2>4, <2>5, <2>6
<1>4. CASE ~\E h \in Hash : FindBlock(h)
  <2>1. OwnBlocks' \subseteq OwnBlocks
    BY <1>4, OwnBlocksStep
  <2>2. IsFiniteSet(OwnBlocks')
    BY <2>1, FS_Subset DEF CountInv
  <2>3. \A t \in SignedTx : /\ Cardinality(Copies(t)') \in Nat
                             /\ Cardinality(Copies(t)') <= Cardinality(Copies(t))
    <3> SUFFICES ASSUME NEW t \in SignedTx
                 PROVE  /\ Cardinality(Copies(t)') \in Nat
                        /\ Cardinality(Copies(t)') <= Cardinality(Copies(t))
      OBVIOUS
    <3>1. Copies(t)' \subseteq Copies(t)
      BY <2>1 DEF Copies
    <3> QED
      BY <1>1, <3>1, CountPart
  <2>4. ASSUME NEW u \in SignedTx, ReceiveTransaction(u)
        PROVE  CountInv'
    <3>1. arrivals' = [arrivals EXCEPT ![u] = @ + 1] /\ pool' = pool \union {u}
      BY <2>4 DEF ReceiveTransaction
    <3>2. arrivals' \in [SignedTx -> Nat]
      BY <3>1 DEF CountInv
    <3>3. ASSUME NEW t \in SignedTx
          PROVE  /\ Cardinality(Copies(t)') \in Nat
                 /\ t \in pool' => Cardinality(Copies(t)') + 1 <= arrivals'[t]
                 /\ t \notin pool' => Cardinality(Copies(t)') <= arrivals'[t]
      <4>1. /\ Cardinality(Copies(t)) \in Nat /\ arrivals[t] \in Nat
            /\ Cardinality(Copies(t)') \in Nat
            /\ Cardinality(Copies(t)') <= Cardinality(Copies(t))
            /\ t \in pool => Cardinality(Copies(t)) + 1 <= arrivals[t]
            /\ t \notin pool => Cardinality(Copies(t)) <= arrivals[t]
        BY <1>1, <2>3
      <4>2. t = u => arrivals'[t] = arrivals[t] + 1
        BY <3>1 DEF CountInv
      <4>3. t # u => arrivals'[t] = arrivals[t] /\ (t \in pool' <=> t \in pool)
        BY <3>1 DEF CountInv
      <4> HIDE DEF Copies
      <4> QED
        BY <4>1, <4>2, <4>3
    <3> QED
      BY <1>2, <2>2, <3>2, <3>3
  <2>5. CASE ~\E u \in SignedTx : ReceiveTransaction(u)
    <3>1. pool' \subseteq pool /\ arrivals' = arrivals
      BY <2>5, PoolShrinks, ArrivalsStep
    <3>2. arrivals' \in [SignedTx -> Nat]
      BY <3>1 DEF CountInv
    <3> QED
      BY <1>1, <1>2, <2>2, <2>3, <3>1, <3>2
  <2> QED
    BY <2>4, <2>5
<1> QED
  BY <1>3, <1>4

(* However often a transaction arrives, the miner mines no more copies of   *)
(* it than have arrived, and what waits in the pool again is one of them.   *)
THEOREM MiningMinedAsOftenAsArrived == Spec => []MinedAsOftenAsArrived
<1>1. Init => FlowInv /\ CountInv
  <2> SUFFICES ASSUME Init PROVE CountInv
    BY FlowInit
  <2>1. OwnBlocks = {} /\ pool = {} /\ arrivals = [t \in SignedTx |-> 0]
    BY DEF Init, OwnBlocks, Range
  <2>2. \A t \in SignedTx : {b \in OwnBlocks : t \in b.txs} = {}
    BY <2>1
  <2> QED
    BY <2>1, <2>2, FS_EmptySet DEF CountInv, MinedAsOftenAsArrived
<1>2. FlowInv /\ CountInv /\ [Next]_vars => FlowInv' /\ CountInv'
  BY FlowStep, CountStep
<1>3. CountInv => MinedAsOftenAsArrived
  BY DEF CountInv
<1> QED
  BY <1>1, <1>2, <1>3, PTL DEF Spec

--------------------------------------------------------------------------------
(* Type correctness. *)

OperatingState == {Paused, ShutDown} \union {Run(i) : i \in Lambda}

(* What the miner keeps, its channel and the bounds.                        *)
ControlInv ==
  /\ pc \in {"top", "signal", "build", "sleep", "stopped"}
  /\ operating \in OperatingState
  /\ parent \in Hash \union {ZeroHash}
  /\ signals \in Seq(ControlSignal)
  /\ sent \in 0 .. MaxSignals
  /\ arrivals \in [SignedTx -> Nat]
  /\ \A t \in SignedTx : arrivals[t] <= MaxArrivals[t]
  /\ pool \subseteq Tx

(* Every signal leads to a state of the miner. *)
LEMMA SignalsAreUnderstood ==
  ASSUME NEW s \in ControlSignal
  PROVE  /\ OperatingAfter(s) \in OperatingState
         /\ s \notin {Exit, Update} => Run(s.lambda) \in OperatingState
<1>1. s \notin {Exit, Update} => Run(s.lambda) \in OperatingState
  <2> SUFFICES ASSUME NEW i \in Lambda, s = StartSignal(i)
               PROVE  Run(s.lambda) \in OperatingState
    BY DEF ControlSignal
  <2>1. s.lambda = i
    BY DEF StartSignal
  <2> QED
    BY <2>1 DEF OperatingState
<1>2. Paused \in OperatingState /\ ShutDown \in OperatingState
  BY DEF OperatingState
<1>3. \/ OperatingAfter(s) \in {Paused, ShutDown}
      \/ s \notin {Exit, Update} /\ OperatingAfter(s) = Run(s.lambda)
  BY DEF OperatingAfter
<1> QED
  BY <1>1, <1>2, <1>3

LEMMA TipIsStored ==
  ASSUME FlowInv
  PROVE  chain.tip \in Hash
BY ChainFacts DEF FlowInv, StoreInv, ChainInv

(* The turns of the miner.                                                  *)
LEMMA MinerKeepsControl ==
  ASSUME FlowInv, ControlInv,
         ReadTip \/ SignalWhenPaused \/ Return \/ NoSignal \/ SignalWhenRunning \/ WakeUp
  PROVE  ControlInv'
<1>1. CASE ReadTip
  BY <1>1, TipIsStored DEF ReadTip, ControlInv, boundVars
<1>2. CASE Return \/ NoSignal \/ WakeUp
  BY <1>2 DEF Return, NoSignal, WakeUp, ControlInv, boundVars
<1>3. ASSUME SignalWhenPaused \/ SignalWhenRunning
      PROVE  Head(signals) \in ControlSignal /\ signals' \in Seq(ControlSignal)
             /\ UNCHANGED <<pool, sent, arrivals>>
  <2>1. signals \in Seq(ControlSignal) /\ signals # << >> /\ signals' = Tail(signals)
        /\ UNCHANGED <<pool, sent, arrivals>>
    BY <1>3 DEF SignalWhenPaused, SignalWhenRunning, ControlInv, boundVars
  <2> QED
    BY <2>1, Taken
<1>4. CASE SignalWhenPaused
  <2>1. operating' = OperatingAfter(Head(signals)) /\ pc' = "top" /\ parent' = parent
    BY <1>4 DEF SignalWhenPaused
  <2>2. operating' \in OperatingState
    BY <1>3, <1>4, <2>1, SignalsAreUnderstood
  <2> QED
    BY <1>3, <1>4, <2>1, <2>2 DEF ControlInv
<1>5. CASE SignalWhenRunning
  <2> DEFINE s == Head(signals)
  <2>1. \/ operating' = ShutDown /\ pc' = "stopped" /\ parent' = parent
        \/ operating' = operating /\ pc' = "build" /\ parent' = chain.tip
        \/ /\ s \notin {Exit, Update} /\ operating' = Run(s.lambda)
           /\ pc' = "build" /\ parent' = parent
    BY <1>5 DEF SignalWhenRunning
  <2>2. s \notin {Exit, Update} => Run(s.lambda) \in OperatingState
    BY <1>3, <1>5, SignalsAreUnderstood
  <2>3. operating' \in OperatingState
    BY <2>1, <2>2 DEF ControlInv, OperatingState
  <2>4. parent' \in Hash \union {ZeroHash} /\ pc' \in {"build", "stopped"}
    BY <2>1, TipIsStored DEF ControlInv
  <2> QED
    BY <1>3, <1>5, <2>3, <2>4 DEF ControlInv
<1> QED
  BY <1>1, <1>2, <1>4, <1>5

LEMMA ControlStep ==
  ASSUME FlowInv, ControlInv, [Next]_vars
  PROVE  ControlInv'
<1>1. CASE FindNothing \/ \E h \in Hash : FindBlock(h)
  <2>1. pool' \subseteq pool
    BY <1>1 DEF FindNothing, FindBlock, PoolAfterFailure, PoolAfterSuccess
  <2>2. pc' \in {"top", "sleep"} /\ UNCHANGED <<operating, parent, signals, sent, arrivals>>
    BY <1>1 DEF FindNothing, FindBlock, EndTurn, boundVars
  <2> QED
    BY <2>1, <2>2 DEF ControlInv
<1>2. CASE \/ InsertMined \/ HandleBlock
           \/ \E block \in Block : ReceiveBlock(block)
           \/ UNCHANGED vars
  <2>1. UNCHANGED <<pc, operating, parent, signals, sent, arrivals>>
    BY <1>2 DEF InsertMined, HandleBlock, Evict, InsertReceived, ReceiveBlock, vars,
         minerVars, boundVars
  <2>2. pool' \subseteq pool
    BY <1>2 DEF InsertMined, HandleBlock, Evict, InsertReceived, ReceiveBlock, vars
  <2> QED
    BY <2>1, <2>2 DEF ControlInv
<1>3. ASSUME NEW t \in SignedTx, ReceiveTransaction(t)
      PROVE  ControlInv'
  <2>1. /\ arrivals[t] < MaxArrivals[t] /\ arrivals' = [arrivals EXCEPT ![t] = @ + 1]
        /\ pool' = pool \union {t}
        /\ UNCHANGED <<pc, operating, parent, signals, sent>>
    BY <1>3 DEF ReceiveTransaction, minerVars
  <2>2. /\ arrivals' \in [SignedTx -> Nat]
        /\ \A u \in SignedTx : arrivals'[u] <= MaxArrivals[u]
    <3>1. /\ arrivals \in [SignedTx -> Nat]
          /\ \A u \in SignedTx : arrivals[u] <= MaxArrivals[u]
      BY DEF ControlInv
    <3>2. arrivals[t] \in Nat /\ MaxArrivals[t] \in Nat
      BY <3>1, MiningAssumption
    <3>3. arrivals' \in [SignedTx -> Nat]
      BY <2>1, <3>1, <3>2
    <3>4. ASSUME NEW u \in SignedTx
          PROVE  arrivals'[u] <= MaxArrivals[u]
      <4>1. CASE u = t
        <5>1. arrivals'[u] = arrivals[t] + 1
          BY <2>1, <3>1, <4>1
        <5> QED
          BY <2>1, <3>2, <4>1, <5>1
      <4>2. CASE u # t
        <5>1. arrivals'[u] = arrivals[u]
          BY <2>1, <3>1, <4>2
        <5> QED
          BY <3>1, <5>1
      <4> QED
        BY <4>1, <4>2
    <3> QED
      BY <3>3, <3>4
  <2>3. pool' \subseteq Tx
    BY <2>1, HandlingAssumption DEF ControlInv
  <2> QED
    BY <2>1, <2>2, <2>3 DEF ControlInv
<1>4. ASSUME NEW s \in ControlSignal, SendSignal(s)
      PROVE  ControlInv'
  <2>1. /\ sent < MaxSignals /\ sent' = sent + 1
        /\ signals' = Append(signals, s)
        /\ UNCHANGED <<pool, pc, operating, parent, arrivals>>
    BY <1>4 DEF SendSignal, minerVars
  <2>2. signals' \in Seq(ControlSignal)
    BY <2>1, Sent DEF ControlInv
  <2>3. sent' \in 0 .. MaxSignals
    BY <2>1, MiningAssumption DEF ControlInv
  <2> QED
    BY <2>1, <2>2, <2>3 DEF ControlInv
<1> QED
  BY <1>1, <1>2, <1>3, <1>4, MinerKeepsControl DEF Next, Miner

(* Every variable keeps its type; the bodies of the blocks in the store, on *)
(* the way to it and being stored are transactions of this network.         *)
THEOREM MiningTypeCorrect == Spec => []TypeOK
<1>1. Init => FlowInv /\ ControlInv
  <2>1. Init => ControlInv
    BY MiningAssumption DEF Init, ControlInv, OperatingState
  <2> QED
    BY <2>1, FlowInit
<1>2. FlowInv /\ ControlInv /\ [Next]_vars => FlowInv' /\ ControlInv'
  BY FlowStep, ControlStep
<1>3. FlowInv /\ ControlInv => TypeOK
  BY DEF FlowInv, StoreInv, MinedInv, ReceivingInv, ChainInv, ControlInv, OperatingState,
     TypeOK
<1> QED
  BY <1>1, <1>2, <1>3, PTL DEF Spec

--------------------------------------------------------------------------------
(* Refinement of the longest-chain rule. *)

(* Only the two workers change the store, and they may insert what they do. *)
LEMMA ChainStep ==
  ASSUME FlowInv, [Next]_vars
  PROVE  \/ chain' = chain
         \/ \E block \in Block : CanInsert(chain, block) /\ chain' = Inserted(chain, block)
<1>1. CASE InsertMined
  <2> DEFINE b == Head(finished)
  <2>1. b \in Block /\ 1 \in DOMAIN finished /\ finished[1] = b
    BY <1>1, InsertMinedStores
  <2>2. CanInsert(chain, b)
    BY <2>1, ChainFacts DEF FlowInv, StoreInv, MinedInv, ChainInv, CanInsert
  <2>3. chain' = Inserted(chain, b)
    BY <1>1 DEF InsertMined
  <2> QED
    BY <2>1, <2>2, <2>3
<1>2. CASE InsertReceived
  <2>1. PICK r \in receiving : chain' = Inserted(chain, r.block)
    BY <1>2 DEF InsertReceived
  <2>2. r.block \in Block /\ Disposition(chain, r.block) = "accepted" /\ ChainInv(chain)
    BY <2>1 DEF FlowInv, ReceivingInv, StoreInv
  <2>3. CanInsert(chain, r.block)
    BY <2>2, AcceptedBlock
  <2> QED
    BY <2>1, <2>2, <2>3
<1>3. QuietStep \/ (\E g \in Hash : FindBlock(g)) \/ (\E block \in Block : ReceiveBlock(block))
        \/ (\E t \in Tx : Evict(t)) => chain' = chain
  BY DEF QuietStep, FindBlock, ReceiveBlock, Evict
<1> QED
  BY <1>1, <1>2, <1>3, QuietSteps DEF Next, Miner, HandleBlock

LEMMA RuleStep ==
  ASSUME FlowInv, [Next]_vars
  PROVE  [Rule!Next]_(Rule!vars)
<1>1. CASE chain' = chain
  BY <1>1 DEF Rule!vars
<1>2. ASSUME NEW block \in Block, CanInsert(chain, block), chain' = Inserted(chain, block)
      PROVE  Rule!Next
  <2>1. /\ block.hash \in Hash \ {Genesis} /\ Parent[block.hash] \in DOMAIN chain.blocks
        /\ DOMAIN chain'.blocks = DOMAIN chain.blocks \union {block.hash}
        /\ chain'.tip \in Deepest(DOMAIN chain'.blocks)
        /\ chain.tip \in Deepest(DOMAIN chain'.blocks) => chain'.tip = chain.tip
    BY <1>2, InsertFollowsRule DEF FlowInv, StoreInv
  <2>2. Rule!Grow(block.hash)
    BY <2>1 DEF Rule!Grow, Rule!Deepest, Deepest
  <2> QED
    BY <2>1, <2>2 DEF Rule!Next
<1> QED
  BY <1>1, <1>2, ChainStep

(* A node that mines and receives blocks at once implements the             *)
(* longest-chain rule.                                                      *)
THEOREM MiningImplementsRule == Spec => ImplementsRule
<1>1. Init => Rule!Init
  BY NewChainFields DEF Init, Rule!Init
<1>2. FlowInv /\ [Next]_vars => [Rule!Next]_(Rule!vars)
  BY RuleStep
<1> QED
  BY <1>1, <1>2, FlowInvariant, PTL DEF Spec, ImplementsRule, Rule!Spec

================================================================================
