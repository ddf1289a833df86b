--------------------------- MODULE BlockGossipProofs ---------------------------
(***************************************************************************)
(* Safety of the block gossip, for any number of nodes, of network workers  *)
(* and of blocks, and for any connections.                                  *)
(*                                                                         *)
(* The inductive invariant GossipInv ties every block and every             *)
(* announcement that is under way to the store it came from: what the miner *)
(* has read, what it has finished, what a worker has inserted and what is   *)
(* announced.  The stores only grow, so what is tied to one stays tied.     *)
(* The last part follows blocks on their way between two nodes.             *)
(***************************************************************************)
EXTENDS BlockGossip, ChainTheorems

Message ==
  [type : {"NewBlockHashes"}, hash : Hash]
    \union [type : {"GetBlocks"}, hash : Hash \union {ZeroHash}]
    \union [type : {"Blocks"}, block : Block]

(* The blocks that some node has stored. *)
Published(stores) == UNION {DOMAIN stores[k].blocks : k \in Node}
PublishedBlock(stores) == {b \in Block : b.hash \in Published(stores)}

(* What n may have sent: it announces blocks that it has stored, and sends  *)
(* blocks that somebody has.                                                *)
Sendable(stores, n) ==
  {msg \in Message :
     /\ msg.type = "NewBlockHashes" => HasBlock(stores[n], msg.hash)
     /\ msg.type = "Blocks" => msg.block \in PublishedBlock(stores)}

(* What a node with store c can insert. *)
Insertable(c) == {b \in Block : CanInsert(c, b)}

StoreInv ==
  /\ DOMAIN chain = Node
  /\ \A n \in Node : ChainInv(chain[n])

ControlInv ==
  /\ DOMAIN control = Node
  /\ \A n \in Node : control[n] \in Seq(Sendable(chain, n))

LinkInv ==
  /\ DOMAIN link = Node
  /\ \A n \in Node : DOMAIN link[n] = Node
  /\ \A n \in Node, m \in Node : link[n][m] \in Seq(Sendable(chain, n))

(* A worker's condition: what it works on was sendable by its sender, what  *)
(* it has inserted is stored, and the index of its loop stays positive.     *)
ConditionInv(stores, n, c) ==
  /\ c.state \in {"idle", "dead", "busy", "popping"}
  /\ c.state = "idle" => c = Idle
  /\ c.state = "dead" => c = Dead
  /\ c.state = "busy" =>
       /\ c = Busy(c.from, c.msg)
       /\ c.from \in Node /\ c.msg \in Sendable(stores, c.from)
  /\ c.state = "popping" =>
       /\ c = Popping(c.hash, c.at, c.last, c.removed)
       /\ HasBlock(stores[n], c.hash)
       /\ c.at \in Nat /\ c.at >= 1
       /\ c.last \in Nat
       /\ c.removed \in BOOLEAN
       /\ c.removed => c.at >= 2

WorkerInv ==
  /\ DOMAIN worker = Node
  /\ \A n \in Node : DOMAIN worker[n] = Worker
  /\ \A n \in Node, w \in Worker : ConditionInv(chain, n, worker[n][w])

OrphanInv ==
  /\ DOMAIN orphans = Node
  /\ \A n \in Node : DOMAIN orphans[n] = Worker
  /\ \A n \in Node, w \in Worker : orphans[n][w] \in Seq(PublishedBlock(chain))

MinerInv ==
  /\ mining \in [Node -> SUBSET Hash]
  /\ \A n \in Node : mining[n] \subseteq DOMAIN chain[n].blocks
  /\ DOMAIN finished = Node
  /\ \A n \in Node : finished[n] \in Seq(Insertable(chain[n]))

GossipInv ==
  StoreInv /\ ControlInv /\ LinkInv /\ WorkerInv /\ OrphanInv /\ MinerInv

--------------------------------------------------------------------------------
(* Sequences *)

LEMMA AppendIsSeq ==
  ASSUME NEW S, NEW s \in Seq(S), NEW e \in S
  PROVE  Append(s, e) \in Seq(S)
  OBVIOUS

LEMMA ConcatOneIsSeq ==
  ASSUME NEW S, NEW s \in Seq(S), NEW e \in S
  PROVE  s \o <<e>> \in Seq(S)
<1>1. <<e>> \in Seq(S)
  OBVIOUS
<1>2. QED
  BY <1>1, ConcatProperties

LEMMA RemoveAtIsSeq ==
  ASSUME NEW S, NEW s \in Seq(S), NEW i \in 1 .. Len(s)
  PROVE  RemoveAt(s, i) \in Seq(S)
<1>1. /\ Len(s) \in Nat
      /\ \A j \in 1 .. Len(s) : s[j] \in S
  BY LenProperties
<1>2. SubSeq(s, 1, i - 1) \in Seq(S)
  BY <1>1, SubSeqProperties
<1>3. SubSeq(s, i + 1, Len(s)) \in Seq(S)
  BY <1>1, SubSeqProperties
<1>4. QED
  BY <1>2, <1>3, ConcatProperties DEF RemoveAt

--------------------------------------------------------------------------------
(* Steps in which no store loses a block *)

StoresGrow ==
  /\ StoreInv /\ StoreInv'
  /\ \A n \in Node : DOMAIN chain[n].blocks \subseteq DOMAIN chain'[n].blocks

LEMMA Messages ==
  /\ \A h \in Hash : NewBlockHashes(h) \in Message
  /\ \A h \in Hash \union {ZeroHash} : GetBlocks(h) \in Message
  /\ \A b \in Block : Blocks(b) \in Message
  /\ \A stores, n, h : h \in Hash /\ HasBlock(stores[n], h) =>
                        NewBlockHashes(h) \in Sendable(stores, n)
  /\ \A stores, n, h : h \in Hash \union {ZeroHash} => GetBlocks(h) \in Sendable(stores, n)
  /\ \A stores, n, b : b \in PublishedBlock(stores) => Blocks(b) \in Sendable(stores, n)
<1>1. /\ \A h \in Hash : NewBlockHashes(h) \in Message
      /\ \A h \in Hash \union {ZeroHash} : GetBlocks(h) \in Message
      /\ \A b \in Block : Blocks(b) \in Message
  BY DEF NewBlockHashes, GetBlocks, Blocks, Message
<1>2. \A stores, b : b \in PublishedBlock(stores) => b \in Block
  BY DEF PublishedBlock
<1>3. /\ \A h : NewBlockHashes(h).type = "NewBlockHashes" /\ NewBlockHashes(h).hash = h
      /\ \A h : GetBlocks(h).type = "GetBlocks"
      /\ \A b : Blocks(b).type = "Blocks" /\ Blocks(b).block = b
  BY DEF NewBlockHashes, GetBlocks, Blocks
<1>4. QED
  BY <1>1, <1>2, <1>3 DEF Sendable

LEMMA StillPublished ==
  ASSUME StoresGrow
  PROVE  /\ Published(chain) \subseteq Published(chain')
         /\ PublishedBlock(chain) \subseteq PublishedBlock(chain')
         /\ \A s \in Seq(PublishedBlock(chain)) : s \in Seq(PublishedBlock(chain'))
<1>1. Published(chain) \subseteq Published(chain')
  BY DEF StoresGrow, Published
<1>2. PublishedBlock(chain) \subseteq PublishedBlock(chain')
  BY <1>1 DEF PublishedBlock
<1>3. QED
  BY <1>1, <1>2, SeqMonotonic

LEMMA StoredIsPublished ==
  ASSUME StoreInv, NEW n \in Node, NEW h \in DOMAIN chain[n].blocks
  PROVE  /\ h \in Published(chain)
         /\ chain[n].blocks[h] \in PublishedBlock(chain)
<1>1. h \in Published(chain)
  BY DEF Published
<1>2. /\ chain[n].blocks[h] \in Block
      /\ chain[n].blocks[h].hash = h
  BY ChainFacts DEF StoreInv, ChainInv, Rooted
<1>3. QED
  BY <1>1, <1>2 DEF PublishedBlock

(* What could be sent and inserted before the step still can.               *)
LEMMA StillPossible ==
  ASSUME StoresGrow, NEW n \in Node
  PROVE  /\ Sendable(chain, n) \subseteq Sendable(chain', n)
         /\ Insertable(chain[n]) \subseteq Insertable(chain'[n])
         /\ \A s \in Seq(Sendable(chain, n)) : s \in Seq(Sendable(chain', n))
         /\ \A s \in Seq(Insertable(chain[n])) : s \in Seq(Insertable(chain'[n]))
<1>1. /\ DOMAIN chain[n].heights = DOMAIN chain[n].blocks
      /\ DOMAIN chain'[n].heights = DOMAIN chain'[n].blocks
      /\ DOMAIN chain[n].blocks \subseteq DOMAIN chain'[n].blocks
  BY ChainFacts DEF StoresGrow, StoreInv, ChainInv
<1>2. Sendable(chain, n) \subseteq Sendable(chain', n)
  BY <1>1, StillPublished DEF Sendable, HasBlock
<1>3. Insertable(chain[n]) \subseteq Insertable(chain'[n])
  BY <1>1 DEF Insertable, CanInsert
<1>4. QED
  BY <1>2, <1>3, SeqMonotonic

LEMMA StoresStay ==
  ASSUME StoreInv, UNCHANGED chain
  PROVE  StoresGrow
  BY DEF StoresGrow, StoreInv

LEMMA StoresGrowByInsertion ==
  ASSUME StoreInv, NEW n \in Node, NEW block \in Block,
         CanInsert(chain[n], block),
         chain' = [chain EXCEPT ![n] = Inserted(@, block)]
  PROVE  StoresGrow /\ HasBlock(chain'[n], block.hash)
<1>1. /\ ChainInv(Inserted(chain[n], block))
      /\ DOMAIN Inserted(chain[n], block).blocks =
           DOMAIN chain[n].blocks \union {block.hash}
  BY InsertedInv, InsertedFields DEF StoreInv
<1>2. /\ DOMAIN chain' = Node
      /\ chain'[n] = Inserted(chain[n], block)
      /\ \A m \in Node \ {n} : chain'[m] = chain[m]
  BY DEF StoreInv
<1>3. QED
  BY <1>1, <1>2 DEF StoresGrow, StoreInv, HasBlock

--------------------------------------------------------------------------------
(* What the parts of a step do to the parts of the invariant *)

LEMMA ControlStays ==
  ASSUME StoresGrow, ControlInv, UNCHANGED control
  PROVE  ControlInv'
  BY StillPossible DEF ControlInv

LEMMA ControlAfterBroadcast ==
  ASSUME StoresGrow, ControlInv, NEW n \in Node,
         NEW msg \in Sendable(chain', n), Broadcast(n, <<msg>>)
  PROVE  ControlInv'
<1>1. /\ DOMAIN control' = Node
      /\ control'[n] = control[n] \o <<msg>>
      /\ \A m \in Node \ {n} : control'[m] = control[m]
  BY DEF Broadcast, ControlInv
<1>2. \A m \in Node : control[m] \in Seq(Sendable(chain', m))
  BY StillPossible DEF ControlInv
<1>3. control'[n] \in Seq(Sendable(chain', n))
  BY <1>1, <1>2, ConcatOneIsSeq
<1>4. QED
  BY <1>1, <1>2, <1>3 DEF ControlInv

LEMMA LinkStays ==
  ASSUME StoresGrow, LinkInv, UNCHANGED link
  PROVE  LinkInv'
  BY StillPossible DEF LinkInv

LEMMA LinkAfterWrite ==
  ASSUME StoresGrow, LinkInv, NEW n \in Node, NEW m \in Node,
         NEW msg \in Sendable(chain', n), Write(n, m, msg)
  PROVE  LinkInv'
<1>1. /\ DOMAIN link' = Node
      /\ \A k \in Node : DOMAIN link'[k] = Node
      /\ link'[n][m] = Append(link[n][m], msg)
      /\ \A k \in Node, l \in Node : <<k, l>> # <<n, m>> => link'[k][l] = link[k][l]
  BY DEF Write, LinkInv
<1>2. \A k \in Node, l \in Node : link[k][l] \in Seq(Sendable(chain', k))
  BY StillPossible DEF LinkInv
<1>3. link'[n][m] \in Seq(Sendable(chain', n))
  BY <1>1, <1>2, AppendIsSeq
<1>4. QED
  BY <1>1, <1>2, <1>3 DEF LinkInv

LEMMA ConditionStays ==
  ASSUME StoresGrow, NEW n \in Node, NEW c, ConditionInv(chain, n, c)
  PROVE  ConditionInv(chain', n, c)
<1>1. c.state = "busy" => c.from \in Node /\ c.msg \in Sendable(chain', c.from)
  BY StillPossible DEF ConditionInv
<1>2. c.state = "popping" => HasBlock(chain'[n], c.hash)
  BY DEF ConditionInv, StoresGrow, HasBlock
<1>3. QED
  BY <1>1, <1>2 DEF ConditionInv

LEMMA WorkersStay ==
  ASSUME StoresGrow, WorkerInv, UNCHANGED worker
  PROVE  WorkerInv'
  BY ConditionStays DEF WorkerInv

LEMMA WorkersContinue ==
  ASSUME StoresGrow, WorkerInv, NEW n \in Node, NEW w \in Worker, NEW c,
         ConditionInv(chain', n, c),
         worker' = [worker EXCEPT ![n][w] = c]
  PROVE  WorkerInv'
<1>1. /\ DOMAIN worker' = Node
      /\ \A k \in Node : DOMAIN worker'[k] = Worker
      /\ worker'[n][w] = c
      /\ \A k \in Node, v \in Worker :
           <<k, v>> # <<n, w>> => worker'[k][v] = worker[k][v]
  BY DEF WorkerInv
<1>2. ASSUME NEW k \in Node, NEW v \in Worker
      PROVE  ConditionInv(chain', k, worker'[k][v])
  <2>1. CASE <<k, v>> = <<n, w>>
    BY <1>1, <2>1
  <2>2. CASE <<k, v>> # <<n, w>>
    <3>1. worker'[k][v] = worker[k][v] /\ ConditionInv(chain, k, worker[k][v])
      BY <1>1, <2>2 DEF WorkerInv
    <3>2. QED
      BY <3>1, ConditionStays
  <2>3. QED
    BY <2>1, <2>2
<1>3. QED
  BY <1>1, <1>2 DEF WorkerInv

LEMMA Resting ==
  ASSUME NEW stores, NEW n \in Node
  PROVE  ConditionInv(stores, n, Idle) /\ ConditionInv(stores, n, Dead)
  BY DEF ConditionInv, Idle, Dead

LEMMA OrphansStay ==
  ASSUME StoresGrow, OrphanInv, UNCHANGED orphans
  PROVE  OrphanInv'
  BY StillPublished DEF OrphanInv

LEMMA MinerStays ==
  ASSUME StoresGrow, MinerInv, UNCHANGED <<mining, finished>>
  PROVE  MinerInv'
  BY StillPossible DEF MinerInv, StoresGrow

--------------------------------------------------------------------------------
(* One lemma per action *)

LEMMA DispatchStep ==
  ASSUME GossipInv, NEW n \in Node, Dispatch(n)
  PROVE  GossipInv'
<1>1. StoresGrow
  BY StoresStay DEF GossipInv, Dispatch, storeVars
<1>2. /\ control[n] \in Seq(Sendable(chain, n))
      /\ control[n] # << >>
      /\ chain' = chain
  BY DEF GossipInv, ControlInv, Dispatch, Forward, storeVars
<1>3. /\ Head(control[n]) \in Sendable(chain, n)
      /\ Tail(control[n]) \in Seq(Sendable(chain, n))
  BY <1>2, HeadTailProperties
<1>4. ControlInv'
  BY <1>2, <1>3 DEF GossipInv, ControlInv, Dispatch, Forward
<1>5. LinkInv'
  <2>1. /\ DOMAIN link' = Node
        /\ \A k \in Node \ {n} : link'[k] = link[k]
        /\ link'[n] = [m \in Node |-> IF m \in Peers[n]
                                        THEN Append(link[n][m], Head(control[n]))
                                        ELSE link[n][m]]
    BY DEF GossipInv, LinkInv, Dispatch, Forward
  <2>2. \A m \in Node : link[n][m] \in Seq(Sendable(chain, n))
    BY DEF GossipInv, LinkInv
  <2>3. \A m \in Node : Append(link[n][m], Head(control[n])) \in Seq(Sendable(chain, n))
    BY <1>3, <2>2, AppendIsSeq
  <2>4. \A m \in Node : link'[n][m] \in Seq(Sendable(chain', n))
    BY <1>2, <2>1, <2>2, <2>3
  <2>5. QED
    BY <1>2, <2>1, <2>4 DEF GossipInv, LinkInv
<1>6. WorkerInv' /\ MinerInv'
  BY <1>1, WorkersStay, MinerStays DEF GossipInv, Dispatch, Forward, minerVars
<1>7. StoreInv' /\ OrphanInv'
  BY <1>1, OrphansStay DEF GossipInv, StoresGrow, Dispatch, storeVars
<1>8. QED
  BY <1>4, <1>5, <1>6, <1>7 DEF GossipInv

LEMMA TakeStep ==
  ASSUME GossipInv, NEW n \in Node, NEW w \in Worker, NEW m \in Node, Take(n, w, m)
  PROVE  GossipInv'
<1>1. StoresGrow
  BY StoresStay DEF GossipInv, Take, storeVars
<1>2. /\ link[m][n] \in Seq(Sendable(chain, m))
      /\ link[m][n] # << >>
      /\ chain' = chain
  BY DEF GossipInv, LinkInv, Take, Receive, storeVars
<1>3. /\ Head(link[m][n]) \in Sendable(chain, m)
      /\ Tail(link[m][n]) \in Seq(Sendable(chain, m))
  BY <1>2, HeadTailProperties
<1>4. LinkInv'
  BY <1>2, <1>3 DEF GossipInv, LinkInv, Take, Receive
<1>5. WorkerInv'
  <2>1. ConditionInv(chain', n, Busy(m, Head(link[m][n])))
    BY <1>2, <1>3 DEF ConditionInv, Busy
  <2>2. QED
    BY <1>1, <2>1, WorkersContinue DEF GossipInv, Take, Receive
<1>6. ControlInv' /\ MinerInv'
  BY <1>1, ControlStays, MinerStays DEF GossipInv, Take, Receive, minerVars
<1>7. StoreInv' /\ OrphanInv'
  BY <1>1, OrphansStay DEF GossipInv, StoresGrow, Take, storeVars
<1>8. QED
  BY <1>4, <1>5, <1>6, <1>7 DEF GossipInv

(* What a worker works on came from a node that could send it.              *)
LEMMA WorkIsSendable ==
  ASSUME GossipInv, NEW n \in Node, NEW w \in Worker, NEW type, WorksOn(n, w, type)
  PROVE  /\ worker[n][w].from \in Node
         /\ worker[n][w].msg \in Message
         /\ worker[n][w].msg.type = type
  BY DEF GossipInv, WorkerInv, ConditionInv, WorksOn, Sendable

LEMMA HashesAndBlocks ==
  ASSUME NEW msg \in Message
  PROVE  /\ msg.type = "NewBlockHashes" => msg.hash \in Hash
         /\ msg.type = "Blocks" => msg.block \in Block
  BY DEF Message

(* A block that a worker has received is stored somewhere.                  *)
LEMMA ReceivedIsPublished ==
  ASSUME GossipInv, NEW n \in Node, NEW w \in Worker, WorksOn(n, w, "Blocks")
  PROVE  worker[n][w].msg.block \in PublishedBlock(chain)
  BY DEF GossipInv, WorkerInv, ConditionInv, WorksOn, Sendable

LEMMA HandleNewBlockHashesStep ==
  ASSUME GossipInv, NEW n \in Node, NEW w \in Worker, HandleNewBlockHashes(n, w)
  PROVE  GossipInv'
<1>1. StoresGrow
  BY StoresStay DEF GossipInv, HandleNewBlockHashes, storeVars
<1> DEFINE m == worker[n][w].from
           h == worker[n][w].msg.hash
<1>2. m \in Node /\ h \in Hash
  BY WorkIsSendable, HashesAndBlocks DEF HandleNewBlockHashes, Handles
<1>3. GetBlocks(h) \in Sendable(chain', n)
  BY <1>2, Messages
<1>4. LinkInv'
  <2>1. UNCHANGED link \/ Write(n, m, GetBlocks(h))
    BY DEF HandleNewBlockHashes
  <2>2. QED
    BY <1>1, <1>2, <1>3, <2>1, LinkStays, LinkAfterWrite DEF GossipInv
<1>5. WorkerInv'
  BY <1>1, WorkersContinue, Resting
    DEF GossipInv, HandleNewBlockHashes, Finish
<1>6. ControlInv' /\ MinerInv'
  BY <1>1, ControlStays, MinerStays DEF GossipInv, HandleNewBlockHashes, minerVars
<1>7. StoreInv' /\ OrphanInv'
  BY <1>1, OrphansStay DEF GossipInv, StoresGrow, HandleNewBlockHashes, storeVars
<1>8. QED
  BY <1>4, <1>5, <1>6, <1>7 DEF GossipInv

LEMMA HandleGetBlocksStep ==
  ASSUME GossipInv, NEW n \in Node, NEW w \in Worker, HandleGetBlocks(n, w)
  PROVE  GossipInv'
<1>1. StoresGrow
  BY StoresStay DEF GossipInv, HandleGetBlocks, storeVars
<1> DEFINE m == worker[n][w].from
           h == worker[n][w].msg.hash
<1>2. m \in Node
  BY WorkIsSendable DEF HandleGetBlocks, Handles
<1>3. HasBlock(chain[n], h) => Blocks(chain[n].blocks[h]) \in Sendable(chain', n)
  BY StoredIsPublished, Messages DEF GossipInv, HandleGetBlocks, storeVars, HasBlock
<1>4. LinkInv'
  <2>1. \/ UNCHANGED link
        \/ HasBlock(chain[n], h) /\ Write(n, m, Blocks(chain[n].blocks[h]))
    BY DEF HandleGetBlocks
  <2>2. QED
    BY <1>1, <1>2, <1>3, <2>1, LinkStays, LinkAfterWrite DEF GossipInv
<1>5. WorkerInv'
  BY <1>1, WorkersContinue, Resting DEF GossipInv, HandleGetBlocks, Finish
<1>6. ControlInv' /\ MinerInv'
  BY <1>1, ControlStays, MinerStays DEF GossipInv, HandleGetBlocks, minerVars
<1>7. StoreInv' /\ OrphanInv'
  BY <1>1, OrphansStay DEF GossipInv, StoresGrow, HandleGetBlocks, storeVars
<1>8. QED
  BY <1>4, <1>5, <1>6, <1>7 DEF GossipInv

(* Steps that only put a worker into another condition.                     *)
LEMMA OnlyContinues ==
  ASSUME GossipInv, NEW n \in Node, NEW w \in Worker, NEW c,
         ConditionInv(chain, n, c),
         worker' = [worker EXCEPT ![n][w] = c],
         UNCHANGED <<chain, orphans, control, link, mining, finished>>
  PROVE  GossipInv'
<1>1. StoresGrow
  BY StoresStay DEF GossipInv
<1>2. WorkerInv'
  BY <1>1, WorkersContinue, ConditionStays DEF GossipInv
<1>3. ControlInv' /\ LinkInv' /\ MinerInv'
  BY <1>1, ControlStays, LinkStays, MinerStays DEF GossipInv
<1>4. StoreInv' /\ OrphanInv'
  BY <1>1, OrphansStay DEF GossipInv, StoresGrow
<1>5. QED
  BY <1>2, <1>3, <1>4 DEF GossipInv

LEMMA IgnoreBlockStep ==
  ASSUME GossipInv, NEW n \in Node, NEW w \in Worker, IgnoreBlock(n, w)
  PROVE  GossipInv'
  BY Resting, OnlyContinues DEF IgnoreBlock, Finish, storeVars, minerVars

LEMMA LoopPanicsStep ==
  ASSUME GossipInv, NEW n \in Node, NEW w \in Worker, LoopPanics(n, w)
  PROVE  GossipInv'
  BY Resting, OnlyContinues DEF LoopPanics, minerVars

LEMMA WorkerDiesStep ==
  ASSUME GossipInv, NEW n \in Node, NEW w \in Worker, WorkerDies(n, w)
  PROVE  GossipInv'
  BY Resting, OnlyContinues DEF WorkerDies, storeVars, minerVars

LEMMA PassOrphanStep ==
  ASSUME GossipInv, NEW n \in Node, NEW w \in Worker, PassOrphan(n, w)
  PROVE  GossipInv'
<1> DEFINE c == worker[n][w]
           d == Popping(c.hash, c.at + 1, c.last, c.removed)
<1>1. c.state = "popping" /\ ConditionInv(chain, n, c)
  BY DEF GossipInv, WorkerInv, PassOrphan, InLoop
<1>2. /\ HasBlock(chain[n], c.hash) /\ c.last \in Nat
      /\ c.at + 1 \in Nat /\ c.at + 1 >= 2
      /\ c.removed \in BOOLEAN
  BY <1>1 DEF ConditionInv
<1>3. ConditionInv(chain, n, d)
  BY <1>2 DEF ConditionInv, Popping
<1>4. worker' = [worker EXCEPT ![n][w] = d]
  BY DEF PassOrphan, GossipInv, WorkerInv
<1>5. QED
  BY <1>3, <1>4, OnlyContinues DEF PassOrphan, storeVars, minerVars

(* The orphan that leaves the buffer was in it, and the index stays right.  *)
LEMMA PopOrphanStep ==
  ASSUME GossipInv, NEW n \in Node, NEW w \in Worker, PopOrphan(n, w)
  PROVE  GossipInv'
<1>1. StoresGrow
  BY StoresStay DEF GossipInv, PopOrphan
<1> DEFINE c == worker[n][w]
           d == Popping(c.hash, c.at + 1, c.last, TRUE)
           i == OrphanIndex(n, w)
           buffer == orphans[n][w]
<1>2. c.state = "popping" /\ ConditionInv(chain, n, c)
  BY DEF GossipInv, WorkerInv, PopOrphan, InLoop
<1>3. buffer \in Seq(PublishedBlock(chain)) /\ i \in 1 .. Len(buffer)
  <2>1. buffer \in Seq(PublishedBlock(chain)) /\ i <= Len(buffer)
    BY DEF GossipInv, OrphanInv, PopOrphan
  <2>2. i \in Nat /\ i >= 1
    BY <1>2 DEF ConditionInv, OrphanIndex
  <2>3. QED
    BY <2>1, <2>2, LenProperties
<1>4. buffer[i] \in PublishedBlock(chain) /\ RemoveAt(buffer, i) \in Seq(PublishedBlock(chain))
  BY <1>3, ElementOfSeq, RemoveAtIsSeq
<1>5. OrphanInv'
  BY <1>4 DEF GossipInv, OrphanInv, PopOrphan
<1>6. ControlInv'
  BY <1>1, <1>4, Messages, ControlAfterBroadcast DEF GossipInv, PopOrphan
<1>7. WorkerInv'
  <2>1. /\ HasBlock(chain[n], c.hash) /\ c.last \in Nat
        /\ c.at + 1 \in Nat /\ c.at + 1 >= 2
    BY <1>2 DEF ConditionInv
  <2>2. worker' = [worker EXCEPT ![n][w] = d]
    BY DEF PopOrphan, GossipInv, WorkerInv
  <2>3. ConditionInv(chain, n, d)
    BY <2>1 DEF ConditionInv, Popping
  <2> HIDE DEF d
  <2>4. QED
    BY <1>1, <2>2, <2>3, WorkersContinue, ConditionStays DEF GossipInv
<1>8. StoreInv' /\ LinkInv' /\ MinerInv'
  BY <1>1, LinkStays, MinerStays DEF GossipInv, StoresGrow, PopOrphan, minerVars
<1>9. QED
  BY <1>5, <1>6, <1>7, <1>8 DEF GossipInv

LEMMA EndLoopStep ==
  ASSUME GossipInv, NEW n \in Node, NEW w \in Worker, EndLoop(n, w)
  PROVE  GossipInv'
<1>1. StoresGrow
  BY StoresStay DEF GossipInv, EndLoop, storeVars
<1> DEFINE h == worker[n][w].hash
<1>2. HasBlock(chain[n], h)
  BY DEF GossipInv, WorkerInv, ConditionInv, EndLoop
<1>3. h \in Hash
  BY <1>2, ChainFacts DEF GossipInv, StoreInv, ChainInv, HasBlock
<1>4. ControlInv'
  <2>1. NewBlockHashes(h) \in Sendable(chain', n)
    BY <1>2, <1>3, Messages DEF EndLoop, storeVars
  <2>2. QED
    BY <1>1, <2>1, ControlAfterBroadcast DEF GossipInv, EndLoop
<1>5. WorkerInv'
  BY <1>1, WorkersContinue, Resting DEF GossipInv, EndLoop, Finish
<1>6. StoreInv' /\ LinkInv' /\ MinerInv'
  BY <1>1, LinkStays, MinerStays DEF GossipInv, StoresGrow, EndLoop, minerVars
<1>7. OrphanInv'
  BY <1>1, OrphansStay DEF GossipInv, EndLoop, storeVars
<1>8. QED
  BY <1>4, <1>5, <1>6, <1>7 DEF GossipInv

(* An orphan is kept: the parent it asks for may be any hash at all.        *)
LEMMA KeepOrphanStep ==
  ASSUME GossipInv, NEW n \in Node, NEW w \in Worker, KeepOrphan(n, w)
  PROVE  GossipInv'
<1>1. StoresGrow
  BY StoresStay DEF GossipInv, KeepOrphan
<1> DEFINE block == worker[n][w].msg.block
<1>2. block \in PublishedBlock(chain) /\ block \in Block
  BY ReceivedIsPublished DEF KeepOrphan, Handles, PublishedBlock
<1>3. OrphanInv'
  <2>1. Append(orphans[n][w], block) \in Seq(PublishedBlock(chain))
    BY <1>2, AppendIsSeq DEF GossipInv, OrphanInv
  <2>2. QED
    BY <2>1 DEF GossipInv, OrphanInv, KeepOrphan
<1>4. ControlInv'
  <2>1. Parent[block.hash] \in Hash \union {ZeroHash}
    BY <1>2, HeaderAssumption DEF Block
  <2>2. GetBlocks(Parent[block.hash]) \in Sendable(chain', n)
    BY <2>1, Messages
  <2>3. QED
    BY <1>1, <2>2, ControlAfterBroadcast DEF GossipInv, KeepOrphan
<1>5. WorkerInv'
  BY <1>1, WorkersContinue, Resting DEF GossipInv, KeepOrphan, Finish
<1>6. StoreInv' /\ LinkInv' /\ MinerInv'
  BY <1>1, LinkStays, MinerStays DEF GossipInv, StoresGrow, KeepOrphan, minerVars
<1>7. QED
  BY <1>3, <1>4, <1>5, <1>6 DEF GossipInv

(* A block is accepted only if its parent is stored.                        *)
LEMMA AcceptedIsInsertable ==
  ASSUME NEW c, IsChain(c), NEW block, Disposition(c, block) = "accepted"
  PROVE  CanInsert(c, block)
<1>1. HasBlock(c, Parent[block.hash])
  BY DEF Disposition
<1>2. QED
  BY <1>1, ChainFacts DEF HasBlock, CanInsert

LEMMA AcceptBlockStep ==
  ASSUME GossipInv, NEW n \in Node, NEW w \in Worker, AcceptBlock(n, w)
  PROVE  GossipInv'
<1> DEFINE block == worker[n][w].msg.block
           h == block.hash
           loop == Popping(h, 1, Len(orphans[n][w]), FALSE)
<1>1. block \in Block
  BY WorkIsSendable, HashesAndBlocks DEF AcceptBlock, Handles
<1>2. CanInsert(chain[n], block)
  BY AcceptedIsInsertable DEF GossipInv, StoreInv, ChainInv, AcceptBlock
<1>3. StoresGrow /\ HasBlock(chain'[n], h)
  BY <1>1, <1>2, StoresGrowByInsertion DEF GossipInv, AcceptBlock
<1>4. h \in Hash
  BY <1>1 DEF Block
<1>5. ControlInv' /\ WorkerInv'
  <2>1. CASE Broadcast(n, <<NewBlockHashes(h)>>) /\ Finish(n, w)
    <3>1. NewBlockHashes(h) \in Sendable(chain', n)
      BY <1>3, <1>4, Messages
    <3>2. ControlInv'
      BY <1>3, <2>1, <3>1, ControlAfterBroadcast DEF GossipInv
    <3>3. QED
      BY <1>3, <2>1, <3>2, WorkersContinue, Resting DEF GossipInv, Finish
  <2>2. CASE worker' = [worker EXCEPT ![n][w] = loop] /\ UNCHANGED control
    <3>1. ConditionInv(chain', n, loop)
      BY <1>3 DEF ConditionInv, Popping
    <3>2. QED
      BY <1>3, <2>2, <3>1, WorkersContinue, ControlStays DEF GossipInv
  <2>3. QED
    BY <2>1, <2>2 DEF AcceptBlock
<1>6. StoreInv' /\ LinkInv' /\ MinerInv'
  BY <1>3, LinkStays, MinerStays DEF GossipInv, StoresGrow, AcceptBlock, minerVars
<1>7. OrphanInv'
  BY <1>3, OrphansStay DEF GossipInv, AcceptBlock
<1>8. QED
  BY <1>5, <1>6, <1>7 DEF GossipInv

(* The tip that the miner reads is a stored block.                          *)
LEMMA ReadTipStep ==
  ASSUME GossipInv, NEW n \in Node, ReadTip(n)
  PROVE  GossipInv'
<1>1. StoresGrow
  BY StoresStay DEF GossipInv, ReadTip, storeVars
<1>2. chain[n].tip \in DOMAIN chain[n].blocks /\ chain[n].tip \in Hash
  BY ChainFacts DEF GossipInv, StoreInv, ChainInv
<1>3. MinerInv'
  BY <1>2 DEF GossipInv, MinerInv, ReadTip, storeVars
<1>4. StoreInv' /\ ControlInv' /\ LinkInv' /\ WorkerInv'
  BY <1>1, ControlStays, LinkStays, WorkersStay
    DEF GossipInv, StoresGrow, ReadTip, networkVars
<1>5. OrphanInv'
  BY <1>1, OrphansStay DEF GossipInv, ReadTip, storeVars
<1>6. QED
  BY <1>3, <1>4, <1>5 DEF GossipInv

(* The block it finds is a child of the tip it has read.                    *)
LEMMA FindBlockStep ==
  ASSUME GossipInv, NEW n \in Node, NEW h \in Hash, FindBlock(n, h)
  PROVE  GossipInv'
<1>1. StoresGrow
  BY StoresStay DEF GossipInv, FindBlock, storeVars
<1> DEFINE block == [hash |-> h, txs |-> {}]
<1>2. block \in Insertable(chain[n])
  <2>1. Parent[h] \in DOMAIN chain[n].blocks
    BY DEF GossipInv, MinerInv, FindBlock
  <2>2. DOMAIN chain[n].heights = DOMAIN chain[n].blocks
    BY ChainFacts DEF GossipInv, StoreInv, ChainInv
  <2>3. QED
    BY <2>1, <2>2 DEF Insertable, CanInsert, Block
<1>3. MinerInv'
  <2>1. Append(finished[n], block) \in Seq(Insertable(chain[n]))
    BY <1>2, AppendIsSeq DEF GossipInv, MinerInv
  <2>2. QED
    BY <2>1 DEF GossipInv, MinerInv, FindBlock, storeVars
<1>4. StoreInv' /\ ControlInv' /\ LinkInv' /\ WorkerInv'
  BY <1>1, ControlStays, LinkStays, WorkersStay
    DEF GossipInv, StoresGrow, FindBlock, networkVars
<1>5. OrphanInv'
  BY <1>1, OrphansStay DEF GossipInv, FindBlock, storeVars
<1>6. QED
  BY <1>3, <1>4, <1>5 DEF GossipInv

LEMMA InsertMinedStep ==
  ASSUME GossipInv, NEW n \in Node, InsertMined(n)
  PROVE  GossipInv'
<1> DEFINE block == Head(finished[n])
           h == block.hash
<1>1. /\ block \in Insertable(chain[n])
      /\ Tail(finished[n]) \in Seq(Insertable(chain[n]))
  BY HeadTailProperties DEF GossipInv, MinerInv, InsertMined
<1>2. block \in Block /\ CanInsert(chain[n], block) /\ h \in Hash
  BY <1>1 DEF Insertable, Block
<1>3. StoresGrow /\ HasBlock(chain'[n], h)
  BY <1>2, StoresGrowByInsertion DEF GossipInv, InsertMined
<1>4. MinerInv'
  <2>1. /\ DOMAIN finished' = Node
        /\ finished'[n] = Tail(finished[n])
        /\ \A m \in Node \ {n} : finished'[m] = finished[m]
    BY DEF GossipInv, MinerInv, InsertMined
  <2>2. \A m \in Node : finished'[m] \in Seq(Insertable(chain'[m]))
    BY <1>1, <1>3, <2>1, StillPossible DEF GossipInv, MinerInv
  <2>3. QED
    BY <1>3, <2>1, <2>2 DEF GossipInv, MinerInv, StoresGrow, InsertMined
<1>5. ControlInv'
  <2>1. NewBlockHashes(h) \in Sendable(chain', n)
    BY <1>2, <1>3, Messages
  <2>2. QED
    BY <1>3, <2>1, ControlAfterBroadcast DEF GossipInv, InsertMined
<1>6. StoreInv' /\ LinkInv' /\ WorkerInv'
  BY <1>3, LinkStays, WorkersStay DEF GossipInv, StoresGrow, InsertMined
<1>7. OrphanInv'
  BY <1>3, OrphansStay DEF GossipInv, InsertMined
<1>8. QED
  BY <1>4, <1>5, <1>6, <1>7 DEF GossipInv

--------------------------------------------------------------------------------
(* The invariant and what follows from it *)

LEMMA GossipInit == Init => GossipInv
<1>1. SUFFICES ASSUME Init PROVE GossipInv
  OBVIOUS
<1>2. \A S : << >> \in Seq(S)
  BY EmptySeq
<1>3. StoreInv
  BY <1>1, GossipAssumption DEF Init, StoreInv
<1>4. ControlInv /\ LinkInv
  BY <1>1, <1>2 DEF Init, InitNetwork, ControlInv, LinkInv
<1>5. WorkerInv
  BY <1>1, Resting DEF Init, InitNetwork, WorkerInv
<1>6. OrphanInv /\ MinerInv
  BY <1>1, <1>2 DEF Init, OrphanInv, MinerInv
<1>7. QED
  BY <1>3, <1>4, <1>5, <1>6 DEF GossipInv

LEMMA HandleStep ==
  ASSUME GossipInv, NEW n \in Node, NEW w \in Worker, Handle(n, w)
  PROVE  GossipInv'
<1>1. CASE HandleNewBlockHashes(n, w)
  BY <1>1, HandleNewBlockHashesStep
<1>2. CASE HandleGetBlocks(n, w)
  BY <1>2, HandleGetBlocksStep
<1>3. CASE IgnoreBlock(n, w)
  BY <1>3, IgnoreBlockStep
<1>4. CASE KeepOrphan(n, w)
  BY <1>4, KeepOrphanStep
<1>5. CASE AcceptBlock(n, w)
  BY <1>5, AcceptBlockStep
<1>6. CASE PopOrphan(n, w)
  BY <1>6, PopOrphanStep
<1>7. CASE PassOrphan(n, w)
  BY <1>7, PassOrphanStep
<1>8. CASE LoopPanics(n, w)
  BY <1>8, LoopPanicsStep
<1>9. CASE EndLoop(n, w)
  BY <1>9, EndLoopStep
<1>10. CASE WorkerDies(n, w)
  BY <1>10, WorkerDiesStep
<1>11. QED
  BY <1>1, <1>2, <1>3, <1>4, <1>5, <1>6, <1>7, <1>8, <1>9, <1>10 DEF Handle

LEMMA GossipStep == GossipInv /\ [Next]_vars => GossipInv'
<1>1. SUFFICES ASSUME GossipInv, [Next]_vars PROVE GossipInv'
  OBVIOUS
<1>2. CASE UNCHANGED vars
  <2>1. UNCHANGED <<chain, control, link, worker, orphans, mining, finished>>
    BY <1>2 DEF vars, networkVars, storeVars, minerVars
  <2>2. StoresGrow
    BY <1>1, <2>1, StoresStay DEF GossipInv
  <2>3. StoreInv' /\ ControlInv' /\ LinkInv' /\ WorkerInv' /\ MinerInv'
    BY <1>1, <2>1, <2>2, ControlStays, LinkStays, WorkersStay, MinerStays
      DEF GossipInv, StoresGrow
  <2>4. OrphanInv'
    BY <1>1, <2>1, <2>2, OrphansStay DEF GossipInv
  <2>5. QED
    BY <2>3, <2>4 DEF GossipInv
<1>3. ASSUME NEW n \in Node, Dispatch(n)
      PROVE  GossipInv'
  BY <1>1, <1>3, DispatchStep
<1>4. ASSUME NEW n \in Node, NEW w \in Worker, NEW m \in Node, Take(n, w, m)
      PROVE  GossipInv'
  BY <1>1, <1>4, TakeStep
<1>5. ASSUME NEW n \in Node, NEW w \in Worker, Handle(n, w)
      PROVE  GossipInv'
  BY <1>1, <1>5, HandleStep
<1>6. ASSUME NEW n \in Node, ReadTip(n)
      PROVE  GossipInv'
  BY <1>1, <1>6, ReadTipStep
<1>7. ASSUME NEW n \in Node, NEW h \in Hash, FindBlock(n, h)
      PROVE  GossipInv'
  BY <1>1, <1>7, FindBlockStep
<1>8. ASSUME NEW n \in Node, InsertMined(n)
      PROVE  GossipInv'
  BY <1>1, <1>8, InsertMinedStep
<1>9. QED
  BY <1>1, <1>2, <1>3, <1>4, <1>5, <1>6, <1>7, <1>8 DEF Next

(* Everything that is under way between the threads and the nodes stays     *)
(* tied to the store it came from: worker_loop of src/network/worker.rs and *)
(* of src/miner/worker.rs, miner_loop of src/miner/mod.rs.                  *)
THEOREM GossipInvariant == Spec => []GossipInv
<1>1. Init => GossipInv
  BY GossipInit
<1>2. GossipInv /\ [Next]_vars => GossipInv'
  BY GossipStep
<1>3. QED
  BY <1>1, <1>2, PTL DEF Spec

(* On every node of any network the store stays a tree that hangs from      *)
(* genesis, with a tip at the end of a longest chain (insert() and its two  *)
(* callers).                                                                *)
THEOREM GossipStoresSound == Spec => []StoresSound
<1>1. GossipInv => StoresSound
  BY DEF GossipInv, StoreInv, StoresSound
<1>2. QED
  BY <1>1, GossipInvariant, PTL

(* A node can serve every block that it announces, for as long as the       *)
(* announcement is under way.                                               *)
THEOREM GossipAnnouncementsAreStored == Spec => []AnnouncementsAreStored
<1>1. ASSUME GossipInv PROVE AnnouncementsAreStored
  <2>1. SUFFICES ASSUME NEW n \in Node, NEW msg \in Undelivered(n)
                 PROVE  msg \in Sendable(chain, n)
    BY DEF AnnouncementsAreStored, Sendable
  <2>2. CASE msg \in Range(control[n])
    <3>1. control[n] \in Seq(Sendable(chain, n))
      BY <1>1 DEF GossipInv, ControlInv
    <3>2. QED
      BY <2>2, <3>1, LenProperties, ElementOfSeq DEF Range
  <2>3. ASSUME NEW m \in Node, msg \in Range(link[n][m])
        PROVE  msg \in Sendable(chain, n)
    <3>1. link[n][m] \in Seq(Sendable(chain, n))
      BY <1>1 DEF GossipInv, LinkInv
    <3>2. QED
      BY <2>3, <3>1, LenProperties, ElementOfSeq DEF Range
  <2>4. ASSUME NEW m \in Node, NEW w \in Worker,
               worker[m][w].state = "busy", worker[m][w].from = n,
               msg = worker[m][w].msg
        PROVE  msg \in Sendable(chain, n)
    BY <1>1, <2>4 DEF GossipInv, WorkerInv, ConditionInv
  <2>5. \/ msg \in Range(control[n])
        \/ \E m \in Node : msg \in Range(link[n][m])
        \/ \E k \in Node \X Worker : /\ worker[k[1]][k[2]].state = "busy"
                                     /\ worker[k[1]][k[2]].from = n
                                     /\ msg = worker[k[1]][k[2]].msg
    BY DEF Undelivered
  <2>6. QED
    BY <2>2, <2>3, <2>4, <2>5
<1>2. QED
  BY <1>1, GossipInvariant, PTL

--------------------------------------------------------------------------------
(* The longest-chain rule, at every node *)

(* A store changes by the insertion of one block whose parent it holds.     *)
LEMMA StoreStep ==
  ASSUME GossipInv, [Next]_vars
  PROVE  \/ chain' = chain
         \/ \E n \in Node, block \in Block :
              /\ CanInsert(chain[n], block)
              /\ chain' = [chain EXCEPT ![n] = Inserted(@, block)]
<1>1. CASE UNCHANGED vars
  BY <1>1 DEF vars, storeVars
<1>2. ASSUME NEW n \in Node, InsertMined(n)
      PROVE  \E block \in Block :
               /\ CanInsert(chain[n], block)
               /\ chain' = [chain EXCEPT ![n] = Inserted(@, block)]
  <2> DEFINE block == Head(finished[n])
  <2>1. block \in Insertable(chain[n])
    BY <1>2, HeadTailProperties DEF GossipInv, MinerInv, InsertMined
  <2>2. block \in Block /\ CanInsert(chain[n], block)
    BY <2>1 DEF Insertable
  <2>3. chain' = [chain EXCEPT ![n] = Inserted(@, block)]
    BY <1>2 DEF InsertMined
  <2> QED
    BY <2>2, <2>3
<1>3. ASSUME NEW n \in Node, NEW w \in Worker, AcceptBlock(n, w)
      PROVE  \E block \in Block :
               /\ CanInsert(chain[n], block)
               /\ chain' = [chain EXCEPT ![n] = Inserted(@, block)]
  <2> DEFINE block == worker[n][w].msg.block
  <2>1. block \in Block
    BY <1>3, WorkIsSendable, HashesAndBlocks DEF AcceptBlock, Handles
  <2>2. CanInsert(chain[n], block)
    BY <1>3, AcceptedIsInsertable DEF GossipInv, StoreInv, ChainInv, AcceptBlock
  <2>3. chain' = [chain EXCEPT ![n] = Inserted(@, block)]
    BY <1>3 DEF AcceptBlock
  <2> QED
    BY <2>1, <2>2, <2>3
<1>4. ASSUME NEW n \in Node, NEW w \in Worker, Handle(n, w), ~AcceptBlock(n, w)
      PROVE  chain' = chain
  BY <1>4
    DEF Handle, HandleNewBlockHashes, HandleGetBlocks, IgnoreBlock, KeepOrphan,
        PopOrphan, PassOrphan, LoopPanics, EndLoop, WorkerDies, storeVars
<1>5. ASSUME NEW n \in Node,
             \/ Dispatch(n) \/ ReadTip(n)
             \/ \E w \in Worker, m \in Node : Take(n, w, m)
             \/ \E h \in Hash : FindBlock(n, h)
      PROVE  chain' = chain
  BY <1>5 DEF Dispatch, ReadTip, Take, FindBlock, storeVars
<1>6. QED
  BY <1>1, <1>2, <1>3, <1>4, <1>5 DEF Next

LEMMA NodesRuleStep ==
  ASSUME GossipInv, [Next]_vars, NEW k \in Node
  PROVE  [Rule(k)!Next]_(Rule(k)!vars)
<1>1. CASE chain'[k] = chain[k]
  BY <1>1 DEF Rule!vars
<1>2. ASSUME NEW block \in Block, CanInsert(chain[k], block),
             chain'[k] = Inserted(chain[k], block)
      PROVE  Rule(k)!Next
  <2>1. /\ block.hash \in Hash \ {Genesis} /\ Parent[block.hash] \in DOMAIN chain[k].blocks
        /\ DOMAIN chain'[k].blocks = DOMAIN chain[k].blocks \union {block.hash}
        /\ chain'[k].tip \in Deepest(DOMAIN chain'[k].blocks)
        /\ chain[k].tip \in Deepest(DOMAIN chain'[k].blocks) => chain'[k].tip = chain[k].tip
    BY <1>2, InsertFollowsRule DEF GossipInv, StoreInv
  <2>2. Rule(k)!Grow(block.hash)
    BY <2>1 DEF Rule!Grow, Rule!Deepest, Deepest
  <2> QED
    BY <2>1, <2>2 DEF Rule!Next
<1>3. ASSUME NEW n \in Node, NEW block \in Block, CanInsert(chain[n], block),
             chain' = [chain EXCEPT ![n] = Inserted(@, block)]
      PROVE  \/ chain'[k] = chain[k]
             \/ /\ CanInsert(chain[k], block)
                /\ chain'[k] = Inserted(chain[k], block)
  BY <1>3 DEF GossipInv, StoreInv
<1> QED
  BY <1>1, <1>2, <1>3, StoreStep

(* Whatever a node receives, mines and loses, in whatever order, its store  *)
(* grows by blocks with a known parent and its tip moves by the             *)
(* longest-chain rule (insert(), called by worker_loop of                   *)
(* src/network/worker.rs and of src/miner/worker.rs).                       *)
THEOREM GossipNodesFollowRule == Spec => NodesFollowRule
<1>1. GossipInv /\ [Next]_vars => [\A n \in Node : [Rule(n)!Next]_(Rule(n)!vars)]_vars
  BY NodesRuleStep
<1>2. QED
  BY <1>1, GossipInvariant, PTL DEF Spec, NodesFollowRule

--------------------------------------------------------------------------------
(* The mutex of the store *)

(* At most one worker of a node is in the loop over its orphans, and nobody *)
(* has panicked while it is there: the loop runs under the mutex.           *)
MutexInv ==
  /\ poisoned \in [Node -> BOOLEAN]
  /\ \A n \in Node, v \in Worker :
       worker[n][v].state = "popping" =>
         /\ ~poisoned[n]
         /\ \A w \in Worker : worker[n][w].state = "popping" => w = v

LEMMA MutexStays ==
  ASSUME MutexInv, UNCHANGED <<worker, poisoned>>
  PROVE  MutexInv'
  BY DEF MutexInv

(* A worker that goes on without the mutex takes it from nobody.            *)
LEMMA MutexIsLeft ==
  ASSUME MutexInv, WorkerInv, NEW n \in Node, NEW w \in Worker, NEW c,
         c.state # "popping",
         worker' = [worker EXCEPT ![n][w] = c], UNCHANGED poisoned
  PROVE  MutexInv'
<1>1. \A k \in Node, v \in Worker :
        worker'[k][v].state = "popping" => worker[k][v].state = "popping"
  BY DEF WorkerInv
<1>2. QED
  BY <1>1 DEF MutexInv

(* A worker that has the mutex may keep it; one may lock it that is free.   *)
LEMMA MutexIsHeld ==
  ASSUME MutexInv, WorkerInv, NEW n \in Node, NEW w \in Worker, NEW c,
         worker[n][w].state = "popping" \/ ChainIsFree(n),
         worker' = [worker EXCEPT ![n][w] = c], UNCHANGED poisoned
  PROVE  MutexInv'
<1>1. \A k \in Node, v \in Worker :
        worker'[k][v] = worker[k][v] \/ (k = n /\ v = w)
  BY DEF WorkerInv
<1>2. /\ ~poisoned[n]
      /\ \A v \in Worker : worker[n][v].state = "popping" => v = w
  BY DEF MutexInv, ChainIsFree
<1>3. QED
  BY <1>1, <1>2 DEF MutexInv

LEMMA HandleMutex ==
  ASSUME GossipInv, MutexInv, NEW n \in Node, NEW w \in Worker, Handle(n, w)
  PROVE  MutexInv'
<1>1. WorkerInv /\ Idle.state # "popping" /\ Dead.state # "popping"
  BY DEF GossipInv, Idle, Dead
<1>2. CASE \/ HandleNewBlockHashes(n, w) \/ HandleGetBlocks(n, w)
           \/ IgnoreBlock(n, w) \/ KeepOrphan(n, w) \/ EndLoop(n, w)
  BY <1>1, <1>2, MutexIsLeft
    DEF HandleNewBlockHashes, HandleGetBlocks, IgnoreBlock, KeepOrphan, EndLoop,
        Finish, storeVars
<1>3. CASE WorkerDies(n, w)
  BY <1>1, <1>3, MutexIsLeft DEF WorkerDies, storeVars
<1>4. CASE AcceptBlock(n, w)
  <2>1. ChainIsFree(n) /\ UNCHANGED poisoned
    BY <1>4 DEF AcceptBlock, Handles
  <2>2. PICK c : worker' = [worker EXCEPT ![n][w] = c]
    BY <1>4 DEF AcceptBlock, Finish
  <2>3. QED
    BY <1>1, <2>1, <2>2, MutexIsHeld
<1>5. CASE PopOrphan(n, w) \/ PassOrphan(n, w)
  <2>1. worker[n][w].state = "popping" /\ UNCHANGED poisoned
    BY <1>5 DEF PopOrphan, PassOrphan, InLoop, storeVars
  <2>2. PICK c : worker' = [worker EXCEPT ![n][w] = c]
    BY <1>1, <1>5 DEF PopOrphan, PassOrphan, WorkerInv
  <2>3. QED
    BY <1>1, <2>1, <2>2, MutexIsHeld
<1>6. CASE LoopPanics(n, w)
  <2>1. /\ worker[n][w].state = "popping"
        /\ worker' = [worker EXCEPT ![n][w] = Dead]
        /\ poisoned' = [poisoned EXCEPT ![n] = TRUE]
    BY <1>6 DEF LoopPanics, InLoop
  <2>2. \A k \in Node, v \in Worker :
          worker'[k][v].state = "popping" =>
            worker[k][v].state = "popping" /\ <<k, v>> # <<n, w>>
    BY <1>1, <2>1 DEF WorkerInv
  <2>3. \A v \in Worker : worker'[n][v].state # "popping"
    BY <2>1, <2>2 DEF MutexInv
  <2>4. /\ poisoned' \in [Node -> BOOLEAN]
        /\ \A k \in Node \ {n} : poisoned'[k] = poisoned[k]
    BY <2>1 DEF MutexInv
  <2>5. QED
    BY <2>2, <2>3, <2>4 DEF MutexInv
<1>7. QED
  BY <1>2, <1>3, <1>4, <1>5, <1>6 DEF Handle

LEMMA MutexStep == GossipInv /\ MutexInv /\ [Next]_vars => MutexInv'
<1>1. SUFFICES ASSUME GossipInv, MutexInv, [Next]_vars PROVE MutexInv'
  OBVIOUS
<1>2. CASE UNCHANGED <<worker, poisoned>>
  BY <1>1, <1>2, MutexStays
<1>3. ASSUME NEW n \in Node, NEW w \in Worker, NEW m \in Node, Take(n, w, m)
      PROVE  MutexInv'
  <2>1. Busy(m, Head(link[m][n])).state # "popping"
    BY DEF Busy
  <2>2. QED
    BY <1>1, <1>3, <2>1, MutexIsLeft DEF GossipInv, Take, Receive, storeVars
<1>4. ASSUME NEW n \in Node, \/ Dispatch(n) \/ ReadTip(n) \/ InsertMined(n)
                             \/ \E h \in Hash : FindBlock(n, h)
      PROVE  UNCHANGED <<worker, poisoned>>
  BY <1>4 DEF Dispatch, Forward, ReadTip, InsertMined, FindBlock, storeVars, networkVars
<1>5. QED
  BY <1>1, <1>2, <1>3, <1>4, HandleMutex DEF Next, vars, storeVars, networkVars

--------------------------------------------------------------------------------
(* Every header is mined once *)

(* What the miners have finished and nobody has inserted is nowhere yet:    *)
(* not in a store, and so in no message and no buffer of orphans, and only  *)
(* once in the channels from the miners to their workers.                   *)
FreshInv ==
  /\ mined \subseteq Hash
  /\ Published(chain) \subseteq mined
  /\ \A n \in Node : \A i \in DOMAIN finished[n] :
       finished[n][i].hash \in mined \ Published(chain)
  /\ \A n, m \in Node : \A i \in DOMAIN finished[n], j \in DOMAIN finished[m] :
       finished[n][i].hash = finished[m][j].hash => n = m /\ i = j

LEMMA FreshStays ==
  ASSUME FreshInv, UNCHANGED <<finished, mined>>, Published(chain') = Published(chain)
  PROVE  FreshInv'
  BY DEF FreshInv

LEMMA PublishedByInsertion ==
  ASSUME StoreInv, NEW n \in Node, NEW block \in Block,
         CanInsert(chain[n], block),
         chain' = [chain EXCEPT ![n] = Inserted(@, block)]
  PROVE  /\ DOMAIN chain'[n].blocks = DOMAIN chain[n].blocks \union {block.hash}
         /\ \A m \in Node \ {n} : chain'[m] = chain[m]
         /\ Published(chain') = Published(chain) \union {block.hash}
<1>1. /\ chain'[n] = Inserted(chain[n], block)
      /\ \A m \in Node \ {n} : chain'[m] = chain[m]
  BY DEF StoreInv
<1>2. DOMAIN chain'[n].blocks = DOMAIN chain[n].blocks \union {block.hash}
  BY <1>1, InsertedFields
<1>3. QED
  BY <1>1, <1>2 DEF Published

(* A worker inserts a block that another node has.                          *)
LEMMA AcceptedBlock ==
  ASSUME GossipInv, NEW n \in Node, NEW w \in Worker, AcceptBlock(n, w)
  PROVE  LET block == worker[n][w].msg.block
         IN  /\ block \in Block /\ block.hash \in Hash
             /\ block.hash \in Published(chain)
             /\ block.hash \notin DOMAIN chain[n].blocks
             /\ CanInsert(chain[n], block)
             /\ chain' = [chain EXCEPT ![n] = Inserted(@, block)]
<1> DEFINE block == worker[n][w].msg.block
<1>1. block \in Block /\ block.hash \in Published(chain) /\ block.hash \in Hash
  BY ReceivedIsPublished DEF AcceptBlock, Handles, PublishedBlock, Block
<1>2. CanInsert(chain[n], block)
  BY AcceptedIsInsertable DEF GossipInv, StoreInv, ChainInv, AcceptBlock
<1>3. block.hash \notin DOMAIN chain[n].blocks
  BY DEF AcceptBlock, Disposition, HasBlock
<1>4. chain' = [chain EXCEPT ![n] = Inserted(@, block)]
  BY DEF AcceptBlock
<1>5. QED
  BY <1>1, <1>2, <1>3, <1>4

(* The miner's worker inserts a block that nobody has.                      *)
LEMMA MinedBlock ==
  ASSUME GossipInv, FreshInv, NEW n \in Node, InsertMined(n)
  PROVE  LET block == Head(finished[n])
         IN  /\ block \in Block /\ block.hash \in mined
             /\ block.hash \notin Published(chain)
             /\ block.hash \notin DOMAIN chain[n].blocks
             /\ 1 \in DOMAIN finished[n] /\ finished[n][1] = block
             /\ \A i \in DOMAIN Tail(finished[n]) :
                  /\ i + 1 \in DOMAIN finished[n]
                  /\ i # 0 /\ i \in Nat
                  /\ Tail(finished[n])[i] = finished[n][i + 1]
             /\ CanInsert(chain[n], block)
             /\ chain' = [chain EXCEPT ![n] = Inserted(@, block)]
<1> DEFINE block == Head(finished[n])
<1>1. finished[n] \in Seq(Insertable(chain[n])) /\ finished[n] # << >>
  BY DEF GossipInv, MinerInv, InsertMined
<1>2. block \in Block /\ CanInsert(chain[n], block)
  BY <1>1, HeadTailProperties DEF Insertable
<1>3. /\ 1 \in DOMAIN finished[n] /\ finished[n][1] = block
      /\ \A i \in DOMAIN Tail(finished[n]) :
           /\ i + 1 \in DOMAIN finished[n]
           /\ i # 0 /\ i \in Nat
           /\ Tail(finished[n])[i] = finished[n][i + 1]
  BY <1>1, Taken
<1>4. block.hash \in mined \ Published(chain)
  BY <1>3 DEF FreshInv
<1>5. block.hash \notin DOMAIN chain[n].blocks
  BY <1>4 DEF Published
<1>6. chain' = [chain EXCEPT ![n] = Inserted(@, block)]
  BY DEF InsertMined
<1>7. QED
  BY <1>2, <1>3, <1>4, <1>5, <1>6

LEMMA AcceptBlockFresh ==
  ASSUME GossipInv, FreshInv, NEW n \in Node, NEW w \in Worker, AcceptBlock(n, w)
  PROVE  FreshInv'
<1>1. Published(chain') = Published(chain)
  BY AcceptedBlock, PublishedByInsertion DEF GossipInv
<1>2. UNCHANGED <<finished, mined>>
  BY DEF AcceptBlock, minerVars
<1>3. QED
  BY <1>1, <1>2, FreshStays

LEMMA InsertMinedFresh ==
  ASSUME GossipInv, FreshInv, NEW n \in Node, InsertMined(n)
  PROVE  FreshInv'
<1> DEFINE h == Head(finished[n]).hash
<1>1. /\ h \in mined
      /\ 1 \in DOMAIN finished[n] /\ finished[n][1].hash = h
      /\ Published(chain') = Published(chain) \union {h}
  BY MinedBlock, PublishedByInsertion DEF GossipInv
<1>2. /\ mined' = mined
      /\ \A m \in Node \ {n} : finished'[m] = finished[m]
      /\ finished'[n] = Tail(finished[n])
  BY DEF InsertMined, GossipInv, MinerInv
<1>3. \A i \in DOMAIN finished'[n] : /\ i + 1 \in DOMAIN finished[n]
                                     /\ i \in Nat /\ i + 1 # 1
                                     /\ finished'[n][i] = finished[n][i + 1]
  BY <1>2, MinedBlock
<1> HIDE DEF h
<1>4. \A m \in Node : \A i \in DOMAIN finished'[m] :
        \E j \in DOMAIN finished[m] : /\ finished'[m][i] = finished[m][j]
                                      /\ m # n => j = i
                                      /\ m = n => i \in Nat /\ j = i + 1 /\ j # 1
  BY <1>2, <1>3
<1>5. ASSUME NEW m \in Node, NEW i \in DOMAIN finished'[m]
      PROVE  finished'[m][i].hash \in mined' \ Published(chain')
  <2>1. PICK j \in DOMAIN finished[m] : /\ finished'[m][i] = finished[m][j]
                                        /\ m = n => j # 1
    BY <1>4
  <2>2. finished[m][j].hash \in mined \ Published(chain)
    BY DEF FreshInv
  <2>3. finished[m][j].hash # h
    BY <1>1, <2>1 DEF FreshInv
  <2>4. QED
    BY <1>1, <1>2, <2>1, <2>2, <2>3
<1>6. ASSUME NEW k \in Node, NEW m \in Node,
             NEW i \in DOMAIN finished'[k], NEW j \in DOMAIN finished'[m],
             finished'[k][i].hash = finished'[m][j].hash
      PROVE  k = m /\ i = j
  <2>1. PICK x \in DOMAIN finished[k] : /\ finished'[k][i] = finished[k][x]
                                        /\ k # n => x = i
                                        /\ k = n => i \in Nat /\ x = i + 1
    BY <1>4
  <2>2. PICK y \in DOMAIN finished[m] : /\ finished'[m][j] = finished[m][y]
                                        /\ m # n => y = j
                                        /\ m = n => j \in Nat /\ y = j + 1
    BY <1>4
  <2>3. k = m /\ x = y
    BY <1>6, <2>1, <2>2 DEF FreshInv
  <2>4. QED
    BY <2>1, <2>2, <2>3
<1>7. mined' \subseteq Hash /\ Published(chain') \subseteq mined'
  BY <1>1, <1>2 DEF FreshInv
<1>8. QED
  BY <1>5, <1>6, <1>7 DEF FreshInv

LEMMA FindBlockFresh ==
  ASSUME GossipInv, FreshInv, NEW n \in Node, NEW h \in Hash, FindBlock(n, h)
  PROVE  FreshInv'
<1> DEFINE block == [hash |-> h, txs |-> {}]
           last == Len(finished[n]) + 1
<1>1. /\ h \notin mined /\ mined' = mined \union {h} /\ chain' = chain
      /\ finished'[n] = Append(finished[n], block)
      /\ \A m \in Node \ {n} : finished'[m] = finished[m]
  BY DEF FindBlock, storeVars, GossipInv, MinerInv
<1>2. /\ DOMAIN finished[n] = 1 .. Len(finished[n]) /\ Len(finished[n]) \in Nat
      /\ DOMAIN finished'[n] = 1 .. last
      /\ finished'[n][last].hash = h
      /\ \A i \in DOMAIN finished[n] : finished'[n][i] = finished[n][i]
  BY <1>1, AppendProperties, LenProperties DEF GossipInv, MinerInv
<1>3. \A m \in Node : \A i \in DOMAIN finished'[m] :
        \/ i \in DOMAIN finished[m] /\ finished'[m][i] = finished[m][i]
        \/ m = n /\ i = last /\ finished'[m][i].hash = h
  BY <1>1, <1>2
<1>4. h \notin Published(chain)
  BY <1>1 DEF FreshInv
<1>5. ASSUME NEW k \in Node, NEW m \in Node,
             NEW i \in DOMAIN finished'[k], NEW j \in DOMAIN finished'[m],
             finished'[k][i].hash = finished'[m][j].hash
      PROVE  k = m /\ i = j
  BY <1>1, <1>3, <1>5 DEF FreshInv
<1>6. ASSUME NEW m \in Node, NEW i \in DOMAIN finished'[m]
      PROVE  finished'[m][i].hash \in mined' \ Published(chain')
  BY <1>1, <1>3, <1>4 DEF FreshInv
<1>7. QED
  BY <1>1, <1>5, <1>6 DEF FreshInv

LEMMA FreshStep == GossipInv /\ FreshInv /\ [Next]_vars => FreshInv'
<1>1. SUFFICES ASSUME GossipInv, FreshInv, [Next]_vars PROVE FreshInv'
  OBVIOUS
<1>2. CASE UNCHANGED <<chain, finished, mined>>
  BY <1>1, <1>2, FreshStays
<1>3. ASSUME NEW n \in Node, NEW w \in Worker, Handle(n, w)
      PROVE  AcceptBlock(n, w) \/ UNCHANGED <<chain, finished, mined>>
  BY <1>3
    DEF Handle, HandleNewBlockHashes, HandleGetBlocks, IgnoreBlock, KeepOrphan,
        PopOrphan, PassOrphan, LoopPanics, EndLoop, WorkerDies, storeVars, minerVars
<1>4. ASSUME NEW n \in Node,
             \/ Dispatch(n) \/ ReadTip(n)
             \/ \E w \in Worker, m \in Node : Take(n, w, m)
      PROVE  UNCHANGED <<chain, finished, mined>>
  BY <1>4 DEF Dispatch, ReadTip, Take, storeVars, minerVars
<1>5. QED
  BY <1>1, <1>2, <1>3, <1>4, AcceptBlockFresh, InsertMinedFresh, FindBlockFresh
    DEF Next, vars, storeVars, minerVars

LEMMA MutexAndFreshInit == Init => MutexInv /\ FreshInv
<1>1. SUFFICES ASSUME Init PROVE MutexInv /\ FreshInv
  OBVIOUS
<1>2. MutexInv
  BY <1>1 DEF Init, InitNetwork, MutexInv, Idle
<1>3. mined = Published(chain) /\ \A n \in Node : DOMAIN chain[n].blocks \subseteq Hash
  BY <1>1, GossipAssumption, ChainFacts DEF Init, Published, ChainInv
<1>4. \A n \in Node : DOMAIN finished[n] = {}
  BY <1>1 DEF Init
<1>5. FreshInv
  BY <1>3, <1>4 DEF FreshInv, Published
<1>6. QED
  BY <1>2, <1>5

(* What GossipInvariant leaves out: the loop over the orphans runs under    *)
(* the mutex (src/network/worker.rs), and a block that a miner has found    *)
(* is in nobody's store before the miner's worker inserts it                *)
(* (src/miner/worker.rs).                                                   *)
THEOREM GossipMutexAndFresh == Spec => [](MutexInv /\ FreshInv)
<1>1. Init => MutexInv /\ FreshInv
  BY MutexAndFreshInit
<1>2. GossipInv /\ (MutexInv /\ FreshInv) /\ [Next]_vars => (MutexInv /\ FreshInv)'
  BY MutexStep, FreshStep
<1>3. QED
  BY <1>1, <1>2, GossipInvariant, PTL DEF Spec

LEMMA MessageIsMessage == \A msg \in Message : IsMessage(msg)
<1>1. ASSUME NEW msg \in Message PROVE IsMessage(msg)
  <2>1. CASE msg \in [type : {"NewBlockHashes"}, hash : Hash]
    <3>1. msg = NewBlockHashes(msg.hash) /\ msg.hash \in Hash
      BY <2>1 DEF NewBlockHashes
    <3>2. QED
      BY <3>1 DEF IsMessage
  <2>2. CASE msg \in [type : {"GetBlocks"}, hash : Hash \union {ZeroHash}]
    <3>1. msg = GetBlocks(msg.hash) /\ msg.hash \in Hash \union {ZeroHash}
      BY <2>2 DEF GetBlocks
    <3>2. QED
      BY <3>1 DEF IsMessage
  <2>3. CASE msg \in [type : {"Blocks"}, block : Block]
    <3>1. msg = Blocks(msg.block) /\ msg.block \in Block
      BY <2>3 DEF Blocks
    <3>2. QED
      BY <3>1 DEF IsMessage
  <2>4. QED
    BY <2>1, <2>2, <2>3 DEF Message
<1>2. QED
  BY <1>1

LEMMA SequenceOfItsRange ==
  ASSUME NEW S, NEW s \in Seq(S)
  PROVE  s \in Seq(Range(s)) /\ \A i \in DOMAIN s : s[i] \in S
<1>1. Len(s) \in Nat /\ s \in [1 .. Len(s) -> S]
  BY LenProperties
<1>2. s \in [1 .. Len(s) -> Range(s)]
  BY <1>1 DEF Range
<1>3. QED
  BY <1>1, <1>2

(* The gossip keeps its types: every message is one of the three kinds that *)
(* the enum Message has for blocks, every worker is in a condition that     *)
(* worker_loop can be in.                                                   *)
THEOREM GossipTypeCorrect == Spec => []TypeOK
<1>1. ASSUME GossipInv, MutexInv, FreshInv PROVE TypeOK
  <2>1. \A n \in Node : \A s \in Seq(Sendable(chain, n)) :
          s \in Seq(Range(s)) /\ \A i \in DOMAIN s : IsMessage(s[i])
    BY SequenceOfItsRange, MessageIsMessage DEF Sendable
  <2>2. ASSUME NEW n \in Node, NEW w \in Worker PROVE IsCondition(worker[n][w])
    <3> DEFINE c == worker[n][w]
    <3>1. ConditionInv(chain, n, c)
      BY <1>1 DEF GossipInv, WorkerInv
    <3>2. c.state = "busy" => IsMessage(c.msg)
      BY <3>1, MessageIsMessage DEF ConditionInv, Sendable
    <3>3. c.state = "popping" => c.hash \in Hash
      BY <1>1, <3>1, ChainFacts DEF ConditionInv, GossipInv, StoreInv, ChainInv, HasBlock
    <3>4. QED
      BY <3>1, <3>2, <3>3 DEF ConditionInv, IsCondition
  <2>3. NetworkTypeOK(IsMessage, IsCondition)
    BY <1>1, <2>1, <2>2 DEF GossipInv, ControlInv, LinkInv, NetworkTypeOK
  <2>4. \A n \in Node, w \in Worker : orphans[n][w] \in Seq(Block)
    <3>1. PublishedBlock(chain) \subseteq Block
      BY DEF PublishedBlock
    <3>2. QED
      BY <1>1, <3>1, SeqMonotonic DEF GossipInv, OrphanInv
  <2>5. \A n \in Node : finished[n] \in Seq(Block)
    <3>1. \A n \in Node : Insertable(chain[n]) \subseteq Block
      BY DEF Insertable
    <3>2. QED
      BY <1>1, <3>1, SeqMonotonic DEF GossipInv, MinerInv
  <2>6. \A n \in Node : IsChain(chain[n])
    BY <1>1 DEF GossipInv, StoreInv, ChainInv
  <2>7. QED
    BY <1>1, <2>3, <2>4, <2>5, <2>6 DEF TypeOK, MutexInv, FreshInv, GossipInv, MinerInv
<1>2. QED
  BY <1>1, GossipInvariant, GossipMutexAndFresh, PTL

--------------------------------------------------------------------------------
(* Insertions and announcements *)

(* In this step n announces what it inserts, at once or from a loop that    *)
(* begins or ends.                                                          *)
Balanced(n) ==
  Unannounced(n) \union (DOMAIN chain'[n].blocks \ DOMAIN chain[n].blocks) =
    NewlyAnnounced(n) \union Unannounced(n)'

LEMMA LastOfConcat ==
  ASSUME NEW S, NEW s \in Seq(S), NEW e \in S
  PROVE  Len(s \o <<e>>) > Len(s) /\ Last(s \o <<e>>) = e
<1>1. /\ <<e>> \in Seq(S) /\ Len(<<e>>) = 1 /\ <<e>>[1] = e
      /\ Len(s) \in Nat
  BY LenProperties
<1>2. Len(s \o <<e>>) = Len(s) + 1 /\ (s \o <<e>>)[Len(s) + 1] = e
  BY <1>1, ConcatProperties
<1>3. QED
  BY <1>1, <1>2 DEF Last

(* What a node announces by one broadcast, and by none.                     *)
LEMMA AnnouncedByBroadcast ==
  ASSUME GossipInv, NEW n \in Node, NEW msg \in Message, Broadcast(n, <<msg>>)
  PROVE  /\ NewlyAnnounced(n) = {h \in Hash : msg = NewBlockHashes(h)}
         /\ \A m \in Node \ {n} : control'[m] = control[m]
<1>1. /\ control'[n] = control[n] \o <<msg>>
      /\ \A m \in Node \ {n} : control'[m] = control[m]
  BY DEF Broadcast, GossipInv, ControlInv
<1>2. control[n] \in Seq(Message)
  <2>1. Sendable(chain, n) \subseteq Message
    BY DEF Sendable
  <2>2. QED
    BY <2>1, SeqMonotonic DEF GossipInv, ControlInv
<1>3. Len(control'[n]) > Len(control[n]) /\ Last(control'[n]) = msg
  BY <1>1, <1>2, LastOfConcat
<1>4. QED
  BY <1>1, <1>3 DEF NewlyAnnounced

LEMMA NothingAnnounced ==
  ASSUME GossipInv, NEW n \in Node,
         control'[n] = control[n] \/ (control[n] # << >> /\ control'[n] = Tail(control[n]))
  PROVE  NewlyAnnounced(n) = {}
<1>1. Len(control[n]) \in Nat /\ control[n] \in Seq(Sendable(chain, n))
  BY LenProperties DEF GossipInv, ControlInv
<1>2. CASE control'[n] = control[n]
  <2>1. Len(control'[n]) = Len(control[n])
    BY <1>2
  <2>2. QED
    BY <1>1, <2>1 DEF NewlyAnnounced
<1>3. CASE control[n] # << >> /\ control'[n] = Tail(control[n])
  <2>1. Len(Tail(control[n])) = Len(control[n]) - 1
    BY <1>1, <1>3, HeadTailProperties
  <2>2. Len(control'[n]) = Len(Tail(control[n]))
    BY <1>3
  <2>3. Len(control'[n]) = Len(control[n]) - 1
    BY <2>1, <2>2
  <2>4. QED
    BY <1>1, <2>3 DEF NewlyAnnounced
<1>4. QED
  BY <1>2, <1>3

LEMMA OneAnnounced ==
  /\ \A h \in Hash : {g \in Hash : NewBlockHashes(h) = NewBlockHashes(g)} = {h}
  /\ \A h, x : GetBlocks(x) # NewBlockHashes(h) /\ Blocks(x) # NewBlockHashes(h)
<1>1. \A h : NewBlockHashes(h).hash = h /\ NewBlockHashes(h).type = "NewBlockHashes"
  BY DEF NewBlockHashes
<1>2. \A x : GetBlocks(x).type = "GetBlocks" /\ Blocks(x).type = "Blocks"
  BY DEF GetBlocks, Blocks
<1>3. QED
  BY <1>1, <1>2

(* A node that does none of it. *)
LEMMA BalancedAtRest ==
  ASSUME GossipInv, NEW n \in Node, chain'[n] = chain[n],
         control'[n] = control[n] \/ (control[n] # << >> /\ control'[n] = Tail(control[n])),
         \A v \in Worker : /\ worker'[n][v].state = "popping" <=> worker[n][v].state = "popping"
                           /\ worker[n][v].state = "popping" =>
                                worker'[n][v].hash = worker[n][v].hash
  PROVE  Balanced(n)
<1>1. NewlyAnnounced(n) = {}
  BY NothingAnnounced
<1>2. Unannounced(n)' = Unannounced(n)
  BY DEF Unannounced
<1>3. QED
  BY <1>1, <1>2 DEF Balanced

LEMMA BalancedElsewhere ==
  ASSUME GossipInv, NEW n \in Node, UNCHANGED <<chain[n], control[n], worker[n]>>
  PROVE  Balanced(n)
  BY BalancedAtRest

(* A worker that neither has the mutex nor keeps it, and queues nothing or  *)
(* something else than an announcement.                                     *)
LEMMA BalancedHandling ==
  ASSUME GossipInv, NEW n \in Node, NEW w \in Worker, NEW c,
         c.state # "popping", worker[n][w].state # "popping",
         worker' = [worker EXCEPT ![n][w] = c], UNCHANGED chain,
         NewlyAnnounced(n) = {}
  PROVE  Balanced(n)
<1>1. \A v \in Worker : \/ worker'[n][v] = worker[n][v]
                        \/ v = w /\ worker'[n][v].state # "popping"
  BY DEF GossipInv, WorkerInv
<1>2. Unannounced(n)' = Unannounced(n)
  BY <1>1 DEF Unannounced
<1>3. QED
  BY <1>2 DEF Balanced

(* A worker that inserts a block while nobody has the mutex: it announces   *)
(* the block or begins the loop.                                            *)
LEMMA BalancedAccepting ==
  ASSUME GossipInv, NEW n \in Node, NEW w \in Worker, AcceptBlock(n, w)
  PROVE  Balanced(n)
<1> DEFINE h == worker[n][w].msg.block.hash
           loop == Popping(h, 1, Len(orphans[n][w]), FALSE)
<1>1. /\ h \in Hash
      /\ DOMAIN chain'[n].blocks \ DOMAIN chain[n].blocks = {h}
  BY AcceptedBlock, PublishedByInsertion DEF GossipInv
<1>2. \A v \in Worker : worker[n][v].state # "popping"
  BY DEF AcceptBlock, Handles, ChainIsFree
<1>3. Unannounced(n) = {}
  BY <1>2 DEF Unannounced
<1>4. CASE Broadcast(n, <<NewBlockHashes(h)>>) /\ Finish(n, w)
  <2>1. NewlyAnnounced(n) = {h}
    BY <1>1, <1>4, AnnouncedByBroadcast, OneAnnounced, Messages
  <2>2. \A v \in Worker : worker'[n][v].state # "popping"
    BY <1>2, <1>4 DEF Finish, Idle, GossipInv, WorkerInv
  <2>3. QED
    BY <1>1, <1>3, <2>1, <2>2 DEF Balanced, Unannounced
<1>5. CASE worker' = [worker EXCEPT ![n][w] = loop] /\ UNCHANGED control
  <2>1. NewlyAnnounced(n) = {}
    BY <1>5, NothingAnnounced
  <2>2. /\ worker'[n][w].state = "popping" /\ worker'[n][w].hash = h
        /\ \A v \in Worker \ {w} : worker'[n][v].state # "popping"
    BY <1>2, <1>5 DEF Popping, GossipInv, WorkerInv
  <2> HIDE DEF h
  <2>3. Unannounced(n)' = {h}
    BY <2>2 DEF Unannounced
  <2>4. QED
    BY <1>1, <1>3, <2>1, <2>3 DEF Balanced
<1>6. QED
  BY <1>4, <1>5 DEF AcceptBlock

(* The end of the loop announces what the only worker in a loop inserted.   *)
LEMMA BalancedEndLoop ==
  ASSUME GossipInv, MutexInv, NEW n \in Node, NEW w \in Worker, EndLoop(n, w)
  PROVE  Balanced(n)
<1> DEFINE h == worker[n][w].hash
<1>1. /\ worker[n][w].state = "popping"
      /\ \A v \in Worker : worker[n][v].state = "popping" => v = w
      /\ Broadcast(n, <<NewBlockHashes(h)>>) /\ Finish(n, w) /\ chain' = chain
  BY DEF EndLoop, MutexInv, storeVars
<1>2. h \in Hash
  BY <1>1, ChainFacts
    DEF GossipInv, WorkerInv, ConditionInv, StoreInv, ChainInv, HasBlock
<1>3. NewlyAnnounced(n) = {h}
  BY <1>1, <1>2, AnnouncedByBroadcast, OneAnnounced, Messages
<1>4. Unannounced(n) = {h}
  BY <1>1 DEF Unannounced
<1>5. \A v \in Worker : worker'[n][v].state # "popping"
  BY <1>1 DEF Finish, Idle, GossipInv, WorkerInv
<1>6. QED
  BY <1>1, <1>3, <1>4, <1>5 DEF Balanced, Unannounced

LEMMA BalancedMining ==
  ASSUME GossipInv, FreshInv, NEW n \in Node, InsertMined(n)
  PROVE  Balanced(n)
<1> DEFINE h == Head(finished[n]).hash
<1>1. /\ h \in Hash
      /\ DOMAIN chain'[n].blocks \ DOMAIN chain[n].blocks = {h}
  BY MinedBlock, PublishedByInsertion DEF GossipInv, Block
<1>2. /\ \A v \in Worker : worker[n][v].state # "popping"
      /\ worker' = worker /\ Broadcast(n, <<NewBlockHashes(h)>>)
  BY DEF InsertMined, ChainIsFree
<1>3. NewlyAnnounced(n) = {h}
  BY <1>1, <1>2, AnnouncedByBroadcast, OneAnnounced, Messages
<1>4. QED
  BY <1>1, <1>2, <1>3 DEF Balanced, Unannounced

(* A turn of the loop announces nothing: an orphan is sent as a block.      *)
LEMMA BalancedLoop ==
  ASSUME GossipInv, NEW n \in Node, NEW w \in Worker,
         PopOrphan(n, w) \/ PassOrphan(n, w)
  PROVE  Balanced(n)
<1> DEFINE c == worker[n][w]
<1>1. c.state = "popping" /\ chain' = chain /\ WorkerInv
  BY DEF GossipInv, PopOrphan, PassOrphan, InLoop, storeVars
<1>2. PICK at, removed : worker' = [worker EXCEPT ![n][w] =
                                     Popping(c.hash, at, c.last, removed)]
  BY <1>1 DEF PopOrphan, PassOrphan, WorkerInv
<1>3. \A v \in Worker :
        \/ worker'[n][v] = worker[n][v]
        \/ v = w /\ worker'[n][v].state = "popping" /\ worker'[n][v].hash = c.hash
  BY <1>1, <1>2 DEF Popping, WorkerInv
<1>4. Unannounced(n)' = Unannounced(n)
  BY <1>1, <1>3 DEF Unannounced
<1>5. NewlyAnnounced(n) = {}
  <2>1. CASE PopOrphan(n, w)
    <3> DEFINE i == OrphanIndex(n, w)
               orphan == orphans[n][w][i]
    <3>1. i \in 1 .. Len(orphans[n][w]) /\ orphans[n][w] \in Seq(PublishedBlock(chain))
      <4>1. i \in Nat /\ i >= 1
        BY <1>1 DEF ConditionInv, OrphanIndex, WorkerInv
      <4>2. QED
        BY <2>1, <4>1, LenProperties DEF PopOrphan, GossipInv, OrphanInv
    <3>2. orphan \in Block
      BY <3>1, ElementOfSeq DEF PublishedBlock
    <3>3. Broadcast(n, <<Blocks(orphan)>>)
      BY <2>1 DEF PopOrphan
    <3>4. QED
      BY <3>2, <3>3, AnnouncedByBroadcast, OneAnnounced, Messages
  <2>2. CASE PassOrphan(n, w)
    BY <2>2, NothingAnnounced DEF PassOrphan
  <2>3. QED
    BY <2>1, <2>2
<1>6. QED
  BY <1>1, <1>4, <1>5 DEF Balanced

LEMMA BalancedHandle ==
  ASSUME GossipInv, MutexInv, NEW n \in Node, NEW w \in Worker, Handle(n, w),
         poisoned'[n] = poisoned[n]
  PROVE  Balanced(n)
<1>1. Idle.state # "popping" /\ Dead.state # "popping"
  BY DEF Idle, Dead
<1>2. CASE HandleNewBlockHashes(n, w) \/ HandleGetBlocks(n, w) \/ IgnoreBlock(n, w)
  <2>1. NewlyAnnounced(n) = {}
    BY <1>2, NothingAnnounced DEF HandleNewBlockHashes, HandleGetBlocks, IgnoreBlock
  <2>2. QED
    BY <1>1, <1>2, <2>1, BalancedHandling
      DEF HandleNewBlockHashes, HandleGetBlocks, IgnoreBlock, Handles, WorksOn, Finish, storeVars
<1>3. CASE WorkerDies(n, w)
  <2>1. NewlyAnnounced(n) = {}
    BY <1>3, NothingAnnounced DEF WorkerDies
  <2>2. QED
    BY <1>1, <1>3, <2>1, BalancedHandling DEF WorkerDies, storeVars
<1>4. CASE KeepOrphan(n, w)
  <2> DEFINE parent == Parent[worker[n][w].msg.block.hash]
  <2>1. parent \in Hash \union {ZeroHash}
    BY <1>4, ReceivedIsPublished, HeaderAssumption
      DEF KeepOrphan, Handles, PublishedBlock, Block
  <2>2. Broadcast(n, <<GetBlocks(parent)>>)
    BY <1>4 DEF KeepOrphan
  <2>3. NewlyAnnounced(n) = {}
    <3>1. GetBlocks(parent) \in Message
      BY <2>1, Messages
    <3>2. NewlyAnnounced(n) = {h \in Hash : GetBlocks(parent) = NewBlockHashes(h)}
      BY <2>2, <3>1, AnnouncedByBroadcast
    <3>3. \A h \in Hash : GetBlocks(parent) # NewBlockHashes(h)
      BY OneAnnounced
    <3>4. QED
      BY <3>2, <3>3
  <2>4. worker[n][w].state # "popping"
    BY <1>4 DEF KeepOrphan, Handles, WorksOn
  <2>5. UNCHANGED chain /\ worker' = [worker EXCEPT ![n][w] = Idle]
    BY <1>4 DEF KeepOrphan, Finish, storeVars
  <2>6. QED
    BY <1>1, <2>3, <2>4, <2>5, BalancedHandling
<1>5. CASE LoopPanics(n, w)
  BY <1>5 DEF LoopPanics, InLoop, MutexInv
<1>6. QED
  BY <1>2, <1>3, <1>4, <1>5, BalancedAccepting, BalancedLoop, BalancedEndLoop DEF Handle

(* A step of n leaves what the other nodes keep alone.                      *)
LEMMA OneNodeSteps ==
  ASSUME GossipInv, NEW n \in Node, NEW k \in Node \ {n},
         \/ Dispatch(k) \/ ReadTip(k) \/ InsertMined(k)
         \/ \E w \in Worker, m \in Node : Take(k, w, m)
         \/ \E w \in Worker : Handle(k, w)
         \/ \E h \in Hash : FindBlock(k, h)
  PROVE  UNCHANGED <<chain[n], control[n], worker[n]>>
<1>1. DOMAIN chain = Node /\ DOMAIN control = Node /\ DOMAIN worker = Node
  BY DEF GossipInv, StoreInv, ControlInv, WorkerInv
<1>2. CASE Dispatch(k) \/ ReadTip(k) \/ InsertMined(k)
  BY <1>1, <1>2
    DEF Dispatch, Forward, ReadTip, InsertMined, Broadcast, storeVars, networkVars
<1>3. CASE \E w \in Worker, m \in Node : Take(k, w, m)
  BY <1>1, <1>3 DEF Take, Receive, storeVars
<1>4. CASE \E h \in Hash : FindBlock(k, h)
  BY <1>1, <1>4 DEF FindBlock, storeVars, networkVars
<1>5. ASSUME NEW w \in Worker, Handle(k, w)
      PROVE  UNCHANGED <<chain[n], control[n], worker[n]>>
  BY <1>1, <1>5
    DEF Handle, HandleNewBlockHashes, HandleGetBlocks, IgnoreBlock, KeepOrphan, AcceptBlock,
        PopOrphan, PassOrphan, LoopPanics, EndLoop, WorkerDies, Finish, Broadcast, storeVars
<1>6. QED
  BY <1>2, <1>3, <1>4, <1>5

LEMMA BalancedStep ==
  ASSUME GossipInv, MutexInv, FreshInv, Next, NEW n \in Node, poisoned'[n] = poisoned[n]
  PROVE  Balanced(n)
<1>1. CASE \/ Dispatch(n) \/ ReadTip(n) \/ \E h \in Hash : FindBlock(n, h)
  BY <1>1, BalancedAtRest
    DEF Dispatch, Forward, ReadTip, FindBlock, storeVars, networkVars, GossipInv, ControlInv
<1>2. ASSUME NEW w \in Worker, NEW m \in Node, Take(n, w, m)
      PROVE  Balanced(n)
  <2>1. NewlyAnnounced(n) = {}
    BY <1>2, NothingAnnounced DEF Take, Receive
  <2>2. worker[n][w].state # "popping" /\ Busy(m, Head(link[m][n])).state # "popping"
    BY <1>2 DEF Take, Receive, Idle, Busy
  <2>3. QED
    BY <1>2, <2>1, <2>2, BalancedHandling DEF Take, Receive, storeVars
<1>3. PICK k \in Node :
        \/ Dispatch(k) \/ ReadTip(k) \/ InsertMined(k)
        \/ \E w \in Worker, m \in Node : Take(k, w, m)
        \/ \E w \in Worker : Handle(k, w)
        \/ \E h \in Hash : FindBlock(k, h)
  BY DEF Next
<1>4. CASE k # n
  BY <1>3, <1>4, OneNodeSteps, BalancedElsewhere
<1>5. CASE k = n
  BY <1>1, <1>2, <1>3, <1>5, BalancedHandle, BalancedMining
<1>6. QED
  BY <1>4, <1>5

(* A node announces exactly the blocks that it inserts, each when the       *)
(* critical section ends that inserted it, unless a worker panics           *)
(* (insert and broadcast in worker_loop of src/network/worker.rs and of     *)
(* src/miner/worker.rs).                                                    *)
THEOREM GossipAnnouncedWhenInserted == Spec => AnnouncedWhenInserted
<1> DEFINE Announced == \A n \in Node :
      poisoned'[n] = poisoned[n] =>
        Unannounced(n) \union (DOMAIN chain'[n].blocks \ DOMAIN chain[n].blocks) =
          NewlyAnnounced(n) \union Unannounced(n)'
<1>1. GossipInv /\ (MutexInv /\ FreshInv) /\ [Next]_vars => [Announced]_vars
  BY BalancedStep DEF Balanced
<1>2. QED
  BY <1>1, GossipInvariant, GossipMutexAndFresh, PTL DEF Spec, AnnouncedWhenInserted

--------------------------------------------------------------------------------
(* The order in which blocks travel.                                        *)
(*                                                                         *)
(* Between two nodes with one network worker each, a block passes through   *)
(* the same stages in the same order: it waits in n's queue of broadcasts,  *)
(* is announced on the link, is looked up by m's worker, asked for on the   *)
(* link back, looked up by n's worker, delivered on the link, and handled   *)
(* by m's worker.  Each stage is first-in first-out, so a block never       *)
(* overtakes its parent: at every stage the parent is ahead, or stored.     *)

(* The block that a message is about.                                       *)
Subject(msg) == IF msg.type = "Blocks" THEN msg.block.hash ELSE msg.hash

About(msg, type) == IF msg.type = type THEN {Subject(msg)} ELSE {}

(* The blocks that the messages of one type in a queue are about.           *)
Queued(q, type) == {Subject(q[i]) : i \in {j \in DOMAIN q : q[j].type = type}}

(* The block that a worker in condition c works on, if it works on a        *)
(* message of this type from this peer; what all workers of a node work on. *)
Works(c, from, type) ==
  IF c.state = "busy" /\ c.from = from THEN About(c.msg, type) ELSE {}
Working(conditions, from, type) == UNION {Works(conditions[w], from, type) : w \in Worker}

Stored(n) == DOMAIN chain[n].blocks

Ready(h, stored, ahead) == h \in stored \/ Parent[h] \in ahead

InOrder(q, type, stored, ahead) ==
  \A i \in DOMAIN q : q[i].type = type =>
    \/ Ready(Subject(q[i]), stored, ahead)
    \/ \E j \in DOMAIN q : j < i /\ q[j].type = type /\ Subject(q[j]) = Parent[Subject(q[i])]

(* What has come from n to m so far, stage by stage from the last one.      *)
Delivered(n, m) == Stored(m) \union Working(worker[m], n, "Blocks")
Answered(n, m)  == Delivered(n, m) \union Queued(link[n][m], "Blocks")
Served(n, m)    == Answered(n, m) \union Working(worker[n], m, "GetBlocks")
Asked(n, m)     == Served(n, m) \union Queued(link[m][n], "GetBlocks")
Heard(n, m)     == Asked(n, m) \union Working(worker[m], n, "NewBlockHashes")
Told(n, m)      == Heard(n, m) \union Queued(link[n][m], "NewBlockHashes")
Due(n, m)       == Told(n, m) \union Queued(control[n], "NewBlockHashes")

PairInv(n, m) ==
  /\ \A h \in Working(worker[m], n, "Blocks") : Ready(h, Stored(m), Stored(m))
  /\ InOrder(link[n][m], "Blocks", Stored(m), Delivered(n, m))
  /\ \A h \in Working(worker[n], m, "GetBlocks") : Ready(h, Stored(m), Answered(n, m))
  /\ Working(worker[n], m, "GetBlocks") \subseteq Stored(n)
  /\ InOrder(link[m][n], "GetBlocks", Stored(m), Served(n, m))
  /\ Queued(link[m][n], "GetBlocks") \subseteq Stored(n)
  /\ \A h \in Working(worker[m], n, "NewBlockHashes") : Ready(h, Stored(m), Asked(n, m))
  /\ InOrder(link[n][m], "NewBlockHashes", Stored(m), Heard(n, m))
  /\ InOrder(control[n], "NewBlockHashes", Stored(m), Told(n, m))
  /\ Stored(n) \subseteq Due(n, m)

(* Nobody has an orphan, so nobody loops over them or asks all for one; and *)
(* messages come from peers.                                                *)
CalmInv ==
  /\ \A n \in Node : ~poisoned[n]
  /\ \A n \in Node, w \in Worker :
       orphans[n][w] = << >> /\ worker[n][w].state \in {"idle", "busy"}
  /\ \A n \in Node : \A i \in DOMAIN control[n] : control[n][i].type = "NewBlockHashes"
  /\ \A n \in Node : \A m \in Node \ Peers[n] :
       /\ link[n][m] = << >>
       /\ \A w \in Worker : worker[m][w].state = "busy" => worker[m][w].from # n

PipelineInv == CalmInv /\ \A n \in Node : \A m \in Peers[n] : PairInv(n, m)

(* Nodes that all start anew, have one network worker each, and mine only   *)
(* blocks that pass the checks.  main() of src/main.rs starts every node    *)
(* with the genesis block and with as many workers as --p2p-workers says;   *)
(* what a miner finds passes the checks of its peers where the difficulty   *)
(* it mines with is that of the parent.                                     *)
SingleWorker == \A v \in Worker, w \in Worker : v = w
AllStartAnew == \A n \in Node : Start[n] = NewChain
AllPassChecks ==
  /\ SignedTx = Tx
  /\ \A h \in Hash : Parent[h] \in Hash => HashValue[h] <= Difficulty[Parent[h]]

(* A message is put into a queue, or taken out of it; a worker's condition  *)
(* becomes c.                                                               *)
PutIn(q, e, next) == (\E S : q \in Seq(S)) /\ next = Append(q, e)
TakenOut(q, e, next) ==
  (\E S : q \in Seq(S)) /\ q # << >> /\ e = Head(q) /\ next = Tail(q)
Turns(k, w, c) == worker' = [worker EXCEPT ![k][w] = c]

(* A queue in which every block follows its parent, after a message has     *)
(* been put in or taken out.                                                *)
LEMMA OrderLoosens ==
  ASSUME NEW q, NEW type, NEW stored, NEW ahead, InOrder(q, type, stored, ahead),
         NEW stored2, stored \subseteq stored2, NEW ahead2, ahead \subseteq ahead2
  PROVE  InOrder(q, type, stored2, ahead2)
  BY DEF InOrder, Ready

AddedAt(last, q, e, next) ==
  /\ DOMAIN next = DOMAIN q \union {last}
  /\ \A k \in DOMAIN q : next[k] = q[k] /\ k < last
  /\ next[last] = e

LEMMA AfterSend ==
  ASSUME NEW q, NEW e, NEW next, PutIn(q, e, next)
  PROVE  \E last : AddedAt(last, q, e, next)
<1> PICK S : q \in Seq(S)
  BY DEF PutIn
<1>1. q \in Seq(S \union {e}) /\ e \in S \union {e}
  BY SeqMonotonic
<1>2. /\ DOMAIN q = 1 .. Len(q) /\ Len(q) \in Nat
      /\ DOMAIN next = 1 .. (Len(q) + 1)
      /\ \A k \in DOMAIN q : next[k] = q[k]
      /\ next[Len(q) + 1] = e
  BY <1>1, Sent DEF PutIn
<1>3. AddedAt(Len(q) + 1, q, e, next)
  BY <1>2 DEF AddedAt
<1>4. QED
  BY <1>3

LEMMA QueueAfterSend ==
  ASSUME NEW q, NEW e, NEW next, PutIn(q, e, next), NEW type
  PROVE  Queued(next, type) = Queued(q, type) \union About(e, type)
<1> PICK last : AddedAt(last, q, e, next)
  BY AfterSend
<1>1. /\ DOMAIN next = DOMAIN q \union {last}
      /\ \A k \in DOMAIN q : next[k] = q[k] /\ k < last
      /\ next[last] = e
  BY DEF AddedAt
<1>2. Queued(next, type) \subseteq Queued(q, type) \union About(e, type)
  BY <1>1 DEF Queued, About
<1>3. Queued(q, type) \subseteq Queued(next, type)
  BY <1>1 DEF Queued
<1>4. About(e, type) \subseteq Queued(next, type)
  BY <1>1 DEF Queued, About
<1>5. QED
  BY <1>2, <1>3, <1>4

LEMMA SendInOrder ==
  ASSUME NEW q, NEW e, NEW next, PutIn(q, e, next),
         NEW type, NEW stored, NEW ahead, InOrder(q, type, stored, ahead),
         \A h \in About(e, type) : Ready(h, stored, ahead \union Queued(q, type))
  PROVE  InOrder(next, type, stored, ahead)
<1> PICK last : AddedAt(last, q, e, next)
  BY AfterSend
<1>1. /\ DOMAIN next = DOMAIN q \union {last}
      /\ \A k \in DOMAIN q : next[k] = q[k] /\ k < last
      /\ next[last] = e
  BY DEF AddedAt
<1>2. SUFFICES ASSUME NEW i \in DOMAIN next, next[i].type = type,
                      ~Ready(Subject(next[i]), stored, ahead)
               PROVE  \E j \in DOMAIN next : /\ j < i /\ next[j].type = type
                                             /\ Subject(next[j]) = Parent[Subject(next[i])]
  BY DEF InOrder
<1>3. CASE i \in DOMAIN q
  <2>1. PICK j \in DOMAIN q : /\ j < i /\ q[j].type = type
                              /\ Subject(q[j]) = Parent[Subject(q[i])]
    BY <1>1, <1>2, <1>3 DEF InOrder
  <2>2. QED
    BY <1>1, <1>3, <2>1
<1>4. CASE i = last
  <2>1. Ready(Subject(e), stored, ahead \union Queued(q, type))
    BY <1>1, <1>2, <1>4 DEF About
  <2>2. Parent[Subject(e)] \in Queued(q, type)
    BY <1>1, <1>2, <1>4, <2>1 DEF Ready
  <2>3. PICK j \in DOMAIN q : q[j].type = type /\ Subject(q[j]) = Parent[Subject(e)]
    BY <2>2 DEF Queued
  <2>4. QED
    BY <1>1, <1>4, <2>3
<1>5. QED
  BY <1>1, <1>3, <1>4

LEMMA AfterTake ==
  ASSUME NEW q, NEW e, NEW next, TakenOut(q, e, next)
  PROVE  /\ 1 \in DOMAIN q /\ q[1] = e
         /\ \A k \in DOMAIN q : k \in Nat /\ k >= 1
         /\ \A k \in DOMAIN next : k \in Nat /\ k + 1 \in DOMAIN q /\ next[k] = q[k + 1]
         /\ \A k \in DOMAIN q : k = 1 \/ (k - 1 \in DOMAIN next /\ q[k] = next[k - 1])
<1> PICK S : q \in Seq(S)
  BY DEF TakenOut
<1>1. /\ next \in Seq(S) /\ Len(next) = Len(q) - 1
      /\ \A k \in 1 .. Len(next) : next[k] = q[k + 1]
  BY HeadTailProperties DEF TakenOut
<1>2. DOMAIN next = 1 .. Len(next) /\ Len(q) \in Nat /\ DOMAIN q = 1 .. Len(q)
  BY <1>1, LenProperties
<1>3. 1 \in DOMAIN q /\ q[1] = e
  BY Taken DEF TakenOut
<1>4. QED
  BY <1>1, <1>2, <1>3

LEMMA QueueAfterTake ==
  ASSUME NEW q, NEW e, NEW next, TakenOut(q, e, next), NEW type
  PROVE  Queued(q, type) = Queued(next, type) \union About(e, type)
<1>1. /\ 1 \in DOMAIN q /\ q[1] = e
      /\ \A k \in DOMAIN next : k + 1 \in DOMAIN q /\ next[k] = q[k + 1]
      /\ \A k \in DOMAIN q : k = 1 \/ (k - 1 \in DOMAIN next /\ q[k] = next[k - 1])
  BY AfterTake
<1>2. Queued(next, type) \subseteq Queued(q, type)
  BY <1>1 DEF Queued
<1>3. About(e, type) \subseteq Queued(q, type)
  BY <1>1 DEF Queued, About
<1>4. ASSUME NEW h \in Queued(q, type)
      PROVE  h \in Queued(next, type) \union About(e, type)
  <2>1. PICK k \in DOMAIN q : q[k].type = type /\ h = Subject(q[k])
    BY <1>4 DEF Queued
  <2>2. CASE k = 1
    BY <1>1, <2>1, <2>2 DEF About
  <2>3. CASE k - 1 \in DOMAIN next /\ q[k] = next[k - 1]
    BY <2>1, <2>3 DEF Queued
  <2>4. QED
    BY <1>1, <2>2, <2>3
<1>5. QED
  BY <1>2, <1>3, <1>4

LEMMA TakeInOrder ==
  ASSUME NEW q, NEW e, NEW next, TakenOut(q, e, next),
         NEW type, NEW stored, NEW ahead, InOrder(q, type, stored, ahead)
  PROVE  /\ \A h \in About(e, type) : Ready(h, stored, ahead)
         /\ InOrder(next, type, stored, ahead \union About(e, type))
<1>1. /\ 1 \in DOMAIN q /\ q[1] = e
      /\ \A k \in DOMAIN q : k \in Nat /\ k >= 1
      /\ \A k \in DOMAIN next : k \in Nat /\ k + 1 \in DOMAIN q /\ next[k] = q[k + 1]
      /\ \A k \in DOMAIN q : k = 1 \/ (k - 1 \in DOMAIN next /\ q[k] = next[k - 1])
  BY AfterTake
<1>2. \A h \in About(e, type) : Ready(h, stored, ahead)
  <2>1. \A j \in DOMAIN q : ~(j < 1)
    BY <1>1
  <2>2. QED
    BY <1>1, <2>1 DEF InOrder, About
<1>3. SUFFICES ASSUME NEW i \in DOMAIN next, next[i].type = type,
                      ~Ready(Subject(next[i]), stored, ahead \union About(e, type))
               PROVE  \E j \in DOMAIN next : /\ j < i /\ next[j].type = type
                                             /\ Subject(next[j]) = Parent[Subject(next[i])]
  BY <1>2 DEF InOrder
<1>4. i + 1 \in DOMAIN q /\ q[i + 1] = next[i] /\ i \in Nat
  BY <1>1
<1>5. ~Ready(Subject(q[i + 1]), stored, ahead)
  BY <1>3, <1>4 DEF Ready
<1>6. PICK j \in DOMAIN q : /\ j < i + 1 /\ q[j].type = type
                            /\ Subject(q[j]) = Parent[Subject(next[i])]
  BY <1>3, <1>4, <1>5 DEF InOrder
<1>7. j # 1
  BY <1>1, <1>3, <1>6 DEF Ready, About
<1>8. j - 1 \in DOMAIN next /\ q[j] = next[j - 1] /\ j - 1 < i
  BY <1>1, <1>4, <1>6, <1>7
<1>9. QED
  BY <1>6, <1>8

(* A single worker's work is the work of all workers.                       *)
LEMMA WorkOfOne ==
  ASSUME SingleWorker, NEW w \in Worker, NEW conditions, NEW from, NEW type
  PROVE  Working(conditions, from, type) = Works(conditions[w], from, type)
<1>1. Worker = {w}
  BY DEF SingleWorker
<1>2. QED
  BY <1>1 DEF Working

LEMMA WorkAfter ==
  ASSUME SingleWorker, GossipInv, NEW k \in Node, NEW w \in Worker, NEW c,
         Turns(k, w, c), NEW from, NEW type
  PROVE  /\ Working(worker'[k], from, type) = Works(c, from, type)
         /\ Working(worker[k], from, type) = Works(worker[k][w], from, type)
         /\ \A j \in Node \ {k} : worker'[j] = worker[j]
<1>1. worker'[k][w] = c /\ \A j \in Node \ {k} : worker'[j] = worker[j]
  BY DEF GossipInv, WorkerInv, Turns
<1>2. Working(worker'[k], from, type) = Works(worker'[k][w], from, type)
  BY WorkOfOne
<1>3. Working(worker[k], from, type) = Works(worker[k][w], from, type)
  BY WorkOfOne
<1>4. QED
  BY <1>1, <1>2, <1>3

(* A worker that takes a message works on it, and on nothing before; one    *)
(* that has finished works on nothing any more.                             *)
LEMMA WorkTaken ==
  ASSUME SingleWorker, GossipInv, NEW k \in Node, NEW w \in Worker, NEW from, NEW msg,
         worker[k][w] = Idle, Turns(k, w, Busy(from, msg)),
         NEW other, NEW type
  PROVE  /\ Working(worker[k], other, type) = {}
         /\ other = from => Working(worker'[k], other, type) = About(msg, type)
         /\ other # from => Working(worker'[k], other, type) = {}
         /\ \A j \in Node \ {k} : worker'[j] = worker[j]
<1>1. /\ Works(Idle, other, type) = {}
      /\ other = from => Works(Busy(from, msg), other, type) = About(msg, type)
      /\ other # from => Works(Busy(from, msg), other, type) = {}
  BY DEF Works, Idle, Busy
<1>2. /\ Working(worker'[k], other, type) = Works(Busy(from, msg), other, type)
      /\ Working(worker[k], other, type) = Works(worker[k][w], other, type)
      /\ \A j \in Node \ {k} : worker'[j] = worker[j]
  BY WorkAfter
<1>3. QED
  BY <1>1, <1>2

LEMMA WorkFinished ==
  ASSUME SingleWorker, GossipInv, NEW k \in Node, NEW w \in Worker,
         worker[k][w].state = "busy", Finish(k, w),
         NEW other, NEW type
  PROVE  /\ Working(worker'[k], other, type) = {}
         /\ other = worker[k][w].from =>
              Working(worker[k], other, type) = About(worker[k][w].msg, type)
         /\ other # worker[k][w].from => Working(worker[k], other, type) = {}
         /\ \A j \in Node \ {k} : worker'[j] = worker[j]
<1>1. Works(Idle, other, type) = {}
  BY DEF Works, Idle
<1>2. Turns(k, w, Idle)
  BY DEF Finish, Turns
<1>3. /\ Working(worker'[k], other, type) = Works(Idle, other, type)
      /\ Working(worker[k], other, type) = Works(worker[k][w], other, type)
      /\ \A j \in Node \ {k} : worker'[j] = worker[j]
  BY <1>2, WorkAfter
<1>4. QED
  BY <1>1, <1>3 DEF Works

(* A block that leaves a stage goes to the next one, or is stored.          *)
Advance(n, m) ==
  /\ Stored(n) \subseteq Stored(n)'
  /\ Stored(m) \subseteq Stored(m)'
  /\ Working(worker[m], n, "Blocks") \subseteq Delivered(n, m)'
  /\ Queued(link[n][m], "Blocks") \subseteq Answered(n, m)'
  /\ Working(worker[n], m, "GetBlocks") \subseteq Served(n, m)'
  /\ Queued(link[m][n], "GetBlocks") \subseteq Asked(n, m)'
  /\ Working(worker[m], n, "NewBlockHashes") \subseteq Heard(n, m)'
  /\ Queued(link[n][m], "NewBlockHashes") \subseteq Told(n, m)'
  /\ Queued(control[n], "NewBlockHashes") \subseteq Due(n, m)'

LEMMA StagesGrow ==
  ASSUME NEW n, NEW m, Advance(n, m)
  PROVE  /\ Delivered(n, m) \subseteq Delivered(n, m)'
         /\ Answered(n, m) \subseteq Answered(n, m)'
         /\ Served(n, m) \subseteq Served(n, m)'
         /\ Asked(n, m) \subseteq Asked(n, m)'
         /\ Heard(n, m) \subseteq Heard(n, m)'
         /\ Told(n, m) \subseteq Told(n, m)'
         /\ Due(n, m) \subseteq Due(n, m)'
<1>1. /\ Stored(m)' \subseteq Delivered(n, m)' /\ Delivered(n, m)' \subseteq Answered(n, m)'
      /\ Answered(n, m)' \subseteq Served(n, m)' /\ Served(n, m)' \subseteq Asked(n, m)'
      /\ Asked(n, m)' \subseteq Heard(n, m)' /\ Heard(n, m)' \subseteq Told(n, m)'
      /\ Told(n, m)' \subseteq Due(n, m)'
  BY DEF Delivered, Answered, Served, Asked, Heard, Told, Due
<1>2. Delivered(n, m) \subseteq Delivered(n, m)'
  BY <1>1 DEF Advance, Delivered
<1>3. Answered(n, m) \subseteq Answered(n, m)'
  BY <1>1, <1>2 DEF Advance, Answered
<1>4. Served(n, m) \subseteq Served(n, m)'
  BY <1>1, <1>3 DEF Advance, Served
<1>5. Asked(n, m) \subseteq Asked(n, m)'
  BY <1>1, <1>4 DEF Advance, Asked
<1>6. Heard(n, m) \subseteq Heard(n, m)'
  BY <1>1, <1>5 DEF Advance, Heard
<1>7. Told(n, m) \subseteq Told(n, m)'
  BY <1>1, <1>6 DEF Advance, Told
<1>8. Due(n, m) \subseteq Due(n, m)'
  BY <1>1, <1>7 DEF Advance, Due
<1>9. QED
  BY <1>2, <1>3, <1>4, <1>5, <1>6, <1>7, <1>8

(* At every stage, what was there before is in order, what is new has its   *)
(* parent ahead, and a new block of n is on its way.                        *)
Orderly(n, m) ==
  /\ \A h \in Working(worker'[m], n, "Blocks") \ Working(worker[m], n, "Blocks") :
       Ready(h, Stored(m)', Stored(m)')
  /\ \/ link'[n][m] = link[n][m]
     \/ /\ InOrder(link'[n][m], "Blocks", Stored(m)', Delivered(n, m)')
        /\ InOrder(link'[n][m], "NewBlockHashes", Stored(m)', Heard(n, m)')
  /\ \A h \in Working(worker'[n], m, "GetBlocks") \ Working(worker[n], m, "GetBlocks") :
       Ready(h, Stored(m)', Answered(n, m)') /\ h \in Stored(n)'
  /\ \/ link'[m][n] = link[m][n]
     \/ /\ InOrder(link'[m][n], "GetBlocks", Stored(m)', Served(n, m)')
        /\ Queued(link'[m][n], "GetBlocks") \subseteq Stored(n)'
  /\ \A h \in Working(worker'[m], n, "NewBlockHashes") \ Working(worker[m], n, "NewBlockHashes") :
       Ready(h, Stored(m)', Asked(n, m)')
  /\ \/ control'[n] = control[n]
     \/ InOrder(control'[n], "NewBlockHashes", Stored(m)', Told(n, m)')
  /\ Stored(n)' \ Stored(n) \subseteq Due(n, m)'

LEMMA PairKept ==
  ASSUME NEW n, NEW m, PairInv(n, m), Advance(n, m), Orderly(n, m)
  PROVE  PairInv(n, m)'
<1>1. /\ Delivered(n, m) \subseteq Delivered(n, m)'
      /\ Answered(n, m) \subseteq Answered(n, m)'
      /\ Served(n, m) \subseteq Served(n, m)'
      /\ Asked(n, m) \subseteq Asked(n, m)'
      /\ Heard(n, m) \subseteq Heard(n, m)'
      /\ Told(n, m) \subseteq Told(n, m)'
      /\ Due(n, m) \subseteq Due(n, m)'
  BY StagesGrow
<1>2. Stored(m) \subseteq Stored(m)' /\ Stored(n) \subseteq Stored(n)'
  BY DEF Advance
<1>3. \A h \in Working(worker'[m], n, "Blocks") : Ready(h, Stored(m)', Stored(m)')
  BY <1>2 DEF PairInv, Orderly, Ready
<1>4. /\ \A h \in Working(worker'[n], m, "GetBlocks") : Ready(h, Stored(m)', Answered(n, m)')
      /\ Working(worker'[n], m, "GetBlocks") \subseteq Stored(n)'
  BY <1>1, <1>2 DEF PairInv, Orderly, Ready
<1>5. \A h \in Working(worker'[m], n, "NewBlockHashes") : Ready(h, Stored(m)', Asked(n, m)')
  BY <1>1, <1>2 DEF PairInv, Orderly, Ready
<1>6. /\ InOrder(link'[n][m], "Blocks", Stored(m)', Delivered(n, m)')
      /\ InOrder(link'[n][m], "NewBlockHashes", Stored(m)', Heard(n, m)')
  <2>1. CASE link'[n][m] = link[n][m]
    BY <1>1, <1>2, <2>1, OrderLoosens DEF PairInv
  <2>2. CASE link'[n][m] # link[n][m]
    BY <2>2 DEF Orderly
  <2>3. QED
    BY <2>1, <2>2
<1>7. /\ InOrder(link'[m][n], "GetBlocks", Stored(m)', Served(n, m)')
      /\ Queued(link'[m][n], "GetBlocks") \subseteq Stored(n)'
  <2>1. CASE link'[m][n] = link[m][n]
    BY <1>1, <1>2, <2>1, OrderLoosens DEF PairInv
  <2>2. CASE link'[m][n] # link[m][n]
    BY <2>2 DEF Orderly
  <2>3. QED
    BY <2>1, <2>2
<1>8. InOrder(control'[n], "NewBlockHashes", Stored(m)', Told(n, m)')
  <2>1. CASE control'[n] = control[n]
    BY <1>1, <1>2, <2>1, OrderLoosens DEF PairInv
  <2>2. CASE control'[n] # control[n]
    BY <2>2 DEF Orderly
  <2>3. QED
    BY <2>1, <2>2
<1>9. Stored(n)' \subseteq Due(n, m)'
  BY <1>1 DEF PairInv, Orderly
<1>10. QED
  BY <1>3, <1>4, <1>5, <1>6, <1>7, <1>8, <1>9 DEF PairInv

(* The stages of n towards m after a step, from the stages themselves.      *)
LEMMA StagesAfter ==
  ASSUME NEW n, NEW m
  PROVE  /\ Delivered(n, m)' = Stored(m)' \union Working(worker'[m], n, "Blocks")
         /\ Answered(n, m)' = Delivered(n, m)' \union Queued(link'[n][m], "Blocks")
         /\ Served(n, m)' = Answered(n, m)' \union Working(worker'[n], m, "GetBlocks")
         /\ Asked(n, m)' = Served(n, m)' \union Queued(link'[m][n], "GetBlocks")
         /\ Heard(n, m)' = Asked(n, m)' \union Working(worker'[m], n, "NewBlockHashes")
         /\ Told(n, m)' = Heard(n, m)' \union Queued(link'[n][m], "NewBlockHashes")
         /\ Due(n, m)' = Told(n, m)' \union Queued(control'[n], "NewBlockHashes")
  BY DEF Delivered, Answered, Served, Asked, Heard, Told, Due

(* Steps that put nothing new on the way from n to m and lose nothing.      *)
LEMMA SendAside ==
  ASSUME NEW q, \E S : q \in Seq(S), NEW next, NEW type, NEW stored, NEW ahead,
         \/ next = q
         \/ \E e : next = Append(q, e) /\ e.type # type,
         InOrder(q, type, stored, ahead)
  PROVE  /\ Queued(next, type) = Queued(q, type)
         /\ InOrder(next, type, stored, ahead)
<1>1. CASE next = q
  BY <1>1
<1>2. ASSUME NEW e, next = Append(q, e), e.type # type
      PROVE  /\ Queued(next, type) = Queued(q, type)
             /\ InOrder(next, type, stored, ahead)
  <2>1. About(e, type) = {} /\ PutIn(q, e, next)
    BY <1>2 DEF About, PutIn
  <2>2. \A t : Queued(next, t) = Queued(q, t) \union About(e, t)
    BY <2>1, QueueAfterSend
  <2>3. InOrder(next, type, stored, ahead)
    BY <2>1, SendInOrder
  <2>4. QED
    BY <2>1, <2>2, <2>3
<1>3. QED
  BY <1>1, <1>2

LEMMA PairQuiet ==
  ASSUME GossipInv, NEW n \in Node, NEW m \in Node, PairInv(n, m),
         control'[n] = control[n],
         Stored(n)' = Stored(n), Stored(m) \subseteq Stored(m)',
         \/ link'[n][m] = link[n][m]
         \/ \E e : /\ link'[n][m] = Append(link[n][m], e)
                   /\ e.type \notin {"Blocks", "NewBlockHashes"},
         \/ link'[m][n] = link[m][n]
         \/ \E e : link'[m][n] = Append(link[m][n], e) /\ e.type # "GetBlocks",
         \A type \in {"Blocks", "NewBlockHashes"} :
           /\ Working(worker'[m], n, type) \subseteq Working(worker[m], n, type)
           /\ Working(worker[m], n, type) \subseteq
                Working(worker'[m], n, type) \union Stored(m)',
         Working(worker'[n], m, "GetBlocks") = Working(worker[n], m, "GetBlocks")
  PROVE  PairInv(n, m)'
<1>1. link[n][m] \in Seq(Sendable(chain, n)) /\ link[m][n] \in Seq(Sendable(chain, m))
  BY DEF GossipInv, LinkInv
<1>2. /\ InOrder(link[n][m], "Blocks", Stored(m), Delivered(n, m))
      /\ InOrder(link[n][m], "NewBlockHashes", Stored(m), Heard(n, m))
      /\ InOrder(link[m][n], "GetBlocks", Stored(m), Served(n, m))
      /\ Queued(link[m][n], "GetBlocks") \subseteq Stored(n)
  BY DEF PairInv
<1>3. /\ Queued(link'[n][m], "Blocks") = Queued(link[n][m], "Blocks")
      /\ InOrder(link'[n][m], "Blocks", Stored(m), Delivered(n, m))
  BY <1>1, <1>2, SendAside
<1>4. /\ Queued(link'[n][m], "NewBlockHashes") = Queued(link[n][m], "NewBlockHashes")
      /\ InOrder(link'[n][m], "NewBlockHashes", Stored(m), Heard(n, m))
  BY <1>1, <1>2, SendAside
<1>5. /\ Queued(link'[m][n], "GetBlocks") = Queued(link[m][n], "GetBlocks")
      /\ InOrder(link'[m][n], "GetBlocks", Stored(m), Served(n, m))
  BY <1>1, <1>2, SendAside
<1>6. Advance(n, m)
  BY <1>3, <1>4, <1>5, StagesAfter DEF Advance
<1>7. /\ Delivered(n, m) \subseteq Delivered(n, m)'
      /\ Served(n, m) \subseteq Served(n, m)'
      /\ Heard(n, m) \subseteq Heard(n, m)'
  BY <1>6, StagesGrow
<1>8. /\ InOrder(link'[n][m], "Blocks", Stored(m)', Delivered(n, m)')
      /\ InOrder(link'[n][m], "NewBlockHashes", Stored(m)', Heard(n, m)')
  BY <1>3, <1>4, <1>7, OrderLoosens
<1>9. /\ InOrder(link'[m][n], "GetBlocks", Stored(m)', Served(n, m)')
      /\ Queued(link'[m][n], "GetBlocks") \subseteq Stored(n)'
  BY <1>2, <1>5, <1>7, OrderLoosens
<1>10. Orderly(n, m)
  BY <1>8, <1>9 DEF Orderly
<1>11. QED
  BY <1>6, <1>10, PairKept

(* n's server moves an announcement from its queue to the link.             *)
LEMMA PairDispatchFrom ==
  ASSUME GossipInv, NEW n \in Node, NEW m \in Peers[n], m \in Node, m # n,
         PairInv(n, m), Dispatch(n), Head(control[n]).type = "NewBlockHashes"
  PROVE  PairInv(n, m)'
<1>1. PICK head : head = Head(control[n])
  OBVIOUS
<1>2. /\ control[n] \in Seq(Sendable(chain, n)) /\ control[n] # << >>
      /\ TakenOut(control[n], head, control'[n])
      /\ link[n][m] \in Seq(Sendable(chain, n))
      /\ link'[n][m] = Append(link[n][m], head)
      /\ PutIn(link[n][m], head, link'[n][m])
      /\ link'[m][n] = link[m][n]
      /\ UNCHANGED <<worker, chain>>
  BY <1>1 DEF PutIn, TakenOut, Dispatch, Forward, GossipInv, ControlInv, LinkInv, storeVars
<1>3. Stored(n)' = Stored(n) /\ Stored(m)' = Stored(m)
  BY <1>2 DEF Stored
<1>4. /\ About(head, "NewBlockHashes") = {Subject(head)}
      /\ head.type # "Blocks"
  BY <1>1 DEF About
<1>5. /\ InOrder(control[n], "NewBlockHashes", Stored(m), Told(n, m))
      /\ InOrder(link[n][m], "NewBlockHashes", Stored(m), Heard(n, m))
      /\ InOrder(link[n][m], "Blocks", Stored(m), Delivered(n, m))
  BY DEF PairInv
<1>6. Queued(control[n], "NewBlockHashes") =
        Queued(control'[n], "NewBlockHashes") \union About(head, "NewBlockHashes")
  BY <1>1, <1>2, QueueAfterTake
<1>7. /\ \A h \in About(head, "NewBlockHashes") : Ready(h, Stored(m), Told(n, m))
      /\ InOrder(control'[n], "NewBlockHashes", Stored(m),
                 Told(n, m) \union About(head, "NewBlockHashes"))
  BY <1>1, <1>2, <1>5, TakeInOrder
<1>8. Queued(link'[n][m], "NewBlockHashes") =
        Queued(link[n][m], "NewBlockHashes") \union About(head, "NewBlockHashes")
  BY <1>2, QueueAfterSend
<1>9. InOrder(link'[n][m], "NewBlockHashes", Stored(m), Heard(n, m))
  <2>1. Told(n, m) = Heard(n, m) \union Queued(link[n][m], "NewBlockHashes")
    BY DEF Told
  <2>2. QED
    BY <1>2, <1>5, <1>7, <2>1, SendInOrder
<1>10. /\ Queued(link'[n][m], "Blocks") = Queued(link[n][m], "Blocks")
       /\ InOrder(link'[n][m], "Blocks", Stored(m), Delivered(n, m))
  BY <1>2, <1>4, <1>5, SendAside
<1>11. Advance(n, m)
  <2>1. /\ Working(worker[m], n, "Blocks") \subseteq Delivered(n, m)'
        /\ Queued(link[n][m], "Blocks") \subseteq Answered(n, m)'
        /\ Working(worker[n], m, "GetBlocks") \subseteq Served(n, m)'
        /\ Queued(link[m][n], "GetBlocks") \subseteq Asked(n, m)'
        /\ Working(worker[m], n, "NewBlockHashes") \subseteq Heard(n, m)'
    <3>1. worker' = worker /\ link'[m][n] = link[m][n]
      BY <1>2
    <3>2. Queued(link'[n][m], "Blocks") = Queued(link[n][m], "Blocks")
      BY <1>10
    <3>3. QED
      BY <3>1, <3>2, StagesAfter
  <2>2. Queued(link'[n][m], "NewBlockHashes") \subseteq Told(n, m)'
    BY StagesAfter
  <2>3. Queued(control[n], "NewBlockHashes") \subseteq Due(n, m)'
    BY <1>6, <1>8, <2>2, StagesAfter
  <2>4. QED
    BY <1>3, <1>8, <2>1, <2>2, <2>3 DEF Advance
<1>12. /\ Delivered(n, m) \subseteq Delivered(n, m)'
       /\ Heard(n, m) \subseteq Heard(n, m)'
       /\ Told(n, m) \union About(head, "NewBlockHashes") \subseteq Told(n, m)'
  BY <1>8, <1>11, StagesGrow, StagesAfter
<1>13. /\ InOrder(link'[n][m], "Blocks", Stored(m)', Delivered(n, m)')
       /\ InOrder(link'[n][m], "NewBlockHashes", Stored(m)', Heard(n, m)')
  BY <1>3, <1>9, <1>10, <1>12, OrderLoosens
<1>14. InOrder(control'[n], "NewBlockHashes", Stored(m)', Told(n, m)')
  BY <1>3, <1>7, <1>12, OrderLoosens
<1>15. Orderly(n, m)
  BY <1>2, <1>3, <1>13, <1>14 DEF Orderly
<1>16. QED
  BY <1>11, <1>15, PairKept

(* m's worker takes a block or an announcement off the link.                *)
LEMMA PairTakeTo ==
  ASSUME GossipInv, SingleWorker, NEW n \in Node, NEW m \in Node, m # n,
         PairInv(n, m), NEW w \in Worker, Take(m, w, n)
  PROVE  PairInv(n, m)'
<1>1. PICK head : head = Head(link[n][m])
  OBVIOUS
<1>2. /\ link[n][m] \in Seq(Sendable(chain, n)) /\ link[n][m] # << >>
      /\ TakenOut(link[n][m], head, link'[n][m])
      /\ link'[m][n] = link[m][n]
      /\ worker[m][w] = Idle
      /\ Turns(m, w, Busy(n, head))
      /\ UNCHANGED <<control, chain>>
  BY <1>1 DEF TakenOut, Turns, Take, Receive, GossipInv, LinkInv, storeVars
<1>3. Stored(n)' = Stored(n) /\ Stored(m)' = Stored(m)
  BY <1>2 DEF Stored
<1>4. /\ Working(worker[m], n, "Blocks") = {}
      /\ Working(worker[m], n, "NewBlockHashes") = {}
      /\ Working(worker'[m], n, "Blocks") = About(head, "Blocks")
      /\ Working(worker'[m], n, "NewBlockHashes") = About(head, "NewBlockHashes")
      /\ worker'[n] = worker[n]
  <2>1. /\ worker[m][w] = Idle
        /\ Turns(m, w, Busy(n, head))
    BY <1>2
  <2>2. \A type : Working(worker[m], n, type) = {}
    BY <2>1, WorkTaken
  <2>3. \A type : Working(worker'[m], n, type) = About(head, type)
    BY <2>1, WorkTaken
  <2>4. worker'[n] = worker[n]
    BY <2>1, WorkTaken
  <2>5. QED
    BY <2>2, <2>3, <2>4
<1>5. /\ Queued(link[n][m], "Blocks") =
           Queued(link'[n][m], "Blocks") \union About(head, "Blocks")
      /\ Queued(link[n][m], "NewBlockHashes") =
           Queued(link'[n][m], "NewBlockHashes") \union About(head, "NewBlockHashes")
  BY <1>1, <1>2, QueueAfterTake
<1>6. Advance(n, m)
  BY <1>2, <1>3, <1>4, <1>5, StagesAfter DEF Advance
<1>7. /\ Delivered(n, m) \union About(head, "Blocks") \subseteq Delivered(n, m)'
      /\ Asked(n, m) \subseteq Asked(n, m)'
      /\ Heard(n, m) \union About(head, "NewBlockHashes") \subseteq Heard(n, m)'
  BY <1>4, <1>6, StagesGrow, StagesAfter
<1>8. Delivered(n, m) = Stored(m) /\ Heard(n, m) = Asked(n, m)
  BY <1>4 DEF Delivered, Heard
<1>9. /\ InOrder(link[n][m], "Blocks", Stored(m), Delivered(n, m))
      /\ InOrder(link[n][m], "NewBlockHashes", Stored(m), Heard(n, m))
  BY DEF PairInv
<1>10. /\ \A h \in About(head, "Blocks") : Ready(h, Stored(m), Delivered(n, m))
       /\ InOrder(link'[n][m], "Blocks", Stored(m), Delivered(n, m) \union About(head, "Blocks"))
  BY <1>1, <1>2, <1>9, TakeInOrder
<1>11. /\ \A h \in About(head, "NewBlockHashes") : Ready(h, Stored(m), Heard(n, m))
       /\ InOrder(link'[n][m], "NewBlockHashes", Stored(m),
                  Heard(n, m) \union About(head, "NewBlockHashes"))
  BY <1>1, <1>2, <1>9, TakeInOrder
<1>12. /\ InOrder(link'[n][m], "Blocks", Stored(m)', Delivered(n, m)')
       /\ InOrder(link'[n][m], "NewBlockHashes", Stored(m)', Heard(n, m)')
  BY <1>3, <1>7, <1>10, <1>11, OrderLoosens
<1>13. /\ \A h \in About(head, "Blocks") : Ready(h, Stored(m)', Stored(m)')
       /\ \A h \in About(head, "NewBlockHashes") : Ready(h, Stored(m)', Asked(n, m)')
  BY <1>3, <1>7, <1>8, <1>10, <1>11 DEF Ready
<1>14. Orderly(n, m)
  BY <1>2, <1>3, <1>4, <1>12, <1>13 DEF Orderly
<1>15. QED
  BY <1>6, <1>14, PairKept

(* n's worker takes a question off the link back.                           *)
LEMMA PairTakeBack ==
  ASSUME GossipInv, SingleWorker, NEW n \in Node, NEW m \in Node, m # n,
         PairInv(n, m), NEW w \in Worker, Take(n, w, m)
  PROVE  PairInv(n, m)'
<1>1. PICK head : head = Head(link[m][n])
  OBVIOUS
<1>2. /\ link[m][n] \in Seq(Sendable(chain, m)) /\ link[m][n] # << >>
      /\ TakenOut(link[m][n], head, link'[m][n])
      /\ link'[n][m] = link[n][m]
      /\ worker[n][w] = Idle
      /\ Turns(n, w, Busy(m, head))
      /\ UNCHANGED <<control, chain>>
  BY <1>1 DEF TakenOut, Turns, Take, Receive, GossipInv, LinkInv, storeVars
<1>3. Stored(n)' = Stored(n) /\ Stored(m)' = Stored(m)
  BY <1>2 DEF Stored
<1>4. /\ Working(worker[n], m, "GetBlocks") = {}
      /\ Working(worker'[n], m, "GetBlocks") = About(head, "GetBlocks")
      /\ worker'[m] = worker[m]
  <2>1. /\ worker[n][w] = Idle
        /\ Turns(n, w, Busy(m, head))
    BY <1>2
  <2>2. \A type : Working(worker[n], m, type) = {}
    BY <2>1, WorkTaken
  <2>3. \A type : Working(worker'[n], m, type) = About(head, type)
    BY <2>1, WorkTaken
  <2>4. worker'[m] = worker[m]
    BY <2>1, WorkTaken
  <2>5. QED
    BY <2>2, <2>3, <2>4
<1>5. Queued(link[m][n], "GetBlocks") =
        Queued(link'[m][n], "GetBlocks") \union About(head, "GetBlocks")
  BY <1>1, <1>2, QueueAfterTake
<1>6. /\ InOrder(link[m][n], "GetBlocks", Stored(m), Served(n, m))
      /\ Queued(link[m][n], "GetBlocks") \subseteq Stored(n)
  BY DEF PairInv
<1>7. /\ \A h \in About(head, "GetBlocks") : Ready(h, Stored(m), Served(n, m))
      /\ InOrder(link'[m][n], "GetBlocks", Stored(m),
                 Served(n, m) \union About(head, "GetBlocks"))
  BY <1>1, <1>2, <1>6, TakeInOrder
<1>8. Advance(n, m)
  BY <1>2, <1>3, <1>4, <1>5, StagesAfter DEF Advance
<1>9. /\ Answered(n, m) \subseteq Answered(n, m)'
      /\ Served(n, m) \union About(head, "GetBlocks") \subseteq Served(n, m)'
  BY <1>4, <1>8, StagesGrow, StagesAfter
<1>10. Served(n, m) = Answered(n, m)
  BY <1>4 DEF Served
<1>11. InOrder(link'[m][n], "GetBlocks", Stored(m)', Served(n, m)')
  BY <1>3, <1>7, <1>9, OrderLoosens
<1>12. \A h \in About(head, "GetBlocks") : Ready(h, Stored(m)', Answered(n, m)')
  BY <1>3, <1>7, <1>9, <1>10 DEF Ready
<1>13. Orderly(n, m)
  BY <1>2, <1>3, <1>4, <1>5, <1>6, <1>11, <1>12 DEF Orderly
<1>14. QED
  BY <1>8, <1>13, PairKept

(* m's worker finishes a message, and n learns of nothing to send.          *)
LEMMA PairFinishTo ==
  ASSUME GossipInv, SingleWorker, NEW n \in Node, NEW m \in Node, m # n,
         PairInv(n, m), NEW w \in Worker,
         worker[m][w].state = "busy", Finish(m, w),
         control'[n] = control[n],
         Stored(n)' = Stored(n), Stored(m) \subseteq Stored(m)',
         link'[n][m] = link[n][m],
         \/ link'[m][n] = link[m][n]
         \/ \E e : link'[m][n] = Append(link[m][n], e) /\ e.type # "GetBlocks",
         worker[m][w].from = n =>
           /\ About(worker[m][w].msg, "NewBlockHashes") = {}
           /\ About(worker[m][w].msg, "Blocks") \subseteq Stored(m)'
  PROVE  PairInv(n, m)'
<1>1. /\ \A type : Working(worker'[m], n, type) = {}
      /\ worker'[n] = worker[n]
  BY WorkFinished
<1>2. \A type : Working(worker[m], n, type) =
                  IF n = worker[m][w].from THEN About(worker[m][w].msg, type) ELSE {}
  BY WorkFinished
<1>3. /\ Working(worker[m], n, "NewBlockHashes") = {}
      /\ Working(worker[m], n, "Blocks") \subseteq Stored(m)'
  BY <1>2
<1>4. QED
  BY <1>1, <1>3, PairQuiet

(* n's worker finishes a message that is no question of m.                  *)
LEMMA PairFinishFrom ==
  ASSUME GossipInv, SingleWorker, NEW n \in Node, NEW m \in Node, m # n,
         PairInv(n, m), NEW w \in Worker,
         worker[n][w].state = "busy", Finish(n, w),
         control'[n] = control[n],
         Stored(n)' = Stored(n), Stored(m)' = Stored(m),
         link'[m][n] = link[m][n],
         \/ link'[n][m] = link[n][m]
         \/ \E e : /\ link'[n][m] = Append(link[n][m], e)
                   /\ e.type \notin {"Blocks", "NewBlockHashes"},
         worker[n][w].from = m => About(worker[n][w].msg, "GetBlocks") = {}
  PROVE  PairInv(n, m)'
<1>1. /\ Working(worker'[n], m, "GetBlocks") = {}
      /\ worker'[m] = worker[m]
  BY WorkFinished
<1>2. Working(worker[n], m, "GetBlocks") = {}
  BY WorkFinished
<1>3. QED
  BY <1>1, <1>2, PairQuiet

(* m's worker asks n for a block that n has announced, or has it already.   *)
LEMMA PairAsks ==
  ASSUME GossipInv, SingleWorker, NEW n \in Node, NEW m \in Node, m # n,
         PairInv(n, m), NEW w \in Worker, worker[m][w].from = n,
         HandleNewBlockHashes(m, w)
  PROVE  PairInv(n, m)'
<1>1. PICK h : h = worker[m][w].msg.hash
  OBVIOUS
<1>2. /\ worker[m][w].state = "busy" /\ worker[m][w].msg.type = "NewBlockHashes"
      /\ Finish(m, w)
      /\ UNCHANGED <<chain, control>>
  BY DEF HandleNewBlockHashes, Handles, WorksOn, storeVars
<1>3. /\ About(worker[m][w].msg, "NewBlockHashes") = {h}
      /\ About(worker[m][w].msg, "Blocks") = {}
  BY <1>1, <1>2 DEF About, Subject
<1>4. /\ Working(worker[m], n, "NewBlockHashes") = {h}
      /\ Working(worker[m], n, "Blocks") = {}
      /\ \A type : Working(worker'[m], n, type) = {}
      /\ worker'[n] = worker[n]
  <2>1. worker[m][w].state = "busy" /\ Finish(m, w)
    BY <1>2
  <2>2. \A type : Working(worker[m], n, type) = About(worker[m][w].msg, type)
    BY <2>1, WorkFinished
  <2>3. \A type : Working(worker'[m], n, type) = {}
    BY <2>1, WorkFinished
  <2>4. worker'[n] = worker[n]
    BY <2>1, WorkFinished
  <2>5. QED
    BY <1>3, <2>2, <2>3, <2>4
<1>5. Stored(n)' = Stored(n) /\ Stored(m)' = Stored(m)
  BY <1>2 DEF Stored
<1>6. /\ link[m][n] \in Seq(Sendable(chain, m))
      /\ link'[n][m] = link[n][m]
      /\ HasBlock(chain[m], h) => link'[m][n] = link[m][n]
      /\ ~HasBlock(chain[m], h) => link'[m][n] = Append(link[m][n], GetBlocks(h))
  BY <1>1 DEF HandleNewBlockHashes, Write, GossipInv, LinkInv
<1>7. CASE HasBlock(chain[m], h)
  <2>1. h \in Stored(m)
    BY <1>7 DEF HasBlock, Stored
  <2>2. link'[m][n] = link[m][n]
    BY <1>6, <1>7
  <2>3. Advance(n, m)
    BY <1>2, <1>4, <1>5, <1>6, <2>1, <2>2, StagesAfter DEF Advance
  <2>4. Orderly(n, m)
    BY <1>2, <1>4, <1>5, <1>6, <2>2 DEF Orderly
  <2>5. QED
    BY <2>3, <2>4, PairKept
<1>8. CASE ~HasBlock(chain[m], h)
  <2>1. About(GetBlocks(h), "GetBlocks") = {h}
    BY DEF About, Subject, GetBlocks
  <2>2. PutIn(link[m][n], GetBlocks(h), link'[m][n])
    BY <1>6, <1>8 DEF PutIn
  <2>3. Queued(link'[m][n], "GetBlocks") = Queued(link[m][n], "GetBlocks") \union {h}
    BY <2>1, <2>2, QueueAfterSend
  <2>4. Ready(h, Stored(m), Asked(n, m))
    BY <1>4 DEF PairInv
  <2>5. InOrder(link'[m][n], "GetBlocks", Stored(m), Served(n, m))
    <3>1. InOrder(link[m][n], "GetBlocks", Stored(m), Served(n, m))
      BY DEF PairInv
    <3>2. Asked(n, m) = Served(n, m) \union Queued(link[m][n], "GetBlocks")
      BY DEF Asked
    <3>3. QED
      BY <2>1, <2>2, <2>4, <3>1, <3>2, SendInOrder
  <2>6. h \in Stored(n)
    BY <1>1, <1>2 DEF GossipInv, WorkerInv, ConditionInv, Sendable, HasBlock, Stored
  <2>7. Advance(n, m)
    <3>1. h \in Asked(n, m)'
      BY <2>3, StagesAfter
    <3>2. QED
      BY <1>2, <1>4, <1>5, <1>6, <2>3, <3>1, StagesAfter DEF Advance
  <2>8. Served(n, m) \subseteq Served(n, m)'
    BY <2>7, StagesGrow
  <2>9. InOrder(link'[m][n], "GetBlocks", Stored(m)', Served(n, m)')
    BY <1>5, <2>5, <2>8, OrderLoosens
  <2>10. Queued(link'[m][n], "GetBlocks") \subseteq Stored(n)'
    BY <1>5, <2>3, <2>6 DEF PairInv
  <2>11. Orderly(n, m)
    BY <1>2, <1>4, <1>5, <1>6, <2>9, <2>10 DEF Orderly
  <2>12. QED
    BY <2>7, <2>11, PairKept
<1>9. QED
  BY <1>7, <1>8

(* n's worker delivers a block that m has asked for.                        *)
LEMMA PairDelivers ==
  ASSUME GossipInv, SingleWorker, NEW n \in Node, NEW m \in Node, m # n,
         PairInv(n, m), NEW w \in Worker, worker[n][w].from = m,
         HandleGetBlocks(n, w)
  PROVE  PairInv(n, m)'
<1>1. PICK h : h = worker[n][w].msg.hash
  OBVIOUS
<1>2. /\ worker[n][w].state = "busy" /\ worker[n][w].msg.type = "GetBlocks"
      /\ Finish(n, w)
      /\ UNCHANGED <<chain, control>>
  BY DEF HandleGetBlocks, Handles, WorksOn, storeVars
<1>3. About(worker[n][w].msg, "GetBlocks") = {h}
  BY <1>1, <1>2 DEF About, Subject
<1>4. /\ Working(worker[n], m, "GetBlocks") = {h}
      /\ Working(worker'[n], m, "GetBlocks") = {}
      /\ worker'[m] = worker[m]
  <2>1. worker[n][w].state = "busy" /\ Finish(n, w)
    BY <1>2
  <2>2. \A type : Working(worker[n], m, type) = About(worker[n][w].msg, type)
    BY <2>1, WorkFinished
  <2>3. \A type : Working(worker'[n], m, type) = {}
    BY <2>1, WorkFinished
  <2>4. worker'[m] = worker[m]
    BY <2>1, WorkFinished
  <2>5. QED
    BY <1>3, <2>2, <2>3, <2>4
<1>5. Stored(n)' = Stored(n) /\ Stored(m)' = Stored(m)
  BY <1>2 DEF Stored
<1>6. h \in Stored(n) /\ Ready(h, Stored(m), Answered(n, m))
  BY <1>4 DEF PairInv
<1>7. PICK e : e = Blocks(chain[n].blocks[h])
  OBVIOUS
<1>8. /\ About(e, "Blocks") = {h}
      /\ e.type = "Blocks"
  <2>1. chain[n].blocks[h].hash = h
    BY <1>6 DEF GossipInv, StoreInv, ChainInv, Rooted, Stored
  <2>2. QED
    BY <1>7, <2>1 DEF About, Subject, Blocks
<1>9. /\ link[n][m] \in Seq(Sendable(chain, n))
      /\ link'[m][n] = link[m][n]
      /\ link'[n][m] = Append(link[n][m], e)
  BY <1>1, <1>6, <1>7 DEF HandleGetBlocks, Write, GossipInv, LinkInv, HasBlock, Stored
<1>10. PutIn(link[n][m], e, link'[n][m])
  BY <1>9 DEF PutIn
<1>11. Queued(link'[n][m], "Blocks") = Queued(link[n][m], "Blocks") \union {h}
  BY <1>8, <1>10, QueueAfterSend
<1>12. InOrder(link'[n][m], "Blocks", Stored(m), Delivered(n, m))
  <2>1. InOrder(link[n][m], "Blocks", Stored(m), Delivered(n, m))
    BY DEF PairInv
  <2>2. Answered(n, m) = Delivered(n, m) \union Queued(link[n][m], "Blocks")
    BY DEF Answered
  <2>3. QED
    BY <1>6, <1>8, <1>10, <2>1, <2>2, SendInOrder
<1>13. /\ Queued(link'[n][m], "NewBlockHashes") = Queued(link[n][m], "NewBlockHashes")
       /\ InOrder(link'[n][m], "NewBlockHashes", Stored(m), Heard(n, m))
  <2>1. InOrder(link[n][m], "NewBlockHashes", Stored(m), Heard(n, m))
    BY DEF PairInv
  <2>2. e.type # "NewBlockHashes"
    BY <1>8
  <2>3. QED
    BY <1>9, <2>1, <2>2, SendAside
<1>14. Advance(n, m)
  <2>1. h \in Answered(n, m)'
    BY <1>11, StagesAfter
  <2>2. /\ Working(worker[m], n, "Blocks") \subseteq Delivered(n, m)'
        /\ Queued(link[n][m], "Blocks") \subseteq Answered(n, m)'
        /\ Working(worker[n], m, "GetBlocks") \subseteq Served(n, m)'
    BY <1>4, <1>11, <2>1, StagesAfter
  <2>3. /\ Queued(link[m][n], "GetBlocks") \subseteq Asked(n, m)'
        /\ Working(worker[m], n, "NewBlockHashes") \subseteq Heard(n, m)'
    BY <1>4, <1>9, StagesAfter
  <2>4. /\ Queued(link[n][m], "NewBlockHashes") \subseteq Told(n, m)'
        /\ Queued(control[n], "NewBlockHashes") \subseteq Due(n, m)'
    BY <1>2, <1>13, StagesAfter
  <2>5. QED
    BY <1>5, <2>2, <2>3, <2>4 DEF Advance
<1>15. /\ Delivered(n, m) \subseteq Delivered(n, m)'
       /\ Heard(n, m) \subseteq Heard(n, m)'
  BY <1>14, StagesGrow
<1>16. /\ InOrder(link'[n][m], "Blocks", Stored(m)', Delivered(n, m)')
       /\ InOrder(link'[n][m], "NewBlockHashes", Stored(m)', Heard(n, m)')
  BY <1>5, <1>12, <1>13, <1>15, OrderLoosens
<1>17. Orderly(n, m)
  BY <1>2, <1>4, <1>5, <1>9, <1>16 DEF Orderly
<1>18. QED
  BY <1>14, <1>17, PairKept

(* n inserts a block on one of its own and announces it.                    *)
LEMMA PairInsertFrom ==
  ASSUME NEW n \in Node, NEW m \in Node, m # n, PairInv(n, m), NEW h,
         PutIn(control[n], NewBlockHashes(h), control'[n]),
         Stored(n)' = Stored(n) \union {h}, Parent[h] \in Stored(n),
         Stored(m)' = Stored(m),
         link'[n][m] = link[n][m], link'[m][n] = link[m][n],
         worker'[m] = worker[m],
         Working(worker'[n], m, "GetBlocks") = Working(worker[n], m, "GetBlocks")
  PROVE  PairInv(n, m)'
<1>1. About(NewBlockHashes(h), "NewBlockHashes") = {h}
  BY DEF About, Subject, NewBlockHashes
<1>2. Queued(control'[n], "NewBlockHashes") = Queued(control[n], "NewBlockHashes") \union {h}
  BY <1>1, QueueAfterSend
<1>3. /\ InOrder(control[n], "NewBlockHashes", Stored(m), Told(n, m))
      /\ Stored(n) \subseteq Told(n, m) \union Queued(control[n], "NewBlockHashes")
  BY DEF PairInv, Due
<1>4. InOrder(control'[n], "NewBlockHashes", Stored(m), Told(n, m))
  <2>1. Ready(h, Stored(m), Told(n, m) \union Queued(control[n], "NewBlockHashes"))
    BY <1>3 DEF Ready
  <2>2. QED
    BY <1>1, <1>3, <2>1, SendInOrder
<1>5. Advance(n, m)
  BY <1>2, StagesAfter DEF Advance
<1>6. Told(n, m) \subseteq Told(n, m)' /\ h \in Due(n, m)'
  BY <1>2, <1>5, StagesGrow, StagesAfter
<1>7. InOrder(control'[n], "NewBlockHashes", Stored(m)', Told(n, m)')
  BY <1>4, <1>6, OrderLoosens
<1>8. Orderly(n, m)
  BY <1>6, <1>7 DEF Orderly
<1>9. QED
  BY <1>5, <1>8, PairKept

LEMMA PeersAreOthers ==
  ASSUME NEW n \in Node, NEW m \in Peers[n]
  PROVE  m \in Node /\ m # n /\ n \in Peers[m]
  BY NetworkAssumption

(* Who has sent what a worker works on; no worker of a calm network does    *)
(* anything else than work on a message or wait for one.                    *)
LEMMA CalmWork ==
  ASSUME GossipInv, CalmInv, NEW n \in Node, NEW w \in Worker,
         worker[n][w].state # "idle"
  PROVE  /\ worker[n][w].state = "busy"
         /\ worker[n][w].from \in Node /\ n \in Peers[worker[n][w].from]
         /\ worker[n][w].from \in Peers[n] /\ worker[n][w].from # n
         /\ worker[n][w].msg \in Message
<1>1. worker[n][w].state = "busy"
  BY DEF CalmInv
<1>2. /\ worker[n][w].from \in Node
      /\ worker[n][w].msg \in Message
  BY <1>1 DEF GossipInv, WorkerInv, ConditionInv, Sendable
<1>3. n \in Peers[worker[n][w].from]
  BY <1>1, <1>2 DEF CalmInv
<1>4. QED
  BY <1>1, <1>2, <1>3, PeersAreOthers

(* What a worker makes of a block, in a calm network.                       *)
LEMMA BlockInOrder ==
  ASSUME GossipInv, PipelineInv, SingleWorker, AllPassChecks,
         NEW m \in Node, NEW w \in Worker, WorksOn(m, w, "Blocks")
  PROVE  LET block == worker[m][w].msg.block
         IN  /\ Disposition(chain[m], block) \in {"known", "accepted"}
             /\ Disposition(chain[m], block) = "known" => block.hash \in Stored(m)
<1> DEFINE block == worker[m][w].msg.block
           n == worker[m][w].from
<1>1. /\ worker[m][w].state = "busy" /\ worker[m][w].msg.type = "Blocks"
      /\ worker[m][w].state # "idle"
  BY DEF WorksOn
<1>2. n \in Node /\ m \in Peers[n]
  BY <1>1, CalmWork DEF PipelineInv
<1>3. PairInv(n, m)
  BY <1>2 DEF PipelineInv
<1>4. block.hash \in Working(worker[m], n, "Blocks")
  <2>1. Working(worker[m], n, "Blocks") = Works(worker[m][w], n, "Blocks")
    BY WorkOfOne
  <2>2. QED
    BY <1>1, <2>1 DEF Works, About, Subject
<1>5. block.hash \in Stored(m) \/ Parent[block.hash] \in Stored(m)
  BY <1>3, <1>4 DEF PairInv, Ready
<1>6. block \in Block /\ block.hash \in Hash /\ block.txs \subseteq Tx
  <2>1. worker[m][w].msg \in Message
    BY <1>1, CalmWork DEF PipelineInv
  <2>2. QED
    BY <1>1, <2>1, HashesAndBlocks DEF Block
<1>7. Stored(m) \subseteq Hash
  BY DEF Stored, GossipInv, StoreInv, ChainInv, IsChain
<1>8. Parent[block.hash] \in Stored(m) =>
        HashValue[block.hash] <= Difficulty[Parent[block.hash]]
  BY <1>6, <1>7 DEF AllPassChecks
<1>9. ~(HashValue[block.hash] > Difficulty[Parent[block.hash]])
        \/ Parent[block.hash] \notin Stored(m)
  <2>1. HashValue[block.hash] \in Nat
    BY <1>6, HandlingAssumption
  <2>2. Parent[block.hash] \in Stored(m) => Difficulty[Parent[block.hash]] \in Nat
    BY <1>7, HandlingAssumption
  <2> HIDE DEF block
  <2>3. QED
    BY <1>8, <2>1, <2>2
<1>10. block.txs \subseteq SignedTx
  BY <1>6 DEF AllPassChecks
<1> HIDE DEF block
<1>11. /\ Disposition(chain[m], block) \in {"known", "accepted"}
       /\ Disposition(chain[m], block) = "known" => block.hash \in Stored(m)
  BY <1>5, <1>9, <1>10 DEF Disposition, HasBlock, Stored
<1>12. QED
  BY <1>11 DEF block

(* Only the ends of a link, or those of its other direction, touch it.      *)
LEMMA LinkElsewhere ==
  ASSUME GossipInv, NEW n \in Node, NEW m \in Node, NEW k \in Node, k # n, k # m,
         \/ Dispatch(k) \/ ReadTip(k) \/ InsertMined(k)
         \/ \E w \in Worker, j \in Node : Take(k, w, j)
         \/ \E w \in Worker : Handle(k, w)
         \/ \E h \in Hash : FindBlock(k, h)
  PROVE  link'[n][m] = link[n][m]
<1>1. DOMAIN link = Node /\ \A j \in Node : DOMAIN link[j] = Node
  BY DEF GossipInv, LinkInv
<1>2. CASE Dispatch(k) \/ ReadTip(k) \/ InsertMined(k)
  BY <1>1, <1>2 DEF Dispatch, Forward, ReadTip, InsertMined, networkVars
<1>3. ASSUME NEW w \in Worker, NEW j \in Node, Take(k, w, j)
      PROVE  link'[n][m] = link[n][m]
  BY <1>1, <1>3 DEF Take, Receive
<1>4. CASE \E h \in Hash : FindBlock(k, h)
  BY <1>4 DEF FindBlock, networkVars
<1>5. ASSUME NEW w \in Worker, Handle(k, w)
      PROVE  link'[n][m] = link[n][m]
  BY <1>1, <1>5
    DEF Handle, HandleNewBlockHashes, HandleGetBlocks, IgnoreBlock, KeepOrphan, AcceptBlock,
        PopOrphan, PassOrphan, LoopPanics, EndLoop, WorkerDies, Write
<1>6. QED
  BY <1>2, <1>3, <1>4, <1>5

LEMMA PairElsewhere ==
  ASSUME GossipInv, NEW n \in Node, NEW m \in Node, PairInv(n, m),
         NEW k \in Node, k # n, k # m,
         \/ Dispatch(k) \/ ReadTip(k) \/ InsertMined(k)
         \/ \E w \in Worker, j \in Node : Take(k, w, j)
         \/ \E w \in Worker : Handle(k, w)
         \/ \E h \in Hash : FindBlock(k, h)
  PROVE  PairInv(n, m)'
<1>1. link'[n][m] = link[n][m] /\ link'[m][n] = link[m][n]
  BY LinkElsewhere
<1>2. /\ UNCHANGED <<chain[n], control[n], worker[n]>>
      /\ UNCHANGED <<chain[m], control[m], worker[m]>>
  BY OneNodeSteps
<1>3. Stored(n)' = Stored(n) /\ Stored(m)' = Stored(m)
  BY <1>2 DEF Stored
<1>4. QED
  BY <1>1, <1>2, <1>3, PairQuiet

(* The miners look and find.                                                *)
LEMMA PairUnmoved ==
  ASSUME GossipInv, NEW n \in Node, NEW m \in Node, PairInv(n, m),
         UNCHANGED <<networkVars, chain>>
  PROVE  PairInv(n, m)'
<1>1. UNCHANGED <<control, link, worker>>
  BY DEF networkVars
<1>2. Stored(n)' = Stored(n) /\ Stored(m)' = Stored(m)
  BY DEF Stored
<1>3. QED
  BY <1>1, <1>2, PairQuiet

(* A worker takes a message that another node has sent.                     *)
LEMMA PairTakeOther ==
  ASSUME GossipInv, SingleWorker, NEW n \in Node, NEW m \in Node, m # n,
         PairInv(n, m), NEW k \in {n, m}, NEW w \in Worker, NEW j \in Node \ {n, m},
         Take(k, w, j)
  PROVE  PairInv(n, m)'
<1>1. /\ worker[k][w] = Idle
      /\ Turns(k, w, Busy(j, Head(link[j][k])))
      /\ UNCHANGED <<control, chain>>
      /\ link'[n][m] = link[n][m] /\ link'[m][n] = link[m][n]
  BY DEF Take, Receive, Turns, storeVars, GossipInv, LinkInv
<1>2. Stored(n)' = Stored(n) /\ Stored(m)' = Stored(m)
  BY <1>1 DEF Stored
<1>3. k \in Node
  OBVIOUS
<1>4. /\ \A i \in Node \ {k} : worker'[i] = worker[i]
      /\ \A other, type : Working(worker[k], other, type) = {}
      /\ \A other, type : other # j => Working(worker'[k], other, type) = {}
  <2>1. PICK head : head = Head(link[j][k])
    OBVIOUS
  <2>2. worker[k][w] = Idle /\ Turns(k, w, Busy(j, head))
    BY <1>1, <2>1
  <2>3. \A other, type : Working(worker[k], other, type) = {}
    BY <1>3, <2>2, WorkTaken
  <2>4. \A other, type : other # j => Working(worker'[k], other, type) = {}
    BY <1>3, <2>2, WorkTaken
  <2>5. \A i \in Node \ {k} : worker'[i] = worker[i]
    BY <1>3, <2>2, WorkTaken
  <2>6. QED
    BY <2>3, <2>4, <2>5
<1>5. CASE k = n
  <2>1. worker'[m] = worker[m]
    BY <1>4, <1>5
  <2>2. Working(worker'[n], m, "GetBlocks") = {} /\ Working(worker[n], m, "GetBlocks") = {}
    BY <1>4, <1>5
  <2>3. QED
    BY <1>1, <1>2, <2>1, <2>2, PairQuiet
<1>6. CASE k = m
  <2>1. worker'[n] = worker[n]
    BY <1>4, <1>6
  <2>2. \A type : Working(worker'[m], n, type) = {} /\ Working(worker[m], n, type) = {}
    BY <1>4, <1>6
  <2>3. QED
    BY <1>1, <1>2, <2>1, <2>2, PairQuiet
<1>7. QED
  BY <1>5, <1>6

LEMMA PairInserts ==
  ASSUME GossipInv, NEW n \in Node, NEW m \in Node, m # n, PairInv(n, m),
         NEW block \in Block, CanInsert(chain[n], block),
         chain' = [chain EXCEPT ![n] = Inserted(@, block)],
         Broadcast(n, <<NewBlockHashes(block.hash)>>),
         UNCHANGED link,
         worker'[m] = worker[m],
         Working(worker'[n], m, "GetBlocks") = Working(worker[n], m, "GetBlocks")
  PROVE  PairInv(n, m)'
<1>1. /\ Stored(n)' = Stored(n) \union {block.hash}
      /\ Stored(m)' = Stored(m)
  BY PublishedByInsertion DEF Stored, GossipInv
<1>2. Parent[block.hash] \in Stored(n)
  BY DEF CanInsert, Stored, GossipInv, StoreInv, ChainInv, IsChain
<1>3. PutIn(control[n], NewBlockHashes(block.hash), control'[n])
  <2>1. PICK e : e = NewBlockHashes(block.hash)
    OBVIOUS
  <2>2. /\ control[n] \in Seq(Sendable(chain, n) \union {e})
        /\ control'[n] = control[n] \o <<e>>
    BY <2>1, SeqMonotonic DEF Broadcast, GossipInv, ControlInv
  <2>3. control'[n] = Append(control[n], e)
    BY <2>2, AppendIsConcat
  <2>4. QED
    BY <2>1, <2>2, <2>3 DEF PutIn
<1>4. QED
  BY <1>1, <1>2, <1>3, PairInsertFrom

(* The steps of m, to which the blocks go.                                  *)
LEMMA PairHandleTo ==
  ASSUME GossipInv, PipelineInv, SingleWorker, AllPassChecks,
         NEW n \in Node, NEW m \in Peers[n], NEW w \in Worker, Handle(m, w)
  PROVE  PairInv(n, m)'
<1>1. m \in Node /\ m # n /\ n \in Peers[m] /\ PairInv(n, m) /\ CalmInv
  BY PeersAreOthers DEF PipelineInv
<1>2. DOMAIN control = Node /\ DOMAIN chain = Node
  BY DEF GossipInv, ControlInv, StoreInv
<1>3. ASSUME HandleNewBlockHashes(m, w)
      PROVE  PairInv(n, m)'
  <2>1. CASE worker[m][w].from = n
    BY <1>1, <1>3, <2>1, PairAsks
  <2>2. CASE worker[m][w].from # n
    <3>1. /\ worker[m][w].state = "busy" /\ Finish(m, w)
          /\ UNCHANGED <<control, chain>>
          /\ link'[n][m] = link[n][m] /\ link'[m][n] = link[m][n]
      BY <1>1, <1>3, <2>2
        DEF HandleNewBlockHashes, Handles, WorksOn, storeVars, Write, GossipInv, LinkInv
    <3>2. Stored(n)' = Stored(n) /\ Stored(m)' = Stored(m)
      BY <3>1 DEF Stored
    <3>3. QED
      BY <1>1, <2>2, <3>1, <3>2, PairFinishTo
  <2>3. QED
    BY <2>1, <2>2
<1>4. ASSUME HandleGetBlocks(m, w)
      PROVE  PairInv(n, m)'
  <2>1. /\ worker[m][w].state = "busy" /\ worker[m][w].msg.type = "GetBlocks"
        /\ Finish(m, w)
        /\ UNCHANGED <<control, chain>>
        /\ link'[n][m] = link[n][m]
    BY <1>1, <1>4
      DEF HandleGetBlocks, Handles, WorksOn, storeVars, Write, GossipInv, LinkInv
  <2>2. \/ link'[m][n] = link[m][n]
        \/ \E e : link'[m][n] = Append(link[m][n], e) /\ e.type # "GetBlocks"
    <3>1. PICK e : e = Blocks(chain[m].blocks[worker[m][w].msg.hash])
      OBVIOUS
    <3>2. e.type # "GetBlocks"
      BY <3>1 DEF Blocks
    <3>3. link' = link \/ Write(m, worker[m][w].from, e)
      BY <1>4, <3>1 DEF HandleGetBlocks
    <3>4. CASE worker[m][w].from = n /\ Write(m, worker[m][w].from, e)
      <4>1. link'[m][n] = Append(link[m][n], e)
        BY <1>1, <3>4 DEF Write, GossipInv, LinkInv
      <4>2. QED
        BY <3>2, <4>1
    <3>5. CASE worker[m][w].from # n /\ Write(m, worker[m][w].from, e)
      BY <1>1, <3>5 DEF Write, GossipInv, LinkInv
    <3>6. QED
      BY <3>3, <3>4, <3>5
  <2>3. /\ About(worker[m][w].msg, "NewBlockHashes") = {}
        /\ About(worker[m][w].msg, "Blocks") = {}
    BY <2>1 DEF About
  <2>4. Stored(n)' = Stored(n) /\ Stored(m)' = Stored(m)
    BY <2>1 DEF Stored
  <2>5. QED
    BY <1>1, <2>1, <2>2, <2>3, <2>4, PairFinishTo
<1>5. ASSUME IgnoreBlock(m, w)
      PROVE  PairInv(n, m)'
  <2>1. /\ worker[m][w].state = "busy" /\ worker[m][w].msg.type = "Blocks"
        /\ Finish(m, w)
        /\ UNCHANGED <<control, chain, link>>
        /\ Disposition(chain[m], worker[m][w].msg.block) \notin {"orphan", "accepted"}
        /\ WorksOn(m, w, "Blocks")
    BY <1>5 DEF IgnoreBlock, Handles, WorksOn, storeVars
  <2>2. worker[m][w].msg.block.hash \in Stored(m)
    BY <1>1, <2>1, BlockInOrder
  <2>3. Stored(n)' = Stored(n) /\ Stored(m)' = Stored(m)
    BY <2>1 DEF Stored
  <2>4. /\ About(worker[m][w].msg, "NewBlockHashes") = {}
        /\ About(worker[m][w].msg, "Blocks") \subseteq Stored(m)'
    BY <2>1, <2>2, <2>3 DEF About, Subject
  <2>5. QED
    BY <1>1, <2>1, <2>3, <2>4, PairFinishTo
<1>6. ASSUME KeepOrphan(m, w)
      PROVE  FALSE
  BY <1>1, <1>6, BlockInOrder DEF KeepOrphan, Handles
<1>7. ASSUME AcceptBlock(m, w)
      PROVE  PairInv(n, m)'
  <2>1. /\ worker[m][w].state = "busy" /\ worker[m][w].msg.type = "Blocks"
        /\ UNCHANGED link
    BY <1>7 DEF AcceptBlock, Handles, WorksOn
  <2>2. Finish(m, w) /\ control'[n] = control[n]
    <3>1. orphans[m][w] = << >>
      BY <1>1 DEF CalmInv
    <3>2. QED
      BY <1>1, <1>2, <1>7, <3>1 DEF AcceptBlock, Broadcast
  <2>3. /\ Stored(n)' = Stored(n)
        /\ Stored(m)' = Stored(m) \union {worker[m][w].msg.block.hash}
    BY <1>1, <1>7, AcceptedBlock, PublishedByInsertion DEF Stored, GossipInv
  <2>4. /\ About(worker[m][w].msg, "NewBlockHashes") = {}
        /\ About(worker[m][w].msg, "Blocks") \subseteq Stored(m)'
    BY <2>1, <2>3 DEF About, Subject
  <2>5. QED
    BY <1>1, <2>1, <2>2, <2>3, <2>4, PairFinishTo
<1>8. ~(PopOrphan(m, w) \/ PassOrphan(m, w) \/ LoopPanics(m, w) \/ EndLoop(m, w)
          \/ WorkerDies(m, w))
  BY <1>1 DEF CalmInv, PopOrphan, PassOrphan, LoopPanics, InLoop, EndLoop, WorkerDies
<1>9. QED
  BY <1>3, <1>4, <1>5, <1>6, <1>7, <1>8 DEF Handle

LEMMA PairStepTo ==
  ASSUME GossipInv, FreshInv, PipelineInv, SingleWorker, AllPassChecks,
         NEW n \in Node, NEW m \in Peers[n],
         \/ Dispatch(m) \/ ReadTip(m) \/ InsertMined(m)
         \/ \E w \in Worker, j \in Node : Take(m, w, j)
         \/ \E w \in Worker : Handle(m, w)
         \/ \E h \in Hash : FindBlock(m, h)
  PROVE  PairInv(n, m)'
<1>1. m \in Node /\ m # n /\ n \in Peers[m] /\ PairInv(n, m) /\ CalmInv
  BY PeersAreOthers DEF PipelineInv
<1>2. ASSUME Dispatch(m)
      PROVE  PairInv(n, m)'
  <2>1. /\ control'[n] = control[n] /\ link'[n][m] = link[n][m]
        /\ link'[m][n] = Append(link[m][n], Head(control[m]))
        /\ UNCHANGED <<chain, worker>>
    BY <1>1, <1>2 DEF Dispatch, Forward, storeVars, GossipInv, ControlInv, LinkInv
  <2>2. Head(control[m]).type # "GetBlocks"
    <3>1. control[m] \in Seq(Sendable(chain, m)) /\ control[m] # << >>
      BY <1>1, <1>2 DEF Dispatch, Forward, GossipInv, ControlInv
    <3>2. 1 \in DOMAIN control[m] /\ control[m][1] = Head(control[m])
      BY <3>1, Taken
    <3>3. QED
      BY <1>1, <3>2 DEF CalmInv
  <2>3. Stored(n)' = Stored(n) /\ Stored(m)' = Stored(m)
    BY <2>1 DEF Stored
  <2>4. QED
    BY <1>1, <2>1, <2>2, <2>3, PairQuiet
<1>3. ASSUME InsertMined(m)
      PROVE  PairInv(n, m)'
  <2>1. /\ control'[n] = control[n]
        /\ UNCHANGED <<worker, link>>
    BY <1>1, <1>3 DEF InsertMined, Broadcast, GossipInv, ControlInv
  <2>2. Stored(n)' = Stored(n) /\ Stored(m) \subseteq Stored(m)'
    BY <1>1, <1>3, MinedBlock, PublishedByInsertion DEF Stored, GossipInv
  <2>3. QED
    BY <1>1, <2>1, <2>2, PairQuiet
<1>4. ASSUME ReadTip(m) \/ \E h \in Hash : FindBlock(m, h)
      PROVE  PairInv(n, m)'
  <2>1. UNCHANGED <<networkVars, chain>>
    BY <1>4 DEF ReadTip, FindBlock, storeVars
  <2>2. QED
    BY <1>1, <2>1, PairUnmoved
<1>5. ASSUME NEW w \in Worker, NEW j \in Node, Take(m, w, j)
      PROVE  PairInv(n, m)'
  <2>1. j # m
    BY <1>1, <1>5, PeersAreOthers DEF Take, Receive, CalmInv
  <2>2. QED
    BY <1>1, <1>5, <2>1, PairTakeTo, PairTakeOther
<1>6. ASSUME NEW w \in Worker, Handle(m, w)
      PROVE  PairInv(n, m)'
  BY <1>6, PairHandleTo
<1>7. QED
  BY <1>2, <1>3, <1>4, <1>5, <1>6

(* The steps of n, from which the blocks come.                              *)
LEMMA PairHandleFrom ==
  ASSUME GossipInv, PipelineInv, SingleWorker, AllPassChecks,
         NEW n \in Node, NEW m \in Peers[n], NEW w \in Worker, Handle(n, w)
  PROVE  PairInv(n, m)'
<1>1. m \in Node /\ m # n /\ n \in Peers[m] /\ PairInv(n, m) /\ CalmInv
  BY PeersAreOthers DEF PipelineInv
<1>2. DOMAIN control = Node /\ DOMAIN chain = Node
  BY DEF GossipInv, ControlInv, StoreInv
<1>3. ASSUME HandleNewBlockHashes(n, w)
      PROVE  PairInv(n, m)'
  <2>1. /\ worker[n][w].state = "busy" /\ worker[n][w].msg.type = "NewBlockHashes"
        /\ Finish(n, w)
        /\ UNCHANGED <<control, chain>>
        /\ link'[m][n] = link[m][n]
    BY <1>1, <1>3
      DEF HandleNewBlockHashes, Handles, WorksOn, storeVars, Write, GossipInv, LinkInv
  <2>2. \/ link'[n][m] = link[n][m]
        \/ \E e : /\ link'[n][m] = Append(link[n][m], e)
                  /\ e.type \notin {"Blocks", "NewBlockHashes"}
    <3>1. PICK e : e = GetBlocks(worker[n][w].msg.hash)
      OBVIOUS
    <3>2. e.type \notin {"Blocks", "NewBlockHashes"}
      BY <3>1 DEF GetBlocks
    <3>3. link' = link \/ Write(n, worker[n][w].from, e)
      BY <1>3, <3>1 DEF HandleNewBlockHashes
    <3>4. CASE worker[n][w].from = m /\ Write(n, worker[n][w].from, e)
      <4>1. link'[n][m] = Append(link[n][m], e)
        BY <1>1, <3>4 DEF Write, GossipInv, LinkInv
      <4>2. QED
        BY <3>2, <4>1
    <3>5. CASE worker[n][w].from # m /\ Write(n, worker[n][w].from, e)
      BY <1>1, <3>5 DEF Write, GossipInv, LinkInv
    <3>6. QED
      BY <3>3, <3>4, <3>5
  <2>3. About(worker[n][w].msg, "GetBlocks") = {}
    BY <2>1 DEF About
  <2>4. Stored(n)' = Stored(n) /\ Stored(m)' = Stored(m)
    BY <2>1 DEF Stored
  <2>5. QED
    BY <1>1, <2>1, <2>2, <2>3, <2>4, PairFinishFrom
<1>4. ASSUME HandleGetBlocks(n, w)
      PROVE  PairInv(n, m)'
  <2>1. CASE worker[n][w].from = m
    BY <1>1, <1>4, <2>1, PairDelivers
  <2>2. CASE worker[n][w].from # m
    <3>1. /\ worker[n][w].state = "busy" /\ Finish(n, w)
          /\ UNCHANGED <<control, chain>>
          /\ link'[n][m] = link[n][m] /\ link'[m][n] = link[m][n]
      BY <1>1, <1>4, <2>2
        DEF HandleGetBlocks, Handles, WorksOn, storeVars, Write, GossipInv, LinkInv
    <3>2. Stored(n)' = Stored(n) /\ Stored(m)' = Stored(m)
      BY <3>1 DEF Stored
    <3>3. QED
      BY <1>1, <2>2, <3>1, <3>2, PairFinishFrom
  <2>3. QED
    BY <2>1, <2>2
<1>5. ASSUME IgnoreBlock(n, w)
      PROVE  PairInv(n, m)'
  <2>1. /\ worker[n][w].state = "busy" /\ worker[n][w].msg.type = "Blocks"
        /\ Finish(n, w)
        /\ UNCHANGED <<control, chain, link>>
    BY <1>5 DEF IgnoreBlock, Handles, WorksOn, storeVars
  <2>2. About(worker[n][w].msg, "GetBlocks") = {}
    BY <2>1 DEF About
  <2>3. Stored(n)' = Stored(n) /\ Stored(m)' = Stored(m)
    BY <2>1 DEF Stored
  <2>4. QED
    BY <1>1, <2>1, <2>2, <2>3, PairFinishFrom
<1>6. ASSUME KeepOrphan(n, w)
      PROVE  FALSE
  BY <1>1, <1>6, BlockInOrder DEF KeepOrphan, Handles
<1>7. ASSUME AcceptBlock(n, w)
      PROVE  PairInv(n, m)'
  <2>1. PICK block : block = worker[n][w].msg.block
    OBVIOUS
  <2>2. /\ worker[n][w].state = "busy" /\ worker[n][w].msg.type = "Blocks"
        /\ UNCHANGED link
    BY <1>7 DEF AcceptBlock, Handles, WorksOn
  <2>3. Finish(n, w) /\ Broadcast(n, <<NewBlockHashes(block.hash)>>)
    <3>1. orphans[n][w] = << >>
      BY <1>1 DEF CalmInv
    <3>2. QED
      BY <1>7, <2>1, <3>1 DEF AcceptBlock
  <2>4. /\ block \in Block /\ CanInsert(chain[n], block)
        /\ chain' = [chain EXCEPT ![n] = Inserted(@, block)]
    BY <1>7, <2>1, AcceptedBlock
  <2>5. /\ About(worker[n][w].msg, "GetBlocks") = {}
        /\ worker[n][w].state = "busy"
    BY <2>2 DEF About
  <2>6. /\ Working(worker'[n], m, "GetBlocks") = {}
        /\ worker'[m] = worker[m]
    BY <1>1, <2>3, <2>5, WorkFinished
  <2>7. Working(worker[n], m, "GetBlocks") = {}
    BY <1>1, <2>3, <2>5, WorkFinished
  <2>8. QED
    BY <1>1, <2>2, <2>3, <2>4, <2>6, <2>7, PairInserts
<1>8. ~(PopOrphan(n, w) \/ PassOrphan(n, w) \/ LoopPanics(n, w) \/ EndLoop(n, w)
          \/ WorkerDies(n, w))
  BY <1>1 DEF CalmInv, PopOrphan, PassOrphan, LoopPanics, InLoop, EndLoop, WorkerDies
<1>9. QED
  BY <1>3, <1>4, <1>5, <1>6, <1>7, <1>8 DEF Handle

LEMMA PairStepFrom ==
  ASSUME GossipInv, FreshInv, PipelineInv, SingleWorker, AllPassChecks,
         NEW n \in Node, NEW m \in Peers[n],
         \/ Dispatch(n) \/ ReadTip(n) \/ InsertMined(n)
         \/ \E w \in Worker, j \in Node : Take(n, w, j)
         \/ \E w \in Worker : Handle(n, w)
         \/ \E h \in Hash : FindBlock(n, h)
  PROVE  PairInv(n, m)'
<1>1. m \in Node /\ m # n /\ n \in Peers[m] /\ PairInv(n, m) /\ CalmInv
  BY PeersAreOthers DEF PipelineInv
<1>2. ASSUME Dispatch(n)
      PROVE  PairInv(n, m)'
  <2>1. Head(control[n]).type = "NewBlockHashes"
    <3>1. control[n] \in Seq(Sendable(chain, n)) /\ control[n] # << >>
      BY <1>1, <1>2 DEF Dispatch, Forward, GossipInv, ControlInv
    <3>2. 1 \in DOMAIN control[n] /\ control[n][1] = Head(control[n])
      BY <3>1, Taken
    <3>3. QED
      BY <1>1, <3>2 DEF CalmInv
  <2>2. QED
    BY <1>1, <1>2, <2>1, PairDispatchFrom
<1>3. ASSUME InsertMined(n)
      PROVE  PairInv(n, m)'
  <2>1. PICK block : block = Head(finished[n])
    OBVIOUS
  <2>2. /\ Broadcast(n, <<NewBlockHashes(block.hash)>>)
        /\ UNCHANGED <<worker, link>>
    BY <1>3, <2>1 DEF InsertMined
  <2>3. /\ block \in Block /\ CanInsert(chain[n], block)
        /\ chain' = [chain EXCEPT ![n] = Inserted(@, block)]
    BY <1>3, <2>1, MinedBlock
  <2>4. QED
    BY <1>1, <2>2, <2>3, PairInserts
<1>4. ASSUME ReadTip(n) \/ \E h \in Hash : FindBlock(n, h)
      PROVE  PairInv(n, m)'
  <2>1. UNCHANGED <<networkVars, chain>>
    BY <1>4 DEF ReadTip, FindBlock, storeVars
  <2>2. QED
    BY <1>1, <2>1, PairUnmoved
<1>5. ASSUME NEW w \in Worker, NEW j \in Node, Take(n, w, j)
      PROVE  PairInv(n, m)'
  <2>1. j # n
    BY <1>1, <1>5, PeersAreOthers DEF Take, Receive, CalmInv
  <2>2. QED
    BY <1>1, <1>5, <2>1, PairTakeBack, PairTakeOther
<1>6. ASSUME NEW w \in Worker, Handle(n, w)
      PROVE  PairInv(n, m)'
  BY <1>6, PairHandleFrom
<1>7. QED
  BY <1>2, <1>3, <1>4, <1>5, <1>6

LEMMA PairStep ==
  ASSUME GossipInv, FreshInv, PipelineInv, SingleWorker, AllPassChecks, Next,
         NEW n \in Node, NEW m \in Peers[n]
  PROVE  PairInv(n, m)'
<1>1. m \in Node /\ PairInv(n, m)
  BY PeersAreOthers DEF PipelineInv
<1>2. PICK k \in Node :
        \/ Dispatch(k) \/ ReadTip(k) \/ InsertMined(k)
        \/ \E w \in Worker, j \in Node : Take(k, w, j)
        \/ \E w \in Worker : Handle(k, w)
        \/ \E h \in Hash : FindBlock(k, h)
  BY DEF Next
<1>3. CASE k # n /\ k # m
  BY <1>1, <1>2, <1>3, PairElsewhere
<1>4. CASE k = n
  BY <1>2, <1>4, PairStepFrom
<1>5. CASE k = m
  BY <1>2, <1>5, PairStepTo
<1>6. QED
  BY <1>3, <1>4, <1>5

--------------------------------------------------------------------------------
(* Nobody becomes busy with anything else. *)

(* CalmInv node by node. *)
CalmAt(n) ==
  /\ ~poisoned[n]
  /\ \A w \in Worker : orphans[n][w] = << >> /\ worker[n][w].state \in {"idle", "busy"}
  /\ \A i \in DOMAIN control[n] : control[n][i].type = "NewBlockHashes"

FromPeers ==
  \A n \in Node : \A m \in Node \ Peers[n] :
    /\ link[n][m] = << >>
    /\ \A w \in Worker : worker[m][w].state = "busy" => worker[m][w].from # n

LEMMA CalmIsLocal == CalmInv <=> FromPeers /\ \A n \in Node : CalmAt(n)
  BY DEF CalmInv, CalmAt, FromPeers

LEMMA TypesAfterSend ==
  ASSUME NEW q, NEW e, NEW next, PutIn(q, e, next), NEW type,
         e.type = type, \A i \in DOMAIN q : q[i].type = type
  PROVE  \A i \in DOMAIN next : next[i].type = type
<1> PICK last : AddedAt(last, q, e, next)
  BY AfterSend
<1>1. /\ DOMAIN next = DOMAIN q \union {last}
      /\ \A k \in DOMAIN q : next[k] = q[k] /\ k < last
      /\ next[last] = e
  BY DEF AddedAt
<1>2. QED
  BY <1>1

LEMMA AnnouncesAfterBroadcast ==
  ASSUME GossipInv, NEW n \in Node, NEW h, Broadcast(n, <<NewBlockHashes(h)>>),
         \A i \in DOMAIN control[n] : control[n][i].type = "NewBlockHashes"
  PROVE  \A i \in DOMAIN control'[n] : control'[n][i].type = "NewBlockHashes"
<1>1. PICK e : e = NewBlockHashes(h)
  OBVIOUS
<1>2. e.type = "NewBlockHashes"
  BY <1>1 DEF NewBlockHashes
<1>3. /\ control[n] \in Seq(Sendable(chain, n) \union {e})
      /\ control'[n] = control[n] \o <<e>>
  BY <1>1, SeqMonotonic DEF Broadcast, GossipInv, ControlInv
<1>4. PutIn(control[n], e, control'[n])
  <2>1. control'[n] = Append(control[n], e)
    BY <1>3, AppendIsConcat
  <2>2. QED
    BY <1>3, <2>1 DEF PutIn
<1>5. QED
  BY <1>2, <1>4, TypesAfterSend

LEMMA StatesAfter ==
  ASSUME GossipInv, NEW n \in Node, NEW w \in Worker, NEW c,
         worker' = [worker EXCEPT ![n][w] = c],
         c.state \in {"idle", "busy"},
         \A v \in Worker : worker[n][v].state \in {"idle", "busy"}
  PROVE  \A v \in Worker : worker'[n][v].state \in {"idle", "busy"}
<1>1. worker'[n][w] = c /\ \A v \in Worker \ {w} : worker'[n][v] = worker[n][v]
  BY DEF GossipInv, WorkerInv
<1>2. QED
  BY <1>1

LEMMA CalmAtHandle ==
  ASSUME GossipInv, PipelineInv, SingleWorker, AllPassChecks,
         NEW n \in Node, NEW w \in Worker, Handle(n, w)
  PROVE  CalmAt(n)'
<1>1. CalmInv /\ CalmAt(n)
  BY CalmIsLocal DEF PipelineInv
<1>2. Idle.state = "idle"
  BY DEF Idle
<1>3. ~(PopOrphan(n, w) \/ PassOrphan(n, w) \/ LoopPanics(n, w) \/ EndLoop(n, w)
          \/ WorkerDies(n, w))
  BY <1>1 DEF CalmInv, PopOrphan, PassOrphan, LoopPanics, InLoop, EndLoop, WorkerDies
<1>4. ~KeepOrphan(n, w)
  BY BlockInOrder DEF KeepOrphan, Handles
<1>5. CASE HandleNewBlockHashes(n, w) \/ HandleGetBlocks(n, w) \/ IgnoreBlock(n, w)
  <2>1. Finish(n, w) /\ UNCHANGED <<poisoned, orphans, control>>
    BY <1>5 DEF HandleNewBlockHashes, HandleGetBlocks, IgnoreBlock, storeVars
  <2>2. \A v \in Worker : worker'[n][v].state \in {"idle", "busy"}
    BY <1>1, <1>2, <2>1, StatesAfter DEF CalmAt, Finish
  <2>3. QED
    BY <1>1, <2>1, <2>2 DEF CalmAt
<1>6. CASE AcceptBlock(n, w)
  <2>1. orphans[n][w] = << >>
    BY <1>1 DEF CalmAt
  <2>2. PICK h : h = worker[n][w].msg.block.hash
    OBVIOUS
  <2>3. /\ Finish(n, w) /\ UNCHANGED <<poisoned, orphans>>
        /\ Broadcast(n, <<NewBlockHashes(h)>>)
    BY <1>6, <2>1, <2>2 DEF AcceptBlock
  <2>4. \A v \in Worker : worker'[n][v].state \in {"idle", "busy"}
    BY <1>1, <1>2, <2>3, StatesAfter DEF CalmAt, Finish
  <2>5. \A i \in DOMAIN control'[n] : control'[n][i].type = "NewBlockHashes"
    BY <1>1, <2>3, AnnouncesAfterBroadcast DEF CalmAt
  <2>6. QED
    BY <1>1, <2>3, <2>4, <2>5 DEF CalmAt
<1>7. QED
  BY <1>3, <1>4, <1>5, <1>6 DEF Handle

LEMMA OtherStoreVars ==
  ASSUME GossipInv, CalmInv, NEW n \in Node, NEW k \in Node \ {n},
         \/ Dispatch(k) \/ ReadTip(k) \/ InsertMined(k)
         \/ \E w \in Worker, j \in Node : Take(k, w, j)
         \/ \E w \in Worker : Handle(k, w)
         \/ \E h \in Hash : FindBlock(k, h)
  PROVE  (poisoned[n] <=> poisoned'[n]) /\ orphans'[n] = orphans[n]
<1>1. DOMAIN orphans = Node
  BY DEF GossipInv, OrphanInv
<1>2. CASE \/ Dispatch(k) \/ ReadTip(k) \/ InsertMined(k)
           \/ \E w \in Worker, j \in Node : Take(k, w, j)
           \/ \E h \in Hash : FindBlock(k, h)
  BY <1>2 DEF Dispatch, ReadTip, InsertMined, Take, FindBlock, storeVars
<1>3. ASSUME NEW w \in Worker, Handle(k, w)
      PROVE  (poisoned[n] <=> poisoned'[n]) /\ orphans'[n] = orphans[n]
  <2>1. ~LoopPanics(k, w)
    BY DEF CalmInv, LoopPanics, InLoop
  <2>2. QED
    BY <1>1, <1>3, <2>1
      DEF Handle, HandleNewBlockHashes, HandleGetBlocks, IgnoreBlock, KeepOrphan, AcceptBlock,
          PopOrphan, PassOrphan, EndLoop, WorkerDies, storeVars
<1>4. QED
  BY <1>2, <1>3

LEMMA CalmAtStep ==
  ASSUME GossipInv, PipelineInv, SingleWorker, AllPassChecks, Next, NEW n \in Node
  PROVE  CalmAt(n)'
<1>1. CalmInv /\ CalmAt(n)
  BY CalmIsLocal DEF PipelineInv
<1>2. PICK k \in Node :
        \/ Dispatch(k) \/ ReadTip(k) \/ InsertMined(k)
        \/ \E w \in Worker, j \in Node : Take(k, w, j)
        \/ \E w \in Worker : Handle(k, w)
        \/ \E h \in Hash : FindBlock(k, h)
  BY DEF Next
<1>3. CASE k # n
  <2>1. UNCHANGED <<control[n], worker[n]>>
    BY <1>2, <1>3, OneNodeSteps
  <2>2. (poisoned[n] <=> poisoned'[n]) /\ orphans'[n] = orphans[n]
    BY <1>1, <1>2, <1>3, OtherStoreVars
  <2>3. QED
    BY <1>1, <2>1, <2>2 DEF CalmAt
<1>4. ASSUME Dispatch(n)
      PROVE  CalmAt(n)'
  <2>1. /\ UNCHANGED <<poisoned, orphans, worker>>
        /\ control[n] \in Seq(Sendable(chain, n)) /\ control[n] # << >>
        /\ control'[n] = Tail(control[n])
    BY <1>4 DEF Dispatch, Forward, storeVars, GossipInv, ControlInv
  <2>2. \A i \in DOMAIN control'[n] :
          i + 1 \in DOMAIN control[n] /\ control'[n][i] = control[n][i + 1]
    BY <2>1, Taken
  <2>3. QED
    BY <1>1, <2>1, <2>2 DEF CalmAt
<1>5. ASSUME ReadTip(n) \/ \E h \in Hash : FindBlock(n, h)
      PROVE  CalmAt(n)'
  BY <1>1, <1>5 DEF ReadTip, FindBlock, storeVars, networkVars, CalmAt
<1>6. ASSUME InsertMined(n)
      PROVE  CalmAt(n)'
  <2>1. PICK h : h = Head(finished[n]).hash
    OBVIOUS
  <2>2. Broadcast(n, <<NewBlockHashes(h)>>) /\ UNCHANGED <<poisoned, orphans, worker>>
    BY <1>6, <2>1 DEF InsertMined
  <2>3. \A i \in DOMAIN control'[n] : control'[n][i].type = "NewBlockHashes"
    BY <1>1, <2>2, AnnouncesAfterBroadcast DEF CalmAt
  <2>4. QED
    BY <1>1, <2>2, <2>3 DEF CalmAt
<1>7. ASSUME NEW w \in Worker, NEW j \in Node, Take(n, w, j)
      PROVE  CalmAt(n)'
  <2>1. PICK head : head = Head(link[j][n])
    OBVIOUS
  <2>2. /\ UNCHANGED <<poisoned, orphans, control>>
        /\ worker' = [worker EXCEPT ![n][w] = Busy(j, head)]
    BY <1>7, <2>1 DEF Take, Receive, storeVars
  <2>3. Busy(j, head).state = "busy"
    BY DEF Busy
  <2>4. \A v \in Worker : worker'[n][v].state \in {"idle", "busy"}
    BY <1>1, <2>2, <2>3, StatesAfter DEF CalmAt
  <2>5. QED
    BY <1>1, <2>2, <2>4 DEF CalmAt
<1>8. CASE k = n
  BY <1>2, <1>4, <1>5, <1>6, <1>7, <1>8, CalmAtHandle
<1>9. QED
  BY <1>3, <1>8

(* Messages travel between peers only. *)
LEMMA FromPeersStep ==
  ASSUME GossipInv, CalmInv, Next
  PROVE  FromPeers'
<1>1. SUFFICES ASSUME NEW n \in Node, NEW m \in Node \ Peers[n]
               PROVE  /\ link'[n][m] = << >>
                      /\ \A w \in Worker :
                           worker'[m][w].state = "busy" => worker'[m][w].from # n
  BY DEF FromPeers
<1>2. /\ link[n][m] = << >>
      /\ \A w \in Worker : worker[m][w].state = "busy" => worker[m][w].from # n
      /\ n \notin Peers[m]
  BY NetworkAssumption DEF CalmInv
<1>3. /\ DOMAIN link = Node /\ \A j \in Node : DOMAIN link[j] = Node
      /\ DOMAIN worker = Node /\ \A j \in Node : DOMAIN worker[j] = Worker
  BY DEF GossipInv, LinkInv, WorkerInv
<1>4. ASSUME NEW k \in Node, Dispatch(k)
      PROVE  link'[n][m] = << >> /\ worker' = worker
  BY <1>2, <1>3, <1>4 DEF Dispatch, Forward
<1>5. ASSUME NEW k \in Node, ReadTip(k) \/ InsertMined(k) \/ \E h \in Hash : FindBlock(k, h)
      PROVE  link'[n][m] = << >> /\ worker' = worker
  BY <1>2, <1>5 DEF ReadTip, InsertMined, FindBlock, networkVars
<1>6. ASSUME NEW k \in Node, NEW w \in Worker, NEW j \in Node, Take(k, w, j)
      PROVE  /\ link'[n][m] = << >>
             /\ \A v \in Worker : worker'[m][v].state = "busy" => worker'[m][v].from # n
  <2>1. PICK head : head = Head(link[j][k])
    OBVIOUS
  <2>2. /\ link[j][k] # << >>
        /\ worker' = [worker EXCEPT ![k][w] = Busy(j, head)]
        /\ link' = [link EXCEPT ![j][k] = Tail(@)]
    BY <1>6, <2>1 DEF Take, Receive
  <2>3. <<j, k>> # <<n, m>>
    BY <1>2, <2>2
  <2>4. link'[n][m] = link[n][m]
    BY <1>3, <2>2, <2>3
  <2>5. ASSUME NEW v \in Worker, worker'[m][v].state = "busy"
        PROVE  worker'[m][v].from # n
    <3>1. CASE m = k /\ v = w
      <4>1. worker'[m][v] = Busy(j, head)
        BY <1>3, <2>2, <3>1
      <4>2. QED
        BY <2>3, <3>1, <4>1 DEF Busy
    <3>2. CASE ~(m = k /\ v = w)
      <4>1. worker'[m][v] = worker[m][v]
        BY <1>3, <2>2, <3>2
      <4>2. QED
        BY <1>2, <2>5, <4>1
    <3>3. QED
      BY <3>1, <3>2
  <2>6. QED
    BY <1>2, <2>4, <2>5
<1>7. ASSUME NEW k \in Node, NEW w \in Worker, Handle(k, w)
      PROVE  /\ link'[n][m] = << >>
             /\ \A v \in Worker : worker'[m][v].state = "busy" => worker'[m][v].from # n
  <2>1. /\ worker[k][w].from \in Node /\ worker[k][w].from \in Peers[k]
    <3>1. worker[k][w].state # "idle"
      BY <1>7 DEF Handle, HandleNewBlockHashes, HandleGetBlocks, IgnoreBlock, KeepOrphan,
        AcceptBlock, PopOrphan, PassOrphan, LoopPanics, InLoop, EndLoop, WorkerDies,
        Handles, WorksOn
    <3>2. QED
      BY <3>1, CalmWork
  <2>2. \/ UNCHANGED link
        \/ \E e : Write(k, worker[k][w].from, e)
    BY <1>7 DEF Handle, HandleNewBlockHashes, HandleGetBlocks, IgnoreBlock, KeepOrphan,
      AcceptBlock, PopOrphan, PassOrphan, LoopPanics, EndLoop, WorkerDies
  <2>3. link'[n][m] = link[n][m]
    BY <1>3, <2>1, <2>2 DEF Write
  <2>4. \E c : worker' = [worker EXCEPT ![k][w] = c] /\ c.state # "busy"
    <3>1. Idle.state # "busy" /\ Dead.state # "busy"
      BY DEF Idle, Dead
    <3>2. \A h, at, last, removed : Popping(h, at, last, removed).state # "busy"
      BY DEF Popping
    <3>3. CASE PopOrphan(k, w) \/ PassOrphan(k, w)
      BY <3>3 DEF CalmInv, PopOrphan, PassOrphan, InLoop
    <3>4. CASE AcceptBlock(k, w)
      BY <3>1, <3>4 DEF CalmInv, AcceptBlock, Finish
    <3>5. CASE ~(PopOrphan(k, w) \/ PassOrphan(k, w) \/ AcceptBlock(k, w))
      BY <1>7, <3>1, <3>5 DEF Handle, HandleNewBlockHashes, HandleGetBlocks, IgnoreBlock,
        KeepOrphan, LoopPanics, EndLoop, WorkerDies, Finish
    <3>6. QED
      BY <3>3, <3>4, <3>5
  <2>5. PICK c : worker' = [worker EXCEPT ![k][w] = c] /\ c.state # "busy"
    BY <2>4
  <2>6. \A v \in Worker : worker'[m][v] = c \/ worker'[m][v] = worker[m][v]
    BY <1>3, <2>5
  <2>7. QED
    BY <1>2, <2>3, <2>5, <2>6
<1>8. QED
  BY <1>2, <1>4, <1>5, <1>6, <1>7 DEF Next

LEMMA PairInit ==
  ASSUME Init, AllStartAnew
  PROVE  PipelineInv
<1>1. /\ \A n \in Node : control[n] = << >> /\ ~poisoned[n]
      /\ \A n \in Node, m \in Node : link[n][m] = << >>
      /\ \A n \in Node, w \in Worker : worker[n][w] = Idle /\ orphans[n][w] = << >>
  BY DEF Init, InitNetwork
<1>2. Idle.state = "idle"
  BY DEF Idle
<1>3. DOMAIN << >> = {}
  OBVIOUS
<1>4. \A n \in Node, m \in Node : Stored(n) = Stored(m)
  BY DEF Init, AllStartAnew, Stored
<1>5. \A n \in Node : \A from, type : Working(worker[n], from, type) = {}
  <2>1. \A from, type : Works(Idle, from, type) = {}
    BY DEF Works, Idle
  <2>2. QED
    BY <1>1, <2>1 DEF Working
<1>6. \A type : /\ Queued(<< >>, type) = {}
                /\ \A stored, ahead : InOrder(<< >>, type, stored, ahead)
  BY <1>3 DEF Queued, InOrder
<1>7. ASSUME NEW n \in Node, NEW m \in Node
      PROVE  PairInv(n, m)
  <2>1. Stored(n) \subseteq Due(n, m)
    BY <1>4 DEF Due, Told, Heard, Asked, Served, Answered, Delivered
  <2>2. QED
    BY <1>1, <1>5, <1>6, <2>1 DEF PairInv
<1>8. CalmInv
  BY <1>1, <1>2, <1>3 DEF CalmInv
<1>9. QED
  BY <1>7, <1>8, PeersAreOthers DEF PipelineInv

LEMMA PipelineStep ==
  ASSUME SingleWorker, AllPassChecks, GossipInv, FreshInv, PipelineInv, [Next]_vars
  PROVE  PipelineInv'
<1>1. CASE UNCHANGED vars
  <2>1. UNCHANGED <<control, link, worker, chain, poisoned, orphans>>
    BY <1>1 DEF vars, networkVars, storeVars
  <2>2. ASSUME NEW n \in Node, NEW m \in Node
        PROVE  PairInv(n, m) => PairInv(n, m)'
    BY <2>1, PairUnmoved DEF networkVars
  <2>3. CalmInv'
    BY <2>1 DEF PipelineInv, CalmInv
  <2>4. QED
    BY <2>2, <2>3, PeersAreOthers DEF PipelineInv
<1>2. CASE Next
  <2>1. \A n \in Node : \A m \in Peers[n] : PairInv(n, m)'
    BY <1>2, PairStep
  <2>2. \A n \in Node : CalmAt(n)'
    BY <1>2, CalmAtStep
  <2>3. FromPeers'
    BY <1>2, FromPeersStep DEF PipelineInv
  <2>4. CalmInv'
    BY <2>2, <2>3 DEF CalmInv, CalmAt, FromPeers
  <2>5. QED
    BY <2>1, <2>4 DEF PipelineInv
<1>3. QED
  BY <1>1, <1>2

(* Nodes that start with the genesis block, have one network worker each    *)
(* and mine by the rules never see a block before its parent, however many  *)
(* they are and however they are connected: the orphan handling of          *)
(* worker_loop in src/network/worker.rs is for several workers and for      *)
(* nodes that join late.                                                    *)
THEOREM GossipNoBlockBeforeParent ==
  ASSUME SingleWorker, AllStartAnew, AllPassChecks
  PROVE  Spec => []NoBlockBeforeParent
<1>1. Init => PipelineInv
  BY PairInit
<1>2. GossipInv /\ (MutexInv /\ FreshInv) /\ PipelineInv /\ [Next]_vars => PipelineInv'
  BY PipelineStep
<1>3. PipelineInv => NoBlockBeforeParent
  BY DEF PipelineInv, CalmInv, NoBlockBeforeParent
<1>4. QED
  BY <1>1, <1>2, <1>3, GossipInvariant, GossipMutexAndFresh, PTL DEF Spec

================================================================================
