------------------------------ MODULE BlockGossip ------------------------------
(***************************************************************************)
(* Nodes that mine blocks and spread them: announce, request, deliver.      *)
(* Composes, for every node, the miner thread (src/miner/mod.rs), the       *)
(* miner's worker thread (src/miner/worker.rs), the network worker threads  *)
(* (src/network/worker.rs) and the server that broadcasts                   *)
(* (src/network/server.rs).                                                 *)
(*                                                                         *)
(* The blocks carry no transactions (the transaction generators are not     *)
(* started) and every header that is mined satisfies the proof of work.     *)
(* Then every message holds one hash or one block: the miner's worker       *)
(* announces one block, and every arm of worker_loop answers a message of   *)
(* one element with messages of one element.                                *)
(***************************************************************************)
EXTENDS BlockHandling, Network

CONSTANTS
  Miners,  \* the nodes whose miner is running
  Start    \* Start[n]: the block store of n when the connections are made

ASSUME GossipAssumption ==
  /\ Miners \subseteq Node
  /\ DOMAIN Start = Node
  /\ \A n \in Node : ChainInv(Start[n])

VARIABLES
  chain,     \* chain[n]: the block store of n, behind its mutex
  poisoned,  \* poisoned[n]: a thread of n has panicked while it held the mutex
  orphans,   \* orphans[n][w]: the orphan buffer, local to a worker thread
  mining,    \* mining[n]: the tips that the miner of n has read (one or none)
  finished,  \* finished[n]: finished_block_chan, from the miner to its worker
  mined      \* the hashes of the headers that have been mined

storeVars == <<chain, poisoned, orphans>>
minerVars == <<mining, finished, mined>>
vars == <<networkVars, storeVars, minerVars>>

NewBlockHashes(h) == [type |-> "NewBlockHashes", hash |-> h]
GetBlocks(h) == [type |-> "GetBlocks", hash |-> h]
Blocks(b) == [type |-> "Blocks", block |-> b]

(* A worker in the loop over its orphan buffer that follows the insertion   *)
(* of the block with this hash: it looks at the orphan with number at, the  *)
(* buffer had last orphans when the loop began.                             *)
Popping(h, at, last, removed) ==
  [state |-> "popping", hash |-> h, at |-> at, last |-> last, removed |-> removed]

Init ==
  /\ InitNetwork
  /\ chain = Start
  /\ poisoned = [n \in Node |-> FALSE]
  /\ orphans = [n \in Node |-> [w \in Worker |-> << >>]]
  /\ mining = [n \in Node |-> {}]
  /\ finished = [n \in Node |-> << >>]
  /\ mined = UNION {DOMAIN Start[n].blocks : n \in Node}

--------------------------------------------------------------------------------
(* The server and the network worker threads *)

Dispatch(n) == Forward(n) /\ UNCHANGED <<storeVars, minerVars>>

Take(n, w, m) == Receive(n, w, m) /\ UNCHANGED <<storeVars, minerVars>>

(* The mutex of the store can be locked, and nobody panicked holding it.    *)
(* Every critical section but the loop over the orphans is one action.      *)
ChainIsFree(n) ==
  /\ \A w \in Worker : worker[n][w].state # "popping"
  /\ ~poisoned[n]

Handles(n, w, type) == WorksOn(n, w, type) /\ ChainIsFree(n)

HandleNewBlockHashes(n, w) ==
  /\ Handles(n, w, "NewBlockHashes")
  /\ LET h == worker[n][w].msg.hash
     IN  IF HasBlock(chain[n], h)
           THEN UNCHANGED link
           ELSE Write(n, worker[n][w].from, GetBlocks(h))
  /\ Finish(n, w)
  /\ UNCHANGED <<storeVars, control, minerVars>>

HandleGetBlocks(n, w) ==
  /\ Handles(n, w, "GetBlocks")
  /\ LET h == worker[n][w].msg.hash
     IN  IF HasBlock(chain[n], h)
           THEN Write(n, worker[n][w].from, Blocks(chain[n].blocks[h]))
           ELSE UNCHANGED link
  /\ Finish(n, w)
  /\ UNCHANGED <<storeVars, control, minerVars>>

(* The block is in the store already, or fails a check. *)
IgnoreBlock(n, w) ==
  /\ Handles(n, w, "Blocks")
  /\ Disposition(chain[n], worker[n][w].msg.block) \notin {"orphan", "accepted"}
  /\ Finish(n, w)
  /\ UNCHANGED <<storeVars, control, link, minerVars>>

(* The parent is missing: keep the block, ask every peer for the parent.    *)
KeepOrphan(n, w) ==
  /\ Handles(n, w, "Blocks")
  /\ LET block == worker[n][w].msg.block
     IN  /\ Disposition(chain[n], block) = "orphan"
         /\ orphans' = [orphans EXCEPT ![n][w] = Append(@, block)]
         /\ Broadcast(n, <<GetBlocks(Parent[block.hash])>>)
  /\ Finish(n, w)
  /\ UNCHANGED <<chain, poisoned, link, minerVars>>

(* A faulty worker leaves it to the miner's node to announce a block.       *)
AcceptBlockQuietly(n, w) ==
  /\ Handles(n, w, "Blocks")
  /\ LET block == worker[n][w].msg.block
     IN  /\ Disposition(chain[n], block) = "accepted"
         /\ chain' = [chain EXCEPT ![n] = Inserted(@, block)]
  /\ Finish(n, w)
  /\ UNCHANGED <<poisoned, orphans, control, link, minerVars>>

(* Insert the block, and announce it after the loop over the orphan buffer. *)
AcceptBlock(n, w) ==
  /\ Handles(n, w, "Blocks")
  /\ LET block == worker[n][w].msg.block
     IN  /\ Disposition(chain[n], block) = "accepted"
         /\ chain' = [chain EXCEPT ![n] = Inserted(@, block)]
         /\ \/ /\ orphans[n][w] = << >>
               /\ Broadcast(n, <<NewBlockHashes(block.hash)>>)
               /\ Finish(n, w)
            \/ /\ orphans[n][w] # << >>
               /\ worker' = [worker EXCEPT ![n][w] =
                     Popping(block.hash, 1, Len(orphans[n][w]), FALSE)]
               /\ UNCHANGED control
  /\ UNCHANGED <<poisoned, orphans, link, minerVars>>

(* The index is corrected by one once an orphan has been removed, however   *)
(* many have been.                                                          *)
OrphanIndex(n, w) ==
  IF worker[n][w].removed THEN worker[n][w].at - 1 ELSE worker[n][w].at

InLoop(n, w) ==
  /\ worker[n][w].state = "popping"
  /\ worker[n][w].at <= worker[n][w].last

(* The orphan is a child of the block: it leaves the buffer, to be sent to  *)
(* every peer.                                                              *)
PopOrphan(n, w) ==
  /\ InLoop(n, w)
  /\ LET i == OrphanIndex(n, w)
         buffer == orphans[n][w]
     IN  /\ i <= Len(buffer)
         /\ Parent[buffer[i].hash] = worker[n][w].hash
         /\ orphans' = [orphans EXCEPT ![n][w] = RemoveAt(buffer, i)]
         /\ Broadcast(n, <<Blocks(buffer[i])>>)
         /\ worker' = [worker EXCEPT ![n][w] =
               Popping(@.hash, @.at + 1, @.last, TRUE)]
  /\ UNCHANGED <<chain, poisoned, link, minerVars>>

(* The orphan stays in the buffer. *)
PassOrphan(n, w) ==
  /\ InLoop(n, w)
  /\ LET i == OrphanIndex(n, w)
         buffer == orphans[n][w]
     IN  i <= Len(buffer) /\ Parent[buffer[i].hash] # worker[n][w].hash
  /\ worker' = [worker EXCEPT ![n][w] =
        Popping(@.hash, @.at + 1, @.last, @.removed)]
  /\ UNCHANGED <<storeVars, control, link, minerVars>>

(* The index is past the end of the buffer: the thread panics while it has  *)
(* the mutex, which is poisoned.                                            *)
LoopPanics(n, w) ==
  /\ InLoop(n, w)
  /\ OrphanIndex(n, w) > Len(orphans[n][w])
  /\ poisoned' = [poisoned EXCEPT ![n] = TRUE]
  /\ worker' = [worker EXCEPT ![n][w] = Dead]
  /\ UNCHANGED <<chain, orphans, control, link, minerVars>>

EndLoop(n, w) ==
  /\ worker[n][w].state = "popping"
  /\ worker[n][w].at > worker[n][w].last
  /\ Broadcast(n, <<NewBlockHashes(worker[n][w].hash)>>)
  /\ Finish(n, w)
  /\ UNCHANGED <<storeVars, link, minerVars>>

(* lock().unwrap() on a poisoned mutex ends the thread. *)
WorkerDies(n, w) ==
  /\ worker[n][w].state = "busy"
  /\ poisoned[n]
  /\ worker' = [worker EXCEPT ![n][w] = Dead]
  /\ UNCHANGED <<storeVars, control, link, minerVars>>

Handle(n, w) ==
  \/ HandleNewBlockHashes(n, w)
  \/ HandleGetBlocks(n, w)
  \/ IgnoreBlock(n, w)
  \/ KeepOrphan(n, w)
  \/ AcceptBlock(n, w)
  \/ PopOrphan(n, w)
  \/ PassOrphan(n, w)
  \/ LoopPanics(n, w)
  \/ EndLoop(n, w)
  \/ WorkerDies(n, w)

--------------------------------------------------------------------------------
(* The miner thread and its worker thread *)

(* The top of miner_loop: read the tip of the longest chain. *)
ReadTip(n) ==
  /\ n \in Miners
  /\ ChainIsFree(n)
  /\ mining' = [mining EXCEPT ![n] = {chain[n].tip}]
  /\ UNCHANGED <<storeVars, networkVars, finished, mined>>

(* A faulty miner announces its block before the worker has inserted it.    *)
FindBlockAndAnnounce(n, h) ==
  /\ Parent[h] \in mining[n]
  /\ h \notin mined
  /\ mined' = mined \union {h}
  /\ finished' = [finished EXCEPT ![n] = Append(@, [hash |-> h, txs |-> {}])]
  /\ mining' = [mining EXCEPT ![n] = {}]
  /\ Broadcast(n, <<NewBlockHashes(h)>>)
  /\ UNCHANGED <<storeVars, link, worker>>

(* The rest of the turn finds a block on the tip it read at the top.  A     *)
(* turn that finds none changes nothing.                                    *)
FindBlock(n, h) ==
  /\ Parent[h] \in mining[n]
  /\ h \notin mined
  /\ mined' = mined \union {h}
  /\ finished' = [finished EXCEPT ![n] = Append(@, [hash |-> h, txs |-> {}])]
  /\ mining' = [mining EXCEPT ![n] = {}]
  /\ UNCHANGED <<storeVars, networkVars>>

(* The miner's worker inserts the oldest finished block and announces it,   *)
(* both under the mutex.                                                    *)
InsertMined(n) ==
  /\ finished[n] # << >>
  /\ ChainIsFree(n)
  /\ LET block == Head(finished[n])
     IN  /\ chain' = [chain EXCEPT ![n] = Inserted(@, block)]
         /\ Broadcast(n, <<NewBlockHashes(block.hash)>>)
  /\ finished' = [finished EXCEPT ![n] = Tail(@)]
  /\ UNCHANGED <<poisoned, worker, orphans, link, mining, mined>>

--------------------------------------------------------------------------------
Next ==
  \E n \in Node :
    \/ Dispatch(n)
    \/ \E w \in Worker, m \in Node : Take(n, w, m)
    \/ \E w \in Worker : Handle(n, w)
    \/ ReadTip(n)
    \/ \E h \in Hash : FindBlock(n, h)
    \/ InsertMined(n)

(* The threads that react to what others have sent keep running; nothing    *)
(* makes a miner find a block.                                              *)
Fairness ==
  \A n \in Node :
    /\ WF_vars(Dispatch(n))
    /\ \A w \in Worker : WF_vars(\E m \in Node : Take(n, w, m))
    /\ \A w \in Worker : WF_vars(Handle(n, w))
    /\ WF_vars(InsertMined(n))

Spec == Init /\ [][Next]_vars /\ Fairness

--------------------------------------------------------------------------------
(* Type correctness.                                                        *)
IsMessage(msg) ==
  \/ \E h \in Hash : msg = NewBlockHashes(h)
  \/ \E h \in Hash \union {ZeroHash} : msg = GetBlocks(h)
  \/ \E b \in Block : msg = Blocks(b)

IsCondition(c) ==
  \/ c \in {Idle, Dead}
  \/ /\ c.state = "busy"
     /\ c = Busy(c.from, c.msg)
     /\ c.from \in Node /\ IsMessage(c.msg)
  \/ /\ c.state = "popping"
     /\ c = Popping(c.hash, c.at, c.last, c.removed)
     /\ c.hash \in Hash /\ c.at \in Nat /\ c.last \in Nat /\ c.removed \in BOOLEAN

TypeOK ==
  /\ NetworkTypeOK(IsMessage, IsCondition)
  /\ \A n \in Node : IsChain(chain[n])
  /\ poisoned \in [Node -> BOOLEAN]
  /\ \A n \in Node, w \in Worker : orphans[n][w] \in Seq(Block)
  /\ mining \in [Node -> SUBSET Hash]
  /\ \A n \in Node : finished[n] \in Seq(Block)
  /\ mined \subseteq Hash

(* However blocks are mined, announced and delivered, every node keeps a    *)
(* tree that hangs from genesis, with a tip at the end of a longest chain:  *)
(* the two callers of insert() never present a block without its parent.    *)
StoresSound == \A n \in Node : ChainInv(chain[n])

(* Every step of the network is, for every node, a step of the longest-chain*)
(* rule or none: a node that catches up on old blocks, or that gets a block *)
(* from several peers and workers, gives up the head of its longest chain   *)
(* only for a block that is deeper, and takes no block before its parent.   *)
Rule(n) == INSTANCE LongestChainRule
             WITH tree <- DOMAIN chain[n].blocks, head <- chain[n].tip

NodesFollowRule == [][\A n \in Node : [Rule(n)!Next]_(Rule(n)!vars)]_vars

(* Whoever is told of a block can get it from the node that told: both      *)
(* announcers put the announcement in the queue only after insert(), and    *)
(* blocks are never removed.                                                *)
AnnouncementsAreStored ==
  \A n \in Node : \A msg \in Undelivered(n) :
    msg.type = "NewBlockHashes" => HasBlock(chain[n], msg.hash)

(* Between nodes that start with the genesis block and have one network     *)
(* worker each, no block ever reaches a node before its parent: insertion   *)
(* and announcement are one critical section, and the queues are first-in   *)
(* first-out, so the parents-first order survives every hop.                *)
NoBlockBeforeParent ==
  \A n \in Node, w \in Worker : orphans[n][w] = << >>

(* The blocks that a worker of n has inserted and has yet to announce. *)
Unannounced(n) ==
  {worker[n][w].hash : w \in {v \in Worker : worker[n][v].state = "popping"}}

(* What the last message that this step queues at the server announces. *)
NewlyAnnounced(n) ==
  {h \in Hash : /\ Len(control'[n]) > Len(control[n])
                /\ Last(control'[n]) = NewBlockHashes(h)}

(* The blocks that join the store are the blocks that are announced: no     *)
(* node announces a block twice, even when two workers have fetched it from *)
(* two peers, and none keeps a block to itself, unless a worker panics.     *)
AnnouncedWhenInserted ==
  [][\A n \in Node :
       poisoned'[n] = poisoned[n] =>
         Unannounced(n) \union (DOMAIN chain'[n].blocks \ DOMAIN chain[n].blocks) =
           NewlyAnnounced(n) \union Unannounced(n)']_vars

(* The comment above the orphan loop: if a processed block is the parent of *)
(* a block in the worker's orphan buffer, that block is processed; so the   *)
(* parent of a block that stays in the buffer is not stored.                *)
OrphansWaitForParent ==
  \A n \in Node, w \in Worker : \A i \in DOMAIN orphans[n][w] :
    HasBlock(chain[n], Parent[orphans[n][w][i].hash]) =>
      worker[n][w].state = "popping"

(* Consensus: once mining stops, all nodes come to store the same tree.     *)
NodesConverge ==
  <>[](\A m, n \in Node : DOMAIN chain[m].blocks = DOMAIN chain[n].blocks)

================================================================================
