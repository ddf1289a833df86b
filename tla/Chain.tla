--------------------------------- MODULE Chain ---------------------------------
(***************************************************************************)
(* The block store of a node: struct Blockchain of src/blockchain/mod.rs.   *)
(*                                                                         *)
(* The store is a record, not a variable, so that a specification may keep  *)
(* one per node.  The operators below are the methods of the struct; every  *)
(* caller runs a method while it holds the store's mutex, so a method is    *)
(* one step of its caller.                                                  *)
(*                                                                         *)
(* A block is identified by the SHA-256 hash of its header.  The hash is    *)
(* taken to be collision free, so the parent field of a header is a         *)
(* function of the header's hash (constant Parent).  The content of a block *)
(* is not part of the hash: two blocks may share a hash and differ in txs.  *)
(***************************************************************************)
EXTENDS Naturals, Sequences

CONSTANTS
  Hash,      \* the hashes of the headers that can exist
  Genesis,   \* the hash of the genesis header
  ZeroHash,  \* [0u8; 32], the parent field of the genesis header
  Parent,    \* Parent[h]: the parent field of the header with hash h
  Depth,     \* Depth[h]: how many parent links lead from h to Genesis
  Tx         \* signed transactions, identified by their hash

ASSUME HeaderAssumption ==
  /\ Genesis \in Hash
  /\ ZeroHash \notin Hash
  /\ Parent \in [Hash -> Hash \union {ZeroHash}]
  /\ Parent[Genesis] = ZeroHash

(* A header contains the hash of its parent's header, so the parent links   *)
(* cannot form a cycle and every header has a depth.                        *)
ASSUME DepthAssumption ==
  /\ Depth \in [Hash -> Nat]
  /\ Depth[Genesis] = 0
  /\ \A h \in Hash : Parent[h] \in Hash => Depth[h] = Depth[Parent[h]] + 1

(* struct Block: the header (through its hash) and the content. *)
Block == [hash : Hash, txs : SUBSET Tx]

GenesisBlock == [hash |-> Genesis, txs |-> {}]

(* HashMap::insert, which replaces the value of a key that is present. *)
Put(map, key, value) ==
  [k \in DOMAIN map \union {key} |-> IF k = key THEN value ELSE map[k]]

(* A block store of the right shape, whatever its contents. *)
IsChain(c) ==
  LET D == DOMAIN c.blocks
  IN  /\ D \subseteq Hash
      /\ c \in [blocks : [D -> Block], heights : [D -> Nat], tip : D]

--------------------------------------------------------------------------------
(* The methods of struct Blockchain *)

NewChain ==
  [blocks  |-> Put(<< >>, Genesis, GenesisBlock),
   heights |-> Put(<< >>, Genesis, 0),
   tip     |-> Genesis]

(* blocks.contains_key(&hash) *)
HasBlock(c, hash) == hash \in DOMAIN c.blocks

(* What insert() demands of its caller: heights.get(&parent).unwrap(). *)
CanInsert(c, block) == Parent[block.hash] \in DOMAIN c.heights

HeightOver(c, block) == c.heights[Parent[block.hash]] + 1

(* Faulty variants of insert(): a block that draws level becomes the tip;   *)
(* every block becomes the tip; the height is counted from the tip; no      *)
(* height is cached.                                                        *)
InsertedOnTie(c, block) ==
  LET height == HeightOver(c, block)
  IN  [blocks  |-> Put(c.blocks, block.hash, block),
       heights |-> Put(c.heights, block.hash, height),
       tip     |-> IF height >= c.heights[c.tip] THEN block.hash ELSE c.tip]

InsertedAsTip(c, block) ==
  [blocks  |-> Put(c.blocks, block.hash, block),
   heights |-> Put(c.heights, block.hash, HeightOver(c, block)),
   tip     |-> block.hash]

InsertedOverTip(c, block) ==
  LET height == c.heights[c.tip] + 1
  IN  [blocks  |-> Put(c.blocks, block.hash, block),
       heights |-> Put(c.heights, block.hash, height),
       tip     |-> block.hash]

InsertedWithoutHeight(c, block) ==
  [c EXCEPT !.blocks = Put(@, block.hash, block), !.tip = block.hash]

(* insert(): the tip moves only to a strictly higher block. *)
Inserted(c, block) ==
  LET height == HeightOver(c, block)
  IN  [blocks  |-> Put(c.blocks, block.hash, block),
       heights |-> Put(c.heights, block.hash, height),
       tip     |-> IF height > c.heights[c.tip] THEN block.hash ELSE c.tip]

(* A faulty longest chain: the tip comes first. *)
LongestChainFromTip(c) ==
  LET height == c.heights[c.tip]
      ancestor[i \in 0 .. height] ==
        IF i = 0 THEN c.tip ELSE Parent[c.blocks[ancestor[i - 1]].hash]
  IN  [i \in 1 .. height + 1 |-> c.blocks[ancestor[i - 1]].hash]

(* all_blocks_in_longest_chain(): follow the parent field from the tip as   *)
(* many times as the tip is high, then put genesis first.                   *)
LongestChain(c) ==
  LET height == c.heights[c.tip]
      ancestor[i \in 0 .. height] ==
        IF i = 0 THEN c.tip ELSE Parent[c.blocks[ancestor[i - 1]].hash]
  IN  [i \in 1 .. height + 1 |-> c.blocks[ancestor[height + 1 - i]].hash]

--------------------------------------------------------------------------------
(* What the methods keep true of a store *)

(* Every block hangs from the genesis block: its parent is stored, and its  *)
(* cached height is one more than its parent's.                             *)
Rooted(c) ==
  /\ Genesis \in DOMAIN c.blocks
  /\ c.heights[Genesis] = 0
  /\ \A h \in DOMAIN c.blocks :
       /\ c.blocks[h].hash = h
       /\ h # Genesis =>
            /\ Parent[h] \in DOMAIN c.blocks
            /\ c.heights[h] = c.heights[Parent[h]] + 1

(* No stored block is higher than the tip. *)
TipIsHighest(c) == \A h \in DOMAIN c.blocks : c.heights[h] <= c.heights[c.tip]

ChainInv(c) == IsChain(c) /\ Rooted(c) /\ TipIsHighest(c)

================================================================================
