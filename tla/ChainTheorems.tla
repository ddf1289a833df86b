----------------------------- MODULE ChainTheorems -----------------------------
(***************************************************************************)
(* Facts about the methods of the block store, for every set of headers and *)
(* every store.  They are stated about a store c, not about a variable, so  *)
(* that every specification that keeps stores can use them.                 *)
(* The last ones are about the channels that connect the threads to it.     *)
(***************************************************************************)
EXTENDS Chain, SequenceTheorems, NaturalsInduction, WellFoundedInduction, TLAPS

(* The fields of the store that insert() leaves.                            *)
LEMMA InsertedFields ==
  ASSUME NEW c, NEW block
  PROVE  /\ Inserted(c, block).blocks = Put(c.blocks, block.hash, block)
         /\ Inserted(c, block).heights =
              Put(c.heights, block.hash, HeightOver(c, block))
         /\ Inserted(c, block).tip =
              IF HeightOver(c, block) > c.heights[c.tip]
                THEN block.hash ELSE c.tip
         /\ DOMAIN Inserted(c, block).blocks = DOMAIN c.blocks \union {block.hash}
         /\ DOMAIN Inserted(c, block).heights = DOMAIN c.heights \union {block.hash}
<1>1. /\ Inserted(c, block).blocks = Put(c.blocks, block.hash, block)
      /\ Inserted(c, block).heights =
           Put(c.heights, block.hash, HeightOver(c, block))
      /\ Inserted(c, block).tip =
           IF HeightOver(c, block) > c.heights[c.tip] THEN block.hash ELSE c.tip
  BY DEF Inserted
<1>2. /\ DOMAIN Put(c.blocks, block.hash, block) =
           DOMAIN c.blocks \union {block.hash}
      /\ DOMAIN Put(c.heights, block.hash, HeightOver(c, block)) =
           DOMAIN c.heights \union {block.hash}
  BY DEF Put
<1>3. QED
  BY <1>1, <1>2

(* The components of a well-shaped store.                                   *)
LEMMA ChainFacts ==
  ASSUME NEW c, IsChain(c)
  PROVE  /\ DOMAIN c.blocks \subseteq Hash
         /\ DOMAIN c.heights = DOMAIN c.blocks
         /\ c.tip \in DOMAIN c.blocks
         /\ \A h \in DOMAIN c.blocks : c.blocks[h] \in Block
         /\ \A h \in DOMAIN c.blocks : c.heights[h] \in Nat
  BY DEF IsChain

(* The store a node starts with holds the genesis block, at height 0.       *)
LEMMA NewChainFields ==
  /\ DOMAIN NewChain.blocks = {Genesis}
  /\ DOMAIN NewChain.heights = {Genesis}
  /\ NewChain.blocks[Genesis] = GenesisBlock
  /\ NewChain.heights[Genesis] = 0
  /\ NewChain.tip = Genesis
  BY DEF NewChain, Put

(* The store a node starts with satisfies every invariant.                  *)
LEMMA NewChainInv == ChainInv(NewChain)
<1> DEFINE c == NewChain
<1>1. /\ DOMAIN c.blocks = {Genesis}
      /\ DOMAIN c.heights = {Genesis}
      /\ c.blocks[Genesis] = GenesisBlock
      /\ c.heights[Genesis] = 0
      /\ c.tip = Genesis
  BY NewChainFields
<1>2. GenesisBlock \in Block
  BY HeaderAssumption DEF GenesisBlock, Block
<1>3. IsChain(c)
  <2>1. c.blocks \in [{Genesis} -> Block] /\ c.heights \in [{Genesis} -> Nat]
    BY <1>1, <1>2 DEF NewChain, Put
  <2>2. c = [blocks |-> c.blocks, heights |-> c.heights, tip |-> c.tip]
    BY DEF NewChain
  <2>3. QED
    BY <1>1, <2>1, <2>2, HeaderAssumption DEF IsChain
<1>4. Rooted(c)
  BY <1>1 DEF Rooted, GenesisBlock
<1>5. TipIsHighest(c)
  BY <1>1 DEF TipIsHighest
<1>6. QED
  BY <1>3, <1>4, <1>5 DEF ChainInv

(* A header whose parent is stored is not the genesis header.               *)
LEMMA InsertableIsNotGenesis ==
  ASSUME NEW c, IsChain(c), NEW block \in Block, CanInsert(c, block)
  PROVE  /\ block.hash \in Hash \ {Genesis}
         /\ Parent[block.hash] \in DOMAIN c.blocks
         /\ HeightOver(c, block) \in Nat
  BY ChainFacts, HeaderAssumption DEF CanInsert, HeightOver, Block

(* insert() keeps the shape of the store.                                   *)
LEMMA InsertedIsChain ==
  ASSUME NEW c, IsChain(c), NEW block \in Block, CanInsert(c, block)
  PROVE  IsChain(Inserted(c, block))
<1> DEFINE d == Inserted(c, block)
           D == DOMAIN c.blocks \union {block.hash}
<1>1. D \subseteq Hash
  BY ChainFacts, InsertableIsNotGenesis
<1>2. d.blocks \in [D -> Block]
  BY ChainFacts DEF Inserted, Put
<1>3. d.heights \in [D -> Nat]
  BY ChainFacts, InsertableIsNotGenesis DEF Inserted, Put
<1>4. d.tip \in D
  BY ChainFacts DEF Inserted
<1>5. d = [blocks |-> d.blocks, heights |-> d.heights, tip |-> d.tip]
  BY DEF Inserted
<1>6. DOMAIN d.blocks = D
  BY <1>2
<1>7. QED
  BY <1>1, <1>2, <1>3, <1>4, <1>5, <1>6 DEF IsChain

(* The height insert() caches for a stored block is the one it had.         *)
LEMMA HeightIsStable ==
  ASSUME NEW c, IsChain(c), Rooted(c),
         NEW block \in Block, CanInsert(c, block),
         block.hash \in DOMAIN c.blocks
  PROVE  c.heights[block.hash] = HeightOver(c, block)
  BY InsertableIsNotGenesis DEF Rooted, HeightOver

(* insert() changes no height that is already cached.                       *)
LEMMA HeightsKept ==
  ASSUME NEW c, IsChain(c), Rooted(c),
         NEW block \in Block, CanInsert(c, block)
  PROVE  /\ \A h \in DOMAIN c.blocks :
              Inserted(c, block).heights[h] = c.heights[h]
         /\ Inserted(c, block).heights[block.hash] = HeightOver(c, block)
<1>1. Inserted(c, block).heights[block.hash] = HeightOver(c, block)
  BY DEF Inserted, Put
<1>2. ASSUME NEW h \in DOMAIN c.blocks
      PROVE  Inserted(c, block).heights[h] = c.heights[h]
  <2>1. CASE h = block.hash
    BY <1>1, <2>1, HeightIsStable
  <2>2. CASE h # block.hash
    BY <2>2, ChainFacts DEF Inserted, Put
  <2>3. QED
    BY <2>1, <2>2
<1>3. QED
  BY <1>1, <1>2

(* insert() keeps every block connected to genesis.                         *)
LEMMA InsertedRooted ==
  ASSUME NEW c, IsChain(c), Rooted(c),
         NEW block \in Block, CanInsert(c, block)
  PROVE  Rooted(Inserted(c, block))
<1> DEFINE d == Inserted(c, block)
<1>1. DOMAIN d.blocks = DOMAIN c.blocks \union {block.hash}
  BY InsertedFields
<1>2. Genesis \in DOMAIN d.blocks /\ d.heights[Genesis] = 0
  BY <1>1, HeightsKept DEF Rooted
<1>3. ASSUME NEW h \in DOMAIN d.blocks
      PROVE  d.blocks[h].hash = h
  <2>1. CASE h = block.hash
    BY <2>1 DEF Inserted, Put
  <2>2. CASE h # block.hash
    BY <1>1, <2>2 DEF Inserted, Rooted, Put
  <2>3. QED
    BY <2>1, <2>2
<1>4. ASSUME NEW h \in DOMAIN d.blocks, h # Genesis
      PROVE  /\ Parent[h] \in DOMAIN d.blocks
             /\ d.heights[h] = d.heights[Parent[h]] + 1
  <2>1. CASE h = block.hash
    <3>1. Parent[h] \in DOMAIN c.blocks
      BY <2>1, InsertableIsNotGenesis
    <3>2. d.heights[Parent[h]] = c.heights[Parent[h]]
      BY <3>1, HeightsKept
    <3>3. QED
      BY <1>1, <2>1, <3>1, <3>2, HeightsKept DEF HeightOver
  <2>2. CASE h # block.hash
    <3>1. /\ h \in DOMAIN c.blocks
          /\ Parent[h] \in DOMAIN c.blocks
          /\ c.heights[h] = c.heights[Parent[h]] + 1
      BY <1>1, <1>4, <2>2 DEF Rooted
    <3>2. QED
      BY <1>1, <3>1, HeightsKept
  <2>3. QED
    BY <2>1, <2>2
<1>5. QED
  BY <1>2, <1>3, <1>4 DEF Rooted

(* The new tip is as high as the old one or exactly one block higher, and   *)
(* it is the old tip unless it is higher.                                   *)
LEMMA InsertedTip ==
  ASSUME NEW c, ChainInv(c), NEW block \in Block, CanInsert(c, block)
  PROVE  LET d == Inserted(c, block)
         IN  \/ /\ d.tip = c.tip
                /\ HeightOver(c, block) <= c.heights[c.tip]
                /\ d.heights[d.tip] = c.heights[c.tip]
             \/ /\ d.tip = block.hash
                /\ HeightOver(c, block) = c.heights[c.tip] + 1
                /\ d.heights[d.tip] = c.heights[c.tip] + 1
<1> DEFINE d == Inserted(c, block)
<1>1. IsChain(c) /\ Rooted(c) /\ TipIsHighest(c)
  BY DEF ChainInv
<1>2. HeightOver(c, block) <= c.heights[c.tip] + 1
  <2>1. c.heights[Parent[block.hash]] <= c.heights[c.tip]
    BY <1>1, InsertableIsNotGenesis DEF TipIsHighest
  <2>2. QED
    BY <1>1, <2>1, ChainFacts, InsertableIsNotGenesis DEF HeightOver
<1>3. c.heights[c.tip] \in Nat /\ HeightOver(c, block) \in Nat
  BY <1>1, ChainFacts, InsertableIsNotGenesis
<1>4. CASE HeightOver(c, block) > c.heights[c.tip]
  <2>1. d.tip = block.hash
    BY <1>4, InsertedFields
  <2>2. HeightOver(c, block) = c.heights[c.tip] + 1
    BY <1>2, <1>3, <1>4
  <2>3. QED
    BY <1>1, <2>1, <2>2, HeightsKept
<1>5. CASE ~(HeightOver(c, block) > c.heights[c.tip])
  <2>1. d.tip = c.tip
    BY <1>5, InsertedFields
  <2>2. d.heights[d.tip] = c.heights[c.tip]
    BY <1>1, <2>1, HeightsKept, ChainFacts
  <2>3. QED
    BY <1>3, <1>5, <2>1, <2>2
<1>6. QED
  BY <1>4, <1>5

(* insert() keeps the tip at the end of a longest chain.                    *)
LEMMA InsertedTipIsHighest ==
  ASSUME NEW c, ChainInv(c), NEW block \in Block, CanInsert(c, block)
  PROVE  TipIsHighest(Inserted(c, block))
<1> DEFINE d == Inserted(c, block)
<1>1. IsChain(c) /\ Rooted(c) /\ TipIsHighest(c)
  BY DEF ChainInv
<1>2. SUFFICES ASSUME NEW h \in DOMAIN d.blocks
               PROVE  d.heights[h] <= d.heights[d.tip]
  BY DEF TipIsHighest
<1>3. c.heights[c.tip] \in Nat /\ HeightOver(c, block) \in Nat
  BY <1>1, ChainFacts, InsertableIsNotGenesis
<1>4. /\ c.heights[c.tip] <= d.heights[d.tip]
      /\ HeightOver(c, block) <= d.heights[d.tip]
  BY <1>3, InsertedTip
<1>5. CASE h = block.hash
  BY <1>1, <1>4, <1>5, HeightsKept
<1>6. CASE h # block.hash
  <2>1. h \in DOMAIN c.blocks
    BY <1>6, InsertedFields
  <2>2. d.heights[h] = c.heights[h] /\ c.heights[h] <= c.heights[c.tip]
    BY <1>1, <2>1, HeightsKept DEF TipIsHighest
  <2>3. c.heights[h] \in Nat /\ d.heights[d.tip] \in Nat
    BY <1>1, <1>3, <2>1, ChainFacts, InsertedTip
  <2>4. QED
    BY <1>3, <1>4, <2>2, <2>3
<1>7. QED
  BY <1>5, <1>6

(* insert() keeps all invariants of the store: the one fact the other       *)
(* modules need.                                                            *)
LEMMA InsertedInv ==
  ASSUME NEW c, ChainInv(c), NEW block \in Block, CanInsert(c, block)
  PROVE  ChainInv(Inserted(c, block))
  BY InsertedIsChain, InsertedRooted, InsertedTipIsHighest DEF ChainInv

--------------------------------------------------------------------------------
(* The path that all_blocks_in_longest_chain() returns *)

(* A set of naturals that has 0 and the successor of each of its members    *)
(* has all of them.                                                         *)
LEMMA SetInduction ==
  ASSUME NEW S, 0 \in S, \A n \in Nat : n \in S => n + 1 \in S
  PROVE  Nat \subseteq S
<1> DEFINE T == Nat \ S
<1>1. SUFFICES ASSUME T # {} PROVE FALSE
  OBVIOUS
<1>2. PICK x \in T : \A y \in T : ~(<<y, x>> \in OpToRel(<, Nat))
  BY <1>1, NatLessThanWellFounded, WFMin
<1>3. \A y \in T : ~(y < x)
  BY <1>2 DEF OpToRel
<1>4. x - 1 \in Nat /\ x - 1 \notin T
  BY <1>3
<1>5. QED
  BY <1>4

(* The parent of a block above height 0 is stored, one block lower.         *)
LEMMA ParentIsStored ==
  ASSUME NEW c, IsChain(c), Rooted(c),
         NEW h \in DOMAIN c.blocks, c.heights[h] > 0
  PROVE  /\ Parent[c.blocks[h].hash] \in DOMAIN c.blocks
         /\ c.heights[Parent[c.blocks[h].hash]] = c.heights[h] - 1
<1>1. h # Genesis /\ c.blocks[h].hash = h
  BY DEF Rooted
<1>2. QED
  BY <1>1, ChainFacts DEF Rooted

(* The walk of all_blocks_in_longest_chain(): height steps along the parent *)
(* field, each to a stored block one lower, so that the last finds genesis. *)
Walks(c, walk) ==
  walk = [i \in 0 .. c.heights[c.tip] |->
            IF i = 0 THEN c.tip ELSE Parent[c.blocks[walk[i - 1]].hash]]

(* The walk, step by step.                                                  *)
LEMMA WalkSteps ==
  ASSUME NEW c, c.heights[c.tip] \in Nat, NEW walk, Walks(c, walk)
  PROVE  /\ walk[0] = c.tip
         /\ \A i \in 1 .. c.heights[c.tip] : walk[i] = Parent[c.blocks[walk[i - 1]].hash]
<1> DEFINE step(i) == IF i = 0 THEN c.tip ELSE Parent[c.blocks[walk[i - 1]].hash]
<1>1. walk = [i \in 0 .. c.heights[c.tip] |-> step(i)]
  BY DEF Walks
<1>2. \A i \in 0 .. c.heights[c.tip] : walk[i] = step(i)
  <2> HIDE DEF step
  <2>1. QED
    BY <1>1
<1>3. QED
  BY <1>2

(* Such a walk exists: genesis is not reached before the last step, so each *)
(* step finds a stored parent.                                              *)
LEMMA WalkExists ==
  ASSUME NEW c, IsChain(c), Rooted(c)
  PROVE  \E walk : Walks(c, walk)
<1> DEFINE D == DOMAIN c.blocks
           height == c.heights[c.tip]
           Begins(n, g) == \A i \in 0 .. n :
             /\ g[i] = IF i = 0 THEN c.tip ELSE Parent[c.blocks[g[i - 1]].hash]
             /\ c.heights[g[i]] = height - i
           Starts(n) == \E g \in [0 .. n -> D] : Begins(n, g)
           S == {n \in Nat : n <= height => Starts(n)}
<1>1. c.tip \in D /\ height \in Nat /\ \A h \in D : c.heights[h] \in Nat
  BY ChainFacts
<1>2. 0 \in S
  <2>1. [i \in 0 .. 0 |-> c.tip] \in [0 .. 0 -> D]
    BY <1>1
  <2>2. Begins(0, [i \in 0 .. 0 |-> c.tip])
    BY <1>1
  <2>3. QED
    BY <2>1, <2>2
<1>3. ASSUME NEW n \in Nat, n \in S PROVE n + 1 \in S
  <2>1. SUFFICES ASSUME n + 1 <= height
                 PROVE  Starts(n + 1)
    <3> HIDE DEF Starts
    <3>1. QED
      OBVIOUS
  <2>2. PICK g \in [0 .. n -> D] : Begins(n, g)
    BY <1>1, <1>3, <2>1
  <2> DEFINE next == Parent[c.blocks[g[n]].hash]
             longer == [i \in 0 .. n + 1 |-> IF i = n + 1 THEN next ELSE g[i]]
  <2>3. g[n] \in D /\ c.heights[g[n]] = height - n
    BY <2>2
  <2>4. next \in D /\ c.heights[next] = height - (n + 1)
    <3>1. c.heights[g[n]] > 0
      BY <1>1, <2>1, <2>3
    <3>2. next \in D /\ c.heights[next] = c.heights[g[n]] - 1
      BY <2>3, <3>1, ParentIsStored
    <3>3. QED
      BY <1>1, <2>3, <3>2
  <2>5. longer \in [0 .. n + 1 -> D]
    BY <2>4
  <2>6. \A i \in 0 .. n : longer[i] = g[i]
    OBVIOUS
  <2>7. longer[n + 1] = next
    OBVIOUS
  <2>8. Begins(n + 1, longer)
    <3>1. SUFFICES ASSUME NEW i \in 0 .. n + 1
                   PROVE  /\ longer[i] = IF i = 0 THEN c.tip
                                         ELSE Parent[c.blocks[longer[i - 1]].hash]
                          /\ c.heights[longer[i]] = height - i
      OBVIOUS
    <3> HIDE DEF longer, next
    <3>2. CASE i \in 0 .. n
      <4>1. i # 0 => i - 1 \in 0 .. n
        BY <3>2
      <4>2. longer[i] = g[i] /\ (i # 0 => longer[i - 1] = g[i - 1])
        BY <2>6, <3>2, <4>1
      <4>3. QED
        BY <2>2, <3>2, <4>2
    <3>3. CASE i = n + 1
      <4>1. longer[i - 1] = g[n] /\ i # 0
        BY <2>6, <3>3
      <4>2. QED
        BY <2>4, <2>7, <3>3, <4>1 DEF next
    <3>4. QED
      BY <3>2, <3>3
  <2>9. QED
    BY <2>5, <2>8
<1>4. Starts(height)
  <2>1. Nat \subseteq S
    <3> HIDE DEF S
    <3>1. QED
      BY <1>2, <1>3, SetInduction
  <2>2. QED
    <3> HIDE DEF Starts
    <3>1. QED
      BY <1>1, <2>1
<1>5. PICK g \in [0 .. height -> D] : Begins(height, g)
  BY <1>1, <1>4
<1>6. Walks(c, g)
  BY <1>5 DEF Walks
<1>7. QED
  BY <1>6

(* Every block of the walk is stored, and each step goes down by one.       *)
LEMMA WalkDescends ==
  ASSUME NEW c, IsChain(c), Rooted(c), NEW walk, Walks(c, walk)
  PROVE  \A i \in 0 .. c.heights[c.tip] :
           /\ walk[i] \in DOMAIN c.blocks
           /\ c.heights[walk[i]] = c.heights[c.tip] - i
<1> DEFINE height == c.heights[c.tip]
           S == {i \in Nat : i <= height => /\ walk[i] \in DOMAIN c.blocks
                                            /\ c.heights[walk[i]] = height - i}
<1>1. /\ c.tip \in DOMAIN c.blocks /\ height \in Nat
      /\ \A h \in DOMAIN c.blocks : c.heights[h] \in Nat
  BY ChainFacts
<1>2. walk[0] = c.tip
  BY <1>1, WalkSteps
<1>3. \A i \in 1 .. height : walk[i] = Parent[c.blocks[walk[i - 1]].hash]
  BY <1>1, WalkSteps
<1>4. 0 \in S
  BY <1>1, <1>2
<1>5. ASSUME NEW i \in Nat, i \in S PROVE i + 1 \in S
  <2>1. SUFFICES ASSUME i + 1 <= height
                 PROVE  /\ walk[i + 1] \in DOMAIN c.blocks
                        /\ c.heights[walk[i + 1]] = height - (i + 1)
    OBVIOUS
  <2>2. /\ walk[i] \in DOMAIN c.blocks /\ c.heights[walk[i]] = height - i
        /\ c.heights[walk[i]] > 0
    BY <1>1, <1>5, <2>1
  <2>3. walk[i + 1] = Parent[c.blocks[walk[i]].hash]
    <3>1. i + 1 \in 1 .. height /\ (i + 1) - 1 = i
      BY <1>1, <2>1
    <3>2. QED
      BY <1>3, <3>1
  <2>4. QED
    BY <1>1, <2>2, <2>3, ParentIsStored
<1>6. Nat \subseteq S
  <2> HIDE DEF S
  <2>1. QED
    BY <1>4, <1>5, SetInduction
<1>7. QED
  BY <1>1, <1>6

(* The path that all_blocks_in_longest_chain() returns.                     *)
LEMMA LongestChainWalks ==
  ASSUME NEW c, IsChain(c), Rooted(c)
  PROVE  \E walk :
           /\ Walks(c, walk)
           /\ LongestChain(c) = [i \in 1 .. c.heights[c.tip] + 1 |->
                                   c.blocks[walk[c.heights[c.tip] + 1 - i]].hash]
<1> DEFINE ancestor == CHOOSE walk : Walks(c, walk)
<1>1. Walks(c, ancestor)
  BY WalkExists
<1>2. LongestChain(c) = [i \in 1 .. c.heights[c.tip] + 1 |->
                           c.blocks[ancestor[c.heights[c.tip] + 1 - i]].hash]
  BY DEF LongestChain, Walks
<1>3. QED
  BY <1>1, <1>2

(* It starts at genesis, ends at the tip, leads from parent to child through *)
(* stored blocks only, and is one longer than the tip is high.              *)
LEMMA LongestChainIsAPath ==
  ASSUME NEW c, IsChain(c), Rooted(c)
  PROVE  LET path == LongestChain(c)
         IN  /\ path[1] = Genesis
             /\ path[Len(path)] = c.tip
             /\ \A i \in 2 .. Len(path) : Parent[path[i]] = path[i - 1]
             /\ path \in Seq(DOMAIN c.blocks)
             /\ Len(path) = c.heights[c.tip] + 1
<1> DEFINE path == LongestChain(c)
           height == c.heights[c.tip]
<1>1. PICK walk : Walks(c, walk) /\ path = [i \in 1 .. height + 1 |->
                                             c.blocks[walk[height + 1 - i]].hash]
  BY LongestChainWalks
<1>2. height \in Nat /\ \A h \in DOMAIN c.blocks : c.heights[h] \in Nat
  BY ChainFacts
<1>3. \A i \in 0 .. height : /\ walk[i] \in DOMAIN c.blocks
                             /\ c.heights[walk[i]] = height - i
                             /\ c.blocks[walk[i]].hash = walk[i]
  BY <1>1, WalkDescends DEF Rooted
<1>4. \A i \in 1 .. height + 1 : height + 1 - i \in 0 .. height
  BY <1>2
<1>5. \A i \in 1 .. height + 1 : path[i] = walk[height + 1 - i]
  BY <1>1, <1>3, <1>4
<1>6. path \in Seq(DOMAIN c.blocks) /\ Len(path) = height + 1
  <2>1. path \in [1 .. height + 1 -> DOMAIN c.blocks]
    BY <1>1, <1>3, <1>4
  <2>2. QED
    BY <1>2, <2>1
<1> HIDE DEF path
<1>7. path[1] = Genesis
  <2>1. path[1] = walk[height]
    BY <1>2, <1>5
  <2>2. walk[height] \in DOMAIN c.blocks /\ c.heights[walk[height]] = 0
    BY <1>2, <1>3
  <2>3. \A h \in DOMAIN c.blocks : h # Genesis => c.heights[h] # 0
    BY <1>2 DEF Rooted
  <2>4. QED
    BY <2>1, <2>2, <2>3
<1>8. path[height + 1] = c.tip
  <2>1. path[height + 1] = walk[0]
    BY <1>2, <1>5
  <2>2. QED
    BY <1>1, <1>2, <2>1, WalkSteps
<1>9. ASSUME NEW i \in 2 .. height + 1
      PROVE  Parent[path[i]] = path[i - 1]
  <2> DEFINE k == height + 1 - i
  <2>1. /\ k \in 0 .. height /\ k + 1 \in 1 .. height /\ height + 1 - (i - 1) = k + 1
        /\ i \in 1 .. height + 1 /\ i - 1 \in 1 .. height + 1
    BY <1>2
  <2>2. path[i] = walk[k] /\ path[i - 1] = walk[k + 1]
    BY <1>5, <2>1
  <2>3. \A j \in 1 .. height : walk[j] = Parent[c.blocks[walk[j - 1]].hash]
    BY <1>1, <1>2, WalkSteps
  <2>4. walk[k + 1] = Parent[c.blocks[walk[k]].hash]
    <3>1. (k + 1) - 1 = k
      BY <2>1
    <3>2. QED
      BY <2>1, <2>3, <3>1
  <2>5. QED
    BY <1>3, <2>1, <2>2, <2>4
<1>10. QED
  BY <1>6, <1>7, <1>8, <1>9 DEF path

--------------------------------------------------------------------------------
(* The longest-chain rule *)

Deepest(S) == {h \in S : \A g \in S : Depth[g] <= Depth[h]}

(* The cached heights are the distances from genesis, by induction on them. *)
LEMMA HeightsAreDepths ==
  ASSUME NEW c, IsChain(c), Rooted(c)
  PROVE  \A h \in DOMAIN c.blocks : c.heights[h] = Depth[h]
<1> DEFINE D == DOMAIN c.blocks
           S == {n \in Nat : \A h \in D : c.heights[h] = n => Depth[h] = n}
<1>1. 0 \in S
  <2> SUFFICES ASSUME NEW h \in D, c.heights[h] = 0
               PROVE  Depth[h] = 0
    OBVIOUS
  <2>1. CASE h = Genesis
    BY <2>1, DepthAssumption
  <2>2. CASE h # Genesis
    <3>1. c.heights[h] = c.heights[Parent[h]] + 1 /\ c.heights[Parent[h]] \in Nat
      BY <2>2, ChainFacts DEF Rooted
    <3> QED
      BY <3>1
  <2> QED
    BY <2>1, <2>2
<1>2. ASSUME NEW n \in Nat, n \in S
      PROVE  n + 1 \in S
  <2> SUFFICES ASSUME NEW h \in D, c.heights[h] = n + 1
               PROVE  Depth[h] = n + 1
    OBVIOUS
  <2>1. h # Genesis
    BY DEF Rooted
  <2>2. /\ Parent[h] \in D /\ c.heights[h] = c.heights[Parent[h]] + 1
        /\ c.heights[Parent[h]] \in Nat /\ h \in Hash /\ Parent[h] \in Hash
    BY <2>1, ChainFacts DEF Rooted
  <2>3. c.heights[Parent[h]] = n
    BY <2>2
  <2>4. Depth[Parent[h]] = n
    BY <1>2, <2>2, <2>3
  <2> QED
    BY <2>2, <2>4, DepthAssumption
<1>3. Nat \subseteq S
  <2> HIDE DEF S
  <2> QED
    BY <1>1, <1>2, SetInduction
<1> QED
  BY <1>3, ChainFacts

(* insert() grows the tree by one block, and the tip is a deepest block of  *)
(* the tree that gives way only to a deeper one.                            *)
LEMMA InsertFollowsRule ==
  ASSUME NEW c, ChainInv(c), NEW block \in Block, CanInsert(c, block),
         NEW d, d = Inserted(c, block)
  PROVE  /\ block.hash \in Hash \ {Genesis} /\ Parent[block.hash] \in DOMAIN c.blocks
         /\ DOMAIN d.blocks = DOMAIN c.blocks \union {block.hash}
         /\ d.tip \in Deepest(DOMAIN d.blocks)
         /\ c.tip \in Deepest(DOMAIN d.blocks) => d.tip = c.tip
<1>1. IsChain(c) /\ Rooted(c)
  BY DEF ChainInv
<1>2. ChainInv(d) /\ IsChain(d) /\ Rooted(d) /\ TipIsHighest(d)
  BY InsertedInv DEF ChainInv
<1>3. /\ block.hash \in Hash \ {Genesis} /\ Parent[block.hash] \in DOMAIN c.blocks
  BY <1>1, InsertableIsNotGenesis
<1>4. DOMAIN d.blocks = DOMAIN c.blocks \union {block.hash}
  BY InsertedFields
<1>5. \A h \in DOMAIN d.blocks : d.heights[h] = Depth[h]
  BY <1>2, HeightsAreDepths
<1>6. d.tip \in Deepest(DOMAIN d.blocks)
  BY <1>2, <1>5, ChainFacts DEF TipIsHighest, Deepest
<1>7. ASSUME c.tip \in Deepest(DOMAIN d.blocks)
      PROVE  d.tip = c.tip
  <2>1. Depth[block.hash] <= Depth[c.tip] /\ c.tip \in DOMAIN c.blocks
    BY <1>1, <1>4, <1>7, ChainFacts DEF Deepest
  <2>2. Depth[c.tip] = c.heights[c.tip] /\ c.heights[c.tip] \in Nat
    BY <1>1, <2>1, HeightsAreDepths, ChainFacts
  <2>3. Depth[block.hash] = HeightOver(c, block)
    BY <1>1, <1>4, <1>5, HeightsKept
  <2> QED
    BY <2>1, <2>2, <2>3, InsertedTip
<1> QED
  BY <1>3, <1>4, <1>6, <1>7

--------------------------------------------------------------------------------
(* A first-in first-out channel, position by position, after one element    *)
(* has been put in or taken out.                                            *)

(* Putting an element into a channel leaves the others where they are.      *)
LEMMA Sent ==
  ASSUME NEW S, NEW seq \in Seq(S), NEW e \in S, NEW next, next = Append(seq, e)
  PROVE  /\ next \in Seq(S)
         /\ DOMAIN seq = 1 .. Len(seq) /\ Len(seq) \in Nat
         /\ DOMAIN next = 1 .. (Len(seq) + 1)
         /\ \A k \in DOMAIN seq : next[k] = seq[k]
         /\ next[Len(seq) + 1] = e
         /\ Len(seq) + 1 \notin DOMAIN seq
<1>1. /\ next \in Seq(S) /\ Len(next) = Len(seq) + 1
      /\ \A k \in 1 .. Len(seq) : next[k] = seq[k]
      /\ next[Len(seq) + 1] = e
  BY AppendProperties
<1>2. Len(seq) \in Nat /\ DOMAIN seq = 1 .. Len(seq) /\ DOMAIN next = 1 .. Len(next)
  BY <1>1, LenProperties
<1> QED
  BY <1>1, <1>2

(* Taking the first element out of a channel moves every other forward.     *)
LEMMA Taken ==
  ASSUME NEW S, NEW seq \in Seq(S), seq # << >>, NEW next, next = Tail(seq)
  PROVE  /\ next \in Seq(S)
         /\ 1 \in DOMAIN seq /\ seq[1] = Head(seq) /\ Head(seq) \in S
         /\ \A k \in DOMAIN next :
              k \in Nat /\ k # 0 /\ k + 1 \in DOMAIN seq /\ next[k] = seq[k + 1]
<1>1. /\ Head(seq) \in S /\ next \in Seq(S) /\ Len(next) = Len(seq) - 1
      /\ \A k \in 1 .. Len(next) : next[k] = seq[k + 1]
  BY HeadTailProperties
<1>2. Len(seq) \in Nat /\ DOMAIN seq = 1 .. Len(seq) /\ DOMAIN next = 1 .. Len(next)
  BY <1>1, LenProperties
<1>3. Len(seq) # 0
  BY EmptySeq
<1>4. seq[1] = Head(seq)
  BY <1>2, <1>3
<1> QED
  BY <1>1, <1>2, <1>3, <1>4

================================================================================
