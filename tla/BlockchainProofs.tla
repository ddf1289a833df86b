---------------------------- MODULE BlockchainProofs ----------------------------
(***************************************************************************)
(* Safety of the block store, and its refinement of the longest-chain rule, *)
(* for every set of headers and of transactions.                            *)
(*                                                                         *)
(* The inductive invariant is ChainInv(chain): none of its three parts is   *)
(* inductive alone, since insert() compares a height it computes from a     *)
(* cached one.  The refinement rests on the fact that the cached heights    *)
(* are the true depths (HeightsAreDepths in ChainTheorems).                 *)
(***************************************************************************)
EXTENDS Blockchain, ChainTheorems

StoreInv == ChainInv(chain)

LEMMA StoreInit == Init => StoreInv
  BY NewChainInv DEF Init, StoreInv

LEMMA StoreStep == StoreInv /\ [Next]_chain => StoreInv'
<1>1. CASE UNCHANGED chain
  BY <1>1 DEF StoreInv
<1>2. ASSUME StoreInv, NEW block \in Block, Insert(block)
      PROVE  StoreInv'
  BY <1>2, InsertedInv DEF StoreInv, Insert
<1> QED
  BY <1>1, <1>2 DEF Next

(* The invariant of the block store, from which the next four follow.       *)
THEOREM StoreInvariant == Spec => []StoreInv
  BY StoreInit, StoreStep, PTL DEF Spec

(* The maps blocks and heights always have the same keys, and tip is one.   *)
THEOREM StoreTypeCorrect == Spec => []TypeOK
<1>1. StoreInv => TypeOK
  BY DEF StoreInv, ChainInv, TypeOK
<1>2. QED
  BY <1>1, StoreInvariant, PTL

(* Every stored block hangs from genesis at its cached height, so the       *)
(* unwraps of insert() and all_blocks_in_longest_chain() find their keys.   *)
THEOREM StoreStaysRooted == Spec => []StoreRooted
<1>1. StoreInv => StoreRooted
  BY DEF StoreInv, ChainInv, StoreRooted
<1>2. QED
  BY <1>1, StoreInvariant, PTL

(* The tip is always the end of a longest chain.                            *)
THEOREM StoreTipIsLongest == Spec => []TipIsLongest
<1>1. StoreInv => TipIsLongest
  BY DEF StoreInv, ChainInv, TipIsLongest
<1>2. QED
  BY <1>1, StoreInvariant, PTL

(* all_blocks_in_longest_chain() always returns a path from genesis to the  *)
(* tip: none of its height steps along the parent field misses a key.       *)
THEOREM StoreLongestChainIsPath == Spec => []LongestChainIsPath
<1>1. StoreInv => LongestChainIsPath
  BY LongestChainIsAPath DEF StoreInv, ChainInv, LongestChainIsPath
<1>2. QED
  BY <1>1, StoreInvariant, PTL

(* The tip moves only to a block exactly one higher.                        *)
THEOREM StoreTipKeptUntilOvertaken == Spec => TipKeptUntilOvertaken
<1>1. StoreInv /\ [Next]_chain =>
        [chain'.tip # chain.tip =>
           chain'.heights[chain'.tip] = chain.heights[chain.tip] + 1]_chain
  <2>1. SUFFICES ASSUME StoreInv, NEW block \in Block, Insert(block),
                        chain'.tip # chain.tip
                 PROVE  chain'.heights[chain'.tip] = chain.heights[chain.tip] + 1
    BY DEF Next
  <2>2. QED
    BY <2>1, InsertedTip DEF StoreInv, Insert
<1>2. QED
  BY <1>1, StoreInvariant, PTL DEF Spec, TipKeptUntilOvertaken

--------------------------------------------------------------------------------
(* Refinement of the longest-chain rule *)

LEMMA RuleInit == Init => Rule!Init
  BY DEF Init, NewChain, Put, Rule!Init

LEMMA RuleStep == StoreInv /\ [Next]_chain => [Rule!Next]_(Rule!vars)
<1>1. CASE UNCHANGED chain
  BY <1>1 DEF Rule!vars
<1>2. ASSUME StoreInv, NEW block \in Block, Insert(block)
      PROVE  Rule!Next
  <2>1. /\ block.hash \in Hash \ {Genesis} /\ Parent[block.hash] \in DOMAIN chain.blocks
        /\ DOMAIN chain'.blocks = DOMAIN chain.blocks \union {block.hash}
        /\ chain'.tip \in Deepest(DOMAIN chain'.blocks)
        /\ chain.tip \in Deepest(DOMAIN chain'.blocks) => chain'.tip = chain.tip
    BY <1>2, InsertFollowsRule DEF StoreInv, Insert
  <2>2. Rule!Grow(block.hash)
    BY <2>1 DEF Rule!Grow, Rule!Deepest, Deepest
  <2> QED
    BY <2>1, <2>2 DEF Rule!Next
<1> QED
  BY <1>1, <1>2 DEF Next

(* The block store implements the longest-chain rule.                       *)
THEOREM StoreImplementsRule == Spec => ImplementsRule
  BY RuleInit, RuleStep, StoreInvariant, PTL
    DEF Spec, ImplementsRule, Rule!Spec

================================================================================
