------------------------ MODULE TransactionGossipProofs ------------------------
(***************************************************************************)
(* A node serves what it announces, and announces it once, for any number   *)
(* of nodes, workers and transactions, and for any connections.             *)
(*                                                                         *)
(* As long as no block has taken anything out, the pools only grow, so an   *)
(* announcement that was true when its sender made it stays true on its     *)
(* way, however many workers and channels it passes through.  That nothing  *)
(* is announced twice rests on more: a transaction that its generator's     *)
(* worker still has to take is in no pool and in no answer, so it is new to *)
(* the pool when that worker announces it.                                  *)
(***************************************************************************)
EXTENDS TransactionGossip, SequenceTheorems, FiniteSetTheorems, FunctionTheorems, TLAPS

(* Putting an element into a channel leaves the others where they are.      *)
LEMMA Sent ==
  ASSUME NEW S, NEW seq \in Seq(S), NEW e \in S, NEW next, next = Append(seq, e)
  PROVE  /\ next \in Seq(S)
         /\ DOMAIN seq = 1 .. Len(seq) /\ Len(seq) \in Nat
         /\ DOMAIN next = 1 .. (Len(seq) + 1)
         /\ \A k \in DOMAIN seq : next[k] = seq[k]
         /\ next[Len(seq) + 1] = e
         /\ Len(seq) + 1 \notin DOMAIN seq
<1>1. /\ next \in Seq(S) /\ Len(next) = Len(seq) + 1
      /\ \A k \in 1 .. Len(seq) : next[k] = seq[k]
      /\ next[Len(seq) + 1] = e
  BY AppendProperties
<1>2. Len(seq) \in Nat /\ DOMAIN seq = 1 .. Len(seq) /\ DOMAIN next = 1 .. Len(next)
  BY <1>1, LenProperties
<1> QED
  BY <1>1, <1>2

(* Taking the first element out of a channel moves every other forward.     *)
LEMMA Taken ==
  ASSUME NEW S, NEW seq \in Seq(S), seq # << >>, NEW next, next = Tail(seq)
  PROVE  /\ next \in Seq(S)
         /\ 1 \in DOMAIN seq /\ seq[1] = Head(seq) /\ Head(seq) \in S
         /\ \A k \in DOMAIN next :
              k \in Nat /\ k # 0 /\ k + 1 \in DOMAIN seq /\ next[k] = seq[k + 1]
<1>1. /\ Head(seq) \in S /\ next \in Seq(S) /\ Len(next) = Len(seq) - 1
      /\ \A k \in 1 .. Len(next) : next[k] = seq[k + 1]
  BY HeadTailProperties
<1>2. Len(seq) \in Nat /\ DOMAIN seq = 1 .. Len(seq) /\ DOMAIN next = 1 .. Len(next)
  BY <1>1, LenProperties
<1>3. Len(seq) # 0
  BY EmptySeq
<1>4. seq[1] = Head(seq)
  BY <1>2, <1>3
<1> QED
  BY <1>1, <1>2, <1>3, <1>4

Message ==
  {NewTransactionHashes(t) : t \in Tx}
    \union {GetTransactions(t) : t \in Tx}
    \union {Transactions(t) : t \in Tx}

(* Generated, and in no generator's channel any more. *)
Released == {t \in generated : \A n \in Node : t \notin Range(txChan[n])}

(* What a node with pool p may have sent when the transactions in r have    *)
(* been released and blocks have been included k times: an announcement of  *)
(* what is in its pool, unless blocks take transactions out; any question;  *)
(* an answer with what has been released.                                   *)
Sendable(p, r, k) ==
  {msg \in Message :
     /\ msg.type = "NewTransactionHashes" => msg.tx \in p \/ k > 0
     /\ msg.type = "Transactions" => msg.tx \in r}

MaySend == [n \in Node |-> Sendable(pool[n], Released, inclusions)]

(* A worker works on a message that its sender could send, or is about to   *)
(* send one that its own node can.                                          *)
ConditionInv(may, n, c) ==
  /\ c.state = "busy" => c.from \in Node /\ c.msg \in may[c.from]
  /\ c.state = "answering" => /\ c.to \in Node /\ c.msg \in may[n]
                              /\ c.msg.type # "NewTransactionHashes"
  /\ c.state = "announcing" => c = Announcing(c.msg) /\ c.msg \in may[n]

(* A transaction is in at most one channel, at one place, and is in no pool *)
(* as long as it is in one.                                                 *)
PoolInv ==
  /\ inclusions \in Nat
  /\ pool \in [Node -> SUBSET Released]
  /\ generated \subseteq Tx
  /\ DOMAIN txChan = Node
  /\ \A n \in Node : txChan[n] \in Seq(generated)
  /\ \A n \in Node, m \in Node : \A i \in DOMAIN txChan[n], j \in DOMAIN txChan[m] :
       txChan[n][i] = txChan[m][j] => n = m /\ i = j

ControlInv ==
  /\ DOMAIN control = Node
  /\ \A n \in Node : control[n] \in Seq(MaySend[n])

LinkInv ==
  /\ DOMAIN link = Node
  /\ \A n \in Node : DOMAIN link[n] = Node
  /\ \A n \in Node, m \in Node : link[n][m] \in Seq(MaySend[n])

WorkerInv ==
  /\ DOMAIN worker = Node
  /\ \A n \in Node : DOMAIN worker[n] = Worker
  /\ \A n \in Node, w \in Worker : ConditionInv(MaySend, n, worker[n][w])

GossipInv == PoolInv /\ ControlInv /\ LinkInv /\ WorkerInv

(* The announcements under way of a transaction are no more than its stay   *)
(* in the pool and the blocks that have been included account for.          *)
Budget(n, t) == (IF t \in pool[n] THEN 1 ELSE 0) + inclusions

Deciding(n, t) == {w \in Worker : worker[n][w] = Announcing(NewTransactionHashes(t))}

OnceInv ==
  \A n \in Node, t \in Tx : \A m \in Peers[n] :
    IsFiniteSet(Deciding(n, t)) /\ Announcements(n, m, t) <= Budget(n, t)

--------------------------------------------------------------------------------
LEMMA Messages ==
  /\ \A t \in Tx : \A p, r, k :
       /\ t \in p => NewTransactionHashes(t) \in Sendable(p, r, k)
       /\ GetTransactions(t) \in Sendable(p, r, k)
       /\ t \in r => Transactions(t) \in Sendable(p, r, k)
  /\ \A msg \in Message : msg.tx \in Tx
<1>1. \A t \in Tx : /\ NewTransactionHashes(t) \in Message
                    /\ GetTransactions(t) \in Message
                    /\ Transactions(t) \in Message
  BY DEF Message
<1>2. \A t : /\ NewTransactionHashes(t).tx = t
             /\ NewTransactionHashes(t).type = "NewTransactionHashes"
             /\ GetTransactions(t).type = "GetTransactions"
             /\ Transactions(t).type = "Transactions"
             /\ Transactions(t).tx = t
  BY DEF NewTransactionHashes, GetTransactions, Transactions
<1>3. \A msg \in Message : msg.tx \in Tx
  BY DEF Message, NewTransactionHashes, GetTransactions, Transactions
<1> QED
  BY <1>1, <1>2, <1>3 DEF Sendable

(* What a node may have sent it may have sent for ever: pools grow until a  *)
(* block is included, and what has been released stays so.                  *)
MayGrow == \A n \in Node : MaySend[n] \subseteq MaySend'[n]

LEMMA MayGrows ==
  ASSUME DOMAIN pool = Node, inclusions \in Nat, inclusions' \in Nat,
         Released \subseteq Released', inclusions <= inclusions',
         \A n \in Node : pool[n] \subseteq pool'[n] \/ inclusions' > 0
  PROVE  MayGrow
<1>1. MaySend' = [n \in Node |-> Sendable(pool'[n], Released', inclusions')]
  BY DEF MaySend
<1>2. SUFFICES ASSUME NEW n \in Node
               PROVE  Sendable(pool[n], Released, inclusions)
                        \subseteq Sendable(pool'[n], Released', inclusions')
  BY <1>1 DEF MayGrow, MaySend
<1>3. \A t : t \in pool[n] \/ inclusions > 0 => t \in pool'[n] \/ inclusions' > 0
  OBVIOUS
<1> QED
  BY <1>3 DEF Sendable

LEMMA MayStays ==
  ASSUME UNCHANGED <<pool, generated, txChan, inclusions>>, PoolInv
  PROVE  PoolInv' /\ MaySend' = MaySend /\ MayGrow
<1>1. Released' = Released
  BY DEF Released
<1> QED
  BY <1>1 DEF PoolInv, MaySend, MayGrow

LEMMA StillMay ==
  ASSUME MayGrow, NEW n \in Node
  PROVE  \A s \in Seq(MaySend[n]) : s \in Seq(MaySend'[n])
  BY SeqMonotonic DEF MayGrow

LEMMA ControlStays ==
  ASSUME MayGrow, ControlInv, UNCHANGED control
  PROVE  ControlInv'
  BY StillMay DEF ControlInv

LEMMA ControlAfterBroadcast ==
  ASSUME MayGrow, ControlInv, NEW n \in Node,
         NEW msg \in MaySend'[n], Broadcast(n, <<msg>>)
  PROVE  ControlInv'
<1>1. /\ DOMAIN control' = Node
      /\ control'[n] = control[n] \o <<msg>>
      /\ \A m \in Node \ {n} : control'[m] = control[m]
  BY DEF Broadcast, ControlInv
<1>2. \A m \in Node : control[m] \in Seq(MaySend'[m])
  BY StillMay DEF ControlInv
<1>3. control'[n] \in Seq(MaySend'[n])
  <2>1. control[n] \in Seq(MaySend'[n])
    BY <1>2
  <2>2. Append(control[n], msg) \in Seq(MaySend'[n])
    BY <2>1, AppendProperties
  <2>3. control[n] \o <<msg>> = Append(control[n], msg)
    BY <2>1, AppendIsConcat
  <2> QED
    BY <1>1, <2>2, <2>3
<1> QED
  BY <1>1, <1>2, <1>3 DEF ControlInv

LEMMA LinkStays ==
  ASSUME MayGrow, LinkInv, UNCHANGED link
  PROVE  LinkInv'
  BY StillMay DEF LinkInv

LEMMA WorkersContinue ==
  ASSUME MayGrow, WorkerInv, NEW n \in Node, NEW w \in Worker, NEW c,
         ConditionInv(MaySend', n, c), worker' = [worker EXCEPT ![n][w] = c]
  PROVE  WorkerInv'
<1>1. /\ DOMAIN worker' = Node
      /\ \A k \in Node : DOMAIN worker'[k] = Worker
      /\ worker'[n][w] = c
      /\ \A k \in Node, v \in Worker :
           worker'[k][v] = worker[k][v] \/ (k = n /\ v = w)
  BY DEF WorkerInv
<1>2. ASSUME NEW k \in Node, NEW v \in Worker
      PROVE  ConditionInv(MaySend', k, worker'[k][v])
  <2>1. CASE k = n /\ v = w
    BY <1>1, <2>1
  <2>2. CASE worker'[k][v] = worker[k][v]
    BY <2>2 DEF WorkerInv, ConditionInv, MayGrow
  <2> QED
    BY <1>1, <2>1, <2>2
<1> QED
  BY <1>1, <1>2 DEF WorkerInv

LEMMA WorkersStay ==
  ASSUME MayGrow, WorkerInv, UNCHANGED worker
  PROVE  WorkerInv'
  BY DEF WorkerInv, ConditionInv, MayGrow

LEMMA Conditions ==
  ASSUME NEW may, NEW n \in Node
  PROVE  /\ ConditionInv(may, n, Idle)
         /\ \A m \in Node : \A msg \in may[m] : ConditionInv(may, n, Busy(m, msg))
         /\ \A m \in Node : \A msg \in may[n] :
              msg.type # "NewTransactionHashes" => ConditionInv(may, n, Answering(m, msg))
         /\ \A msg \in may[n] : ConditionInv(may, n, Announcing(msg))
  BY DEF ConditionInv, Idle, Busy, Answering, Announcing

--------------------------------------------------------------------------------
(* What the steps do to the pools and the generators' channels *)

LEMMA GeneratePools ==
  ASSUME PoolInv, NEW n \in Node, NEW t \in Tx, Generate(n, t)
  PROVE  PoolInv' /\ MayGrow
<1>1. /\ t \notin generated /\ generated' = generated \union {t}
      /\ DOMAIN txChan' = Node
      /\ txChan'[n] = Append(txChan[n], t)
      /\ \A m \in Node \ {n} : txChan'[m] = txChan[m]
      /\ UNCHANGED <<pool, inclusions>>
  BY DEF Generate, PoolInv
<1>2. \A m \in Node : txChan[m] \in Seq(generated) /\ txChan[m] \in Seq(generated')
  BY <1>1, SeqMonotonic DEF PoolInv
<1>3. /\ txChan'[n] \in Seq(generated')
      /\ DOMAIN txChan[n] = 1 .. Len(txChan[n]) /\ Len(txChan[n]) \in Nat
      /\ DOMAIN txChan'[n] = 1 .. (Len(txChan[n]) + 1)
      /\ \A i \in DOMAIN txChan[n] : txChan'[n][i] = txChan[n][i]
      /\ txChan'[n][Len(txChan[n]) + 1] = t
  BY <1>1, <1>2, Sent
<1>4. \A m \in Node : \A i \in DOMAIN txChan[m] : txChan[m][i] \in generated
  BY <1>2
<1>5. \A m \in Node : \A i \in DOMAIN txChan'[m] :
        \/ i \in DOMAIN txChan[m] /\ txChan'[m][i] = txChan[m][i]
        \/ m = n /\ i = Len(txChan[n]) + 1 /\ txChan'[m][i] = t
  BY <1>1, <1>3
<1>6. Released' = Released
  <2>1. \A m \in Node : t \notin Range(txChan[m])
    BY <1>1, <1>4 DEF Range
  <2>2. Range(txChan'[n]) = Range(txChan[n]) \union {t}
    <3>1. Range(txChan'[n]) \subseteq Range(txChan[n]) \union {t}
      BY <1>5 DEF Range
    <3>2. Len(txChan[n]) + 1 \in DOMAIN txChan'[n] /\ DOMAIN txChan[n] \subseteq DOMAIN txChan'[n]
      BY <1>3
    <3>3. Range(txChan[n]) \union {t} \subseteq Range(txChan'[n])
      BY <1>3, <3>2 DEF Range
    <3> QED
      BY <3>1, <3>3
  <2> QED
    BY <1>1, <2>1, <2>2 DEF Released
<1>7. \A k \in Node, m \in Node : \A i \in DOMAIN txChan'[k], j \in DOMAIN txChan'[m] :
        txChan'[k][i] = txChan'[m][j] => k = m /\ i = j
  BY <1>1, <1>4, <1>5 DEF PoolInv
<1>8. \A m \in Node : txChan'[m] \in Seq(generated')
  BY <1>1, <1>2, <1>3
<1>9. PoolInv'
  BY <1>1, <1>6, <1>7, <1>8 DEF PoolInv
<1> QED
  BY <1>1, <1>6, <1>9, MayGrows DEF PoolInv

(* The generator's worker releases a transaction that no pool has.          *)
LEMMA AddGeneratedPools ==
  ASSUME PoolInv, NEW n \in Node, AddGenerated(n)
  PROVE  /\ PoolInv' /\ MayGrow
         /\ Head(txChan[n]) \in Tx
         /\ Head(txChan[n]) \notin pool[n]
         /\ pool' = [pool EXCEPT ![n] = @ \union {Head(txChan[n])}]
<1> DEFINE t == Head(txChan[n])
<1>1. /\ txChan[n] \in Seq(generated) /\ txChan[n] # << >>
      /\ DOMAIN txChan' = Node
      /\ txChan'[n] = Tail(txChan[n])
      /\ \A m \in Node \ {n} : txChan'[m] = txChan[m]
      /\ pool' = [pool EXCEPT ![n] = @ \union {t}]
      /\ UNCHANGED <<generated, inclusions>>
  BY DEF AddGenerated, PoolInv, PoolWith
<1>2. /\ txChan'[n] \in Seq(generated)
      /\ 1 \in DOMAIN txChan[n] /\ txChan[n][1] = t /\ t \in generated
      /\ \A i \in DOMAIN txChan'[n] :
           i \in Nat /\ i # 0 /\ i + 1 \in DOMAIN txChan[n] /\ txChan'[n][i] = txChan[n][i + 1]
  BY <1>1, Taken
<1> HIDE DEF t
<1>3. t \notin Released /\ t \in Tx
  BY <1>2 DEF Released, Range, PoolInv
<1>4. t \in Released'
  <2>1. ASSUME NEW m \in Node, t \in Range(txChan'[m])
        PROVE  FALSE
    <3>1. PICK i \in DOMAIN txChan'[m] : txChan'[m][i] = t
      BY <2>1 DEF Range
    <3>2. CASE m = n
      <4>1. i + 1 \in DOMAIN txChan[n] /\ txChan[n][i + 1] = txChan[n][1] /\ i \in Nat /\ i # 0
        BY <1>2, <3>1, <3>2
      <4>2. i + 1 = 1
        BY <1>2, <4>1 DEF PoolInv
      <4> QED
        BY <4>1, <4>2
    <3>3. CASE m # n
      <4>1. i \in DOMAIN txChan[m] /\ txChan[m][i] = txChan[n][1]
        BY <1>1, <1>2, <3>1, <3>3
      <4> QED
        BY <1>2, <3>3, <4>1 DEF PoolInv
    <3> QED
      BY <3>2, <3>3
  <2> QED
    BY <1>1, <1>2, <2>1 DEF Released
<1>5. Released \subseteq Released'
  <2>1. \A m \in Node : Range(txChan'[m]) \subseteq Range(txChan[m])
    BY <1>1, <1>2 DEF Range
  <2> QED
    BY <1>1, <2>1 DEF Released
<1>6. \A m \in Node, k \in Node : \A i \in DOMAIN txChan'[m], j \in DOMAIN txChan'[k] :
        txChan'[m][i] = txChan'[k][j] => m = k /\ i = j
  <2>1. ASSUME NEW m \in Node, NEW k \in Node,
               NEW i \in DOMAIN txChan'[m], NEW j \in DOMAIN txChan'[k],
               txChan'[m][i] = txChan'[k][j]
        PROVE  m = k /\ i = j
    <3>1. \E a \in DOMAIN txChan[m] : /\ txChan[m][a] = txChan'[m][i]
                                      /\ m = n => a = i + 1 /\ i \in Nat
                                      /\ m # n => a = i
      BY <1>1, <1>2
    <3>2. \E b \in DOMAIN txChan[k] : /\ txChan[k][b] = txChan'[k][j]
                                      /\ k = n => b = j + 1 /\ j \in Nat
                                      /\ k # n => b = j
      BY <1>1, <1>2
    <3>3. PICK a \in DOMAIN txChan[m], b \in DOMAIN txChan[k] :
            /\ m = k /\ a = b
            /\ m = n => a = i + 1 /\ b = j + 1 /\ i \in Nat /\ j \in Nat
            /\ m # n => a = i /\ b = j
      BY <2>1, <3>1, <3>2 DEF PoolInv
    <3> QED
      BY <3>3
  <2> QED
    BY <2>1
<1>7. pool' \in [Node -> SUBSET Released']
  BY <1>1, <1>4, <1>5 DEF PoolInv
<1>8. \A m \in Node : txChan'[m] \in Seq(generated')
  BY <1>1, <1>2 DEF PoolInv
<1>9. PoolInv'
  BY <1>1, <1>6, <1>7, <1>8 DEF PoolInv
<1>10. MayGrow
  BY <1>1, <1>5, MayGrows DEF PoolInv
<1> QED
  BY <1>1, <1>3, <1>9, <1>10 DEF PoolInv, t

(* A transaction that a peer answers with has been released.                *)
LEMMA HandlePools ==
  ASSUME PoolInv, NEW n \in Node, NEW t \in Released,
         pool' = [pool EXCEPT ![n] = @ \union {t}], UNCHANGED <<generated, txChan, inclusions>>
  PROVE  PoolInv' /\ MayGrow
<1>1. Released' = Released
  BY DEF Released
<1> QED
  BY <1>1, MayGrows DEF PoolInv

LEMMA IncludePools ==
  ASSUME PoolInv, NEW n \in Node, NEW t \in Tx, Include(n, t)
  PROVE  PoolInv' /\ MayGrow
<1>1. Released' = Released
  BY DEF Released, Include
<1>2. inclusions' \in Nat /\ inclusions' > 0 /\ inclusions <= inclusions'
  BY DEF Include, PoolInv
<1> QED
  BY <1>1, <1>2, MayGrows DEF PoolInv, Include

--------------------------------------------------------------------------------
(* One lemma per action *)

LEMMA GenerateStep ==
  ASSUME GossipInv, NEW n \in Node, NEW t \in Tx, Generate(n, t)
  PROVE  GossipInv'
<1>1. PoolInv' /\ MayGrow
  BY GeneratePools DEF GossipInv
<1>2. UNCHANGED <<control, link, worker>>
  BY DEF Generate, networkVars
<1> QED
  BY <1>1, <1>2, ControlStays, LinkStays, WorkersStay DEF GossipInv

LEMMA IncludeStep ==
  ASSUME GossipInv, NEW n \in Node, NEW t \in Tx, Include(n, t)
  PROVE  GossipInv'
<1>1. PoolInv' /\ MayGrow
  BY IncludePools DEF GossipInv
<1>2. UNCHANGED <<control, link, worker>>
  BY DEF Include, networkVars
<1> QED
  BY <1>1, <1>2, ControlStays, LinkStays, WorkersStay DEF GossipInv

LEMMA AddGeneratedStep ==
  ASSUME GossipInv, NEW n \in Node, AddGenerated(n)
  PROVE  GossipInv'
<1> DEFINE t == Head(txChan[n])
<1>1. /\ Broadcast(n, <<NewTransactionHashes(t)>>)
      /\ UNCHANGED <<link, worker>>
  BY DEF AddGenerated
<1> HIDE DEF t
<1>2. /\ PoolInv' /\ MayGrow /\ t \in Tx
      /\ pool' = [pool EXCEPT ![n] = @ \union {t}]
  BY AddGeneratedPools DEF GossipInv, t
<1>3. t \in pool'[n]
  BY <1>2 DEF GossipInv, PoolInv
<1>4. NewTransactionHashes(t) \in MaySend'[n]
  BY <1>2, <1>3, Messages DEF MaySend
<1> QED
  BY <1>1, <1>2, <1>4, ControlAfterBroadcast, LinkStays, WorkersStay DEF GossipInv

LEMMA DispatchStep ==
  ASSUME GossipInv, NEW n \in Node, Dispatch(n)
  PROVE  GossipInv'
<1>1. PoolInv' /\ MayGrow /\ MaySend' = MaySend /\ worker' = worker
  BY MayStays DEF GossipInv, Dispatch, Forward
<1>2. /\ control[n] \in Seq(MaySend[n]) /\ control[n] # << >>
      /\ control' = [control EXCEPT ![n] = Tail(@)]
  BY DEF GossipInv, ControlInv, Dispatch, Forward
<1>3. /\ Head(control[n]) \in MaySend[n]
      /\ Tail(control[n]) \in Seq(MaySend[n])
  BY <1>2, HeadTailProperties
<1>4. ControlInv'
  BY <1>1, <1>2, <1>3 DEF GossipInv, ControlInv
<1>5. LinkInv'
  <2>1. /\ DOMAIN link' = Node
        /\ \A k \in Node \ {n} : link'[k] = link[k]
        /\ link'[n] = [m \in Node |-> IF m \in Peers[n]
                                        THEN Append(link[n][m], Head(control[n]))
                                        ELSE link[n][m]]
    BY DEF GossipInv, LinkInv, Dispatch, Forward
  <2>2. \A m \in Node : link[n][m] \in Seq(MaySend[n])
    BY DEF GossipInv, LinkInv
  <2>3. \A m \in Node : Append(link[n][m], Head(control[n])) \in Seq(MaySend[n])
    BY <1>3, <2>2, AppendProperties
  <2>4. \A m \in Node : link'[n][m] \in Seq(MaySend'[n])
    BY <1>1, <2>1, <2>2, <2>3
  <2> QED
    BY <1>1, <2>1, <2>4 DEF GossipInv, LinkInv
<1> QED
  BY <1>1, <1>4, <1>5, WorkersStay DEF GossipInv

LEMMA TakeStep ==
  ASSUME GossipInv, NEW n \in Node, NEW w \in Worker, NEW m \in Node, Take(n, w, m)
  PROVE  GossipInv'
<1>1. PoolInv' /\ MayGrow /\ MaySend' = MaySend /\ control' = control
  BY MayStays DEF GossipInv, Take, Receive
<1>2. /\ link[m][n] \in Seq(MaySend[m]) /\ link[m][n] # << >>
      /\ link' = [link EXCEPT ![m][n] = Tail(@)]
      /\ worker' = [worker EXCEPT ![n][w] = Busy(m, Head(link[m][n]))]
  BY DEF GossipInv, LinkInv, Take, Receive
<1>3. /\ Head(link[m][n]) \in MaySend[m]
      /\ Tail(link[m][n]) \in Seq(MaySend[m])
  BY <1>2, HeadTailProperties
<1>4. LinkInv'
  BY <1>1, <1>2, <1>3 DEF GossipInv, LinkInv
<1>5. WorkerInv'
  <2>1. ConditionInv(MaySend', n, Busy(m, Head(link[m][n])))
    BY <1>1, <1>3, Conditions
  <2> QED
    BY <1>1, <1>2, <2>1, WorkersContinue DEF GossipInv
<1> QED
  BY <1>1, <1>4, <1>5, ControlStays DEF GossipInv

(* Steps of a worker that leave the channels alone.                         *)
LEMMA ContinueStep ==
  ASSUME GossipInv, PoolInv', MayGrow, UNCHANGED <<control, link>>,
         NEW n \in Node, NEW w \in Worker, NEW c, ConditionInv(MaySend', n, c),
         worker' = [worker EXCEPT ![n][w] = c]
  PROVE  GossipInv'
  BY ControlStays, LinkStays, WorkersContinue DEF GossipInv

LEMMA WorkIsSendable ==
  ASSUME GossipInv, NEW n \in Node, NEW w \in Worker, NEW type, WorksOn(n, w, type)
  PROVE  /\ worker[n][w].from \in Node /\ worker[n][w].msg.tx \in Tx
         /\ type = "Transactions" => worker[n][w].msg.tx \in Released
<1>1. /\ worker[n][w].from \in Node
      /\ worker[n][w].msg \in MaySend[worker[n][w].from]
      /\ worker[n][w].msg.type = type
  BY DEF GossipInv, WorkerInv, ConditionInv, WorksOn
<1>2. worker[n][w].msg \in Message /\ (type = "Transactions" => worker[n][w].msg.tx \in Released)
  BY <1>1 DEF MaySend, Sendable
<1> QED
  BY <1>1, <1>2, Messages

LEMMA WorkStep ==
  ASSUME GossipInv, NEW n \in Node, NEW w \in Worker, Work(n, w)
  PROVE  GossipInv'
<1> DEFINE t == worker[n][w].msg.tx
           m == worker[n][w].from
<1>1. CASE HandleNewTransactionHashes(n, w)
  <2>1. t \in Tx /\ m \in Node
    BY <1>1, WorkIsSendable DEF HandleNewTransactionHashes
  <2>2. PoolInv' /\ MayGrow /\ MaySend' = MaySend /\ UNCHANGED <<control, link>>
    BY <1>1, MayStays DEF GossipInv, HandleNewTransactionHashes
  <2>3. \/ Continue(n, w, Idle)
        \/ Continue(n, w, Answering(m, GetTransactions(t)))
    BY <1>1 DEF HandleNewTransactionHashes
  <2> HIDE DEF t, m
  <2>4. /\ ConditionInv(MaySend', n, Idle)
        /\ ConditionInv(MaySend', n, Answering(m, GetTransactions(t)))
    <3>1. GetTransactions(t) \in MaySend'[n]
      BY <2>1, <2>2, Messages DEF MaySend
    <3>2. GetTransactions(t).type # "NewTransactionHashes"
      BY DEF GetTransactions
    <3> QED
      BY <2>1, <3>1, <3>2, Conditions
  <2> QED
    BY <2>2, <2>3, <2>4, ContinueStep DEF Continue
<1>2. CASE HandleGetTransactions(n, w)
  <2>1. t \in Tx /\ m \in Node
    BY <1>2, WorkIsSendable DEF HandleGetTransactions
  <2>2. PoolInv' /\ MayGrow /\ MaySend' = MaySend /\ UNCHANGED <<control, link>>
    BY <1>2, MayStays DEF GossipInv, HandleGetTransactions
  <2>3. \/ Continue(n, w, Idle)
        \/ Continue(n, w, Answering(m, Transactions(t))) /\ t \in pool[n]
    BY <1>2 DEF HandleGetTransactions
  <2> HIDE DEF t, m
  <2>4. t \in pool[n] => ConditionInv(MaySend', n, Answering(m, Transactions(t)))
    <3>1. t \in pool[n] => Transactions(t) \in MaySend'[n]
      BY <2>1, <2>2, Messages DEF MaySend, GossipInv, PoolInv
    <3>2. Transactions(t).type # "NewTransactionHashes"
      BY DEF Transactions
    <3> QED
      BY <2>1, <3>1, <3>2, Conditions
  <2> QED
    BY <2>2, <2>3, <2>4, Conditions, ContinueStep DEF Continue
<1>3. CASE HandleTransactions(n, w)
  <2>1. t \in Tx /\ t \in Released
    BY <1>3, WorkIsSendable DEF HandleTransactions
  <2>2. /\ pool' = [pool EXCEPT ![n] = @ \union {t}]
        /\ UNCHANGED <<control, link, generated, txChan, inclusions>>
    BY <1>3 DEF HandleTransactions, PoolWith
  <2>3. \/ Continue(n, w, Idle)
        \/ Continue(n, w, Announcing(NewTransactionHashes(t)))
    BY <1>3 DEF HandleTransactions
  <2> HIDE DEF t
  <2>4. PoolInv' /\ MayGrow
    BY <2>1, <2>2, HandlePools DEF GossipInv
  <2>5. /\ ConditionInv(MaySend', n, Idle)
        /\ ConditionInv(MaySend', n, Announcing(NewTransactionHashes(t)))
    <3>1. t \in pool'[n]
      BY <2>2 DEF GossipInv, PoolInv
    <3>2. NewTransactionHashes(t) \in MaySend'[n]
      BY <2>1, <3>1, Messages DEF MaySend
    <3> QED
      BY <3>2, Conditions
  <2> QED
    BY <2>2, <2>3, <2>4, <2>5, ContinueStep DEF Continue
<1>4. CASE Answer(n, w)
  <2> DEFINE to == worker[n][w].to
             msg == worker[n][w].msg
  <2>1. /\ to \in Node /\ msg \in MaySend[n]
        /\ link' = [link EXCEPT ![n][to] = Append(@, msg)]
        /\ control' = control /\ Finish(n, w)
    BY <1>4 DEF GossipInv, WorkerInv, ConditionInv, Answer, Write
  <2>2. PoolInv' /\ MayGrow /\ MaySend' = MaySend
    BY <1>4, MayStays DEF GossipInv, Answer
  <2> HIDE DEF to, msg
  <2>3. Append(link[n][to], msg) \in Seq(MaySend[n])
    BY <2>1, AppendProperties DEF GossipInv, LinkInv
  <2>4. LinkInv'
    BY <2>1, <2>2, <2>3 DEF GossipInv, LinkInv
  <2>5. WorkerInv'
    BY <2>1, <2>2, Conditions, WorkersContinue DEF Finish, GossipInv
  <2> QED
    BY <2>1, <2>2, <2>4, <2>5, ControlStays DEF GossipInv
<1>5. CASE Announce(n, w)
  <2> DEFINE msg == worker[n][w].msg
  <2>1. /\ msg \in MaySend[n] /\ Broadcast(n, <<msg>>)
        /\ link' = link /\ Finish(n, w)
    BY <1>5 DEF GossipInv, WorkerInv, ConditionInv, Announce
  <2>2. PoolInv' /\ MayGrow /\ MaySend' = MaySend
    BY <1>5, MayStays DEF GossipInv, Announce
  <2> HIDE DEF msg
  <2>3. ControlInv'
    BY <2>1, <2>2, ControlAfterBroadcast DEF GossipInv
  <2>4. WorkerInv'
    BY <2>1, <2>2, Conditions, WorkersContinue DEF Finish, GossipInv
  <2> QED
    BY <2>1, <2>2, <2>3, <2>4, LinkStays DEF GossipInv
<1> QED
  BY <1>1, <1>2, <1>3, <1>4, <1>5 DEF Work

LEMMA GossipStep == GossipInv /\ [Next]_vars => GossipInv'
<1>1. CASE GossipInv /\ UNCHANGED vars
  <2>1. PoolInv' /\ MayGrow /\ UNCHANGED <<control, link, worker>>
    BY <1>1, MayStays DEF GossipInv, vars, networkVars
  <2> QED
    BY <1>1, <2>1, ControlStays, LinkStays, WorkersStay DEF GossipInv
<1> QED
  BY <1>1, GenerateStep, IncludeStep, AddGeneratedStep, DispatchStep, TakeStep, WorkStep DEF Next

LEMMA GossipInit == Init => GossipInv
<1> SUFFICES ASSUME Init PROVE GossipInv
  OBVIOUS
<1>1. PoolInv
  BY DEF Init, PoolInv
<1>2. ControlInv /\ LinkInv
  BY DEF Init, InitNetwork, ControlInv, LinkInv
<1>3. WorkerInv
  BY Conditions DEF Init, InitNetwork, WorkerInv
<1> QED
  BY <1>1, <1>2, <1>3 DEF GossipInv

(* What the nodes send and hold is what they may send and hold: the         *)
(* invariant from which the next theorems follow.                           *)
THEOREM GossipInvariant == Spec => []GossipInv
  BY GossipInit, GossipStep, PTL DEF Spec

LEMMA MembersOfSeq ==
  ASSUME NEW S, NEW s \in Seq(S), NEW e \in Range(s)
  PROVE  e \in S
<1>1. PICK i \in DOMAIN s : e = s[i]
  BY DEF Range
<1>2. s[i] \in S
  BY <1>1
<1> QED
  BY <1>1, <1>2

(* Until a block takes transactions out of the pools, whoever receives an   *)
(* announcement can fetch the transaction from its sender.                  *)
THEOREM GossipAnnouncedIsPooled == Spec => []AnnouncedIsPooled
<1>1. GossipInv => AnnouncedIsPooled
  <2> SUFFICES ASSUME GossipInv, NEW n \in Node, NEW t \in Tx,
                      NewTransactionHashes(t) \in Undelivered(n)
               PROVE  t \in pool[n] \/ inclusions > 0
    BY DEF AnnouncedIsPooled
  <2> DEFINE msg == NewTransactionHashes(t)
  <2>0. ASSUME msg \in MaySend[n]
        PROVE  t \in pool[n] \/ inclusions > 0
    BY <2>0 DEF MaySend, Sendable, NewTransactionHashes
  <2> HIDE DEF msg
  <2>1. msg \in Range(control[n]) => msg \in MaySend[n]
    BY MembersOfSeq DEF GossipInv, ControlInv
  <2>2. \A m \in Node : msg \in Range(link[n][m]) => msg \in MaySend[n]
    BY MembersOfSeq DEF GossipInv, LinkInv
  <2>3. ASSUME NEW k \in Node, NEW w \in Worker, worker[k][w].state = "busy",
               worker[k][w].from = n, worker[k][w].msg = msg
        PROVE  msg \in MaySend[n]
    BY <2>3 DEF GossipInv, WorkerInv, ConditionInv
  <2> QED
    BY <2>0, <2>1, <2>2, <2>3 DEF Undelivered, msg
<1> QED
  BY <1>1, GossipInvariant, PTL

--------------------------------------------------------------------------------
(* The announcements under way of a transaction *)

(* The places at which a queue has an element.                              *)
Places(s, e) == {i \in DOMAIN s : s[i] = e}

LEMMA PlacesAreFinite ==
  ASSUME NEW S, NEW s \in Seq(S), NEW e
  PROVE  IsFiniteSet(Places(s, e)) /\ Cardinality(Places(s, e)) \in Nat
<1>1. Len(s) \in Nat /\ DOMAIN s = 1 .. Len(s)
  BY LenProperties
<1>2. IsFiniteSet(1 .. Len(s))
  BY <1>1, FS_Interval
<1>3. Places(s, e) \in SUBSET (1 .. Len(s))
  BY <1>1 DEF Places
<1> QED
  BY <1>2, <1>3, FS_Subset, FS_CardinalityType

(* Putting an element in adds one place to its own.                         *)
LEMMA PlacesAfterSend ==
  ASSUME NEW S, NEW s \in Seq(S), NEW x \in S, NEW e
  PROVE  Cardinality(Places(Append(s, x), e)) =
           Cardinality(Places(s, e)) + (IF x = e THEN 1 ELSE 0)
<1> DEFINE next == Append(s, x)
<1>1. /\ DOMAIN s = 1 .. Len(s) /\ Len(s) \in Nat
      /\ DOMAIN next = 1 .. (Len(s) + 1)
      /\ \A k \in DOMAIN s : next[k] = s[k]
      /\ next[Len(s) + 1] = x
      /\ Len(s) + 1 \notin DOMAIN s
  BY Sent
<1> HIDE DEF next
<1>2. Places(next, e) = IF x = e THEN Places(s, e) \union {Len(s) + 1} ELSE Places(s, e)
  <2>1. DOMAIN next = DOMAIN s \union {Len(s) + 1}
    BY <1>1
  <2> QED
    BY <1>1, <2>1 DEF Places
<1>3. Len(s) + 1 \notin Places(s, e)
  BY <1>1 DEF Places
<1>4. IsFiniteSet(Places(s, e)) /\ Cardinality(Places(s, e)) \in Nat
  BY PlacesAreFinite
<1>5. Cardinality(Places(s, e) \union {Len(s) + 1}) = Cardinality(Places(s, e)) + 1
  BY <1>3, <1>4, FS_AddElement
<1>6. Cardinality(Places(next, e)) = Cardinality(Places(s, e)) + (IF x = e THEN 1 ELSE 0)
  BY <1>2, <1>4, <1>5
<1> QED
  BY <1>6 DEF next

(* Taking the first element out removes one place from its own.             *)
LEMMA PlacesAfterTake ==
  ASSUME NEW S, NEW s \in Seq(S), s # << >>, NEW e, NEW next, next = Tail(s)
  PROVE  Cardinality(Places(next, e)) + (IF Head(s) = e THEN 1 ELSE 0)
           <= Cardinality(Places(s, e))
<1>1. /\ next \in Seq(S)
      /\ 1 \in DOMAIN s /\ s[1] = Head(s)
      /\ \A k \in DOMAIN next :
           k \in Nat /\ k # 0 /\ k + 1 \in DOMAIN s /\ next[k] = s[k + 1]
  BY Taken
<1> DEFINE later == Places(s, e) \ {1}
           shift == [i \in Places(next, e) |-> i + 1]
<1>2. /\ IsFiniteSet(Places(s, e)) /\ Cardinality(Places(s, e)) \in Nat
      /\ Cardinality(Places(next, e)) \in Nat
  BY <1>1, PlacesAreFinite
<1>3. IsFiniteSet(later) /\ Cardinality(later) =
        IF Head(s) = e THEN Cardinality(Places(s, e)) - 1 ELSE Cardinality(Places(s, e))
  <2>1. 1 \in Places(s, e) <=> Head(s) = e
    BY <1>1 DEF Places
  <2> QED
    BY <1>2, <2>1, FS_RemoveElement
<1>4. shift \in Injection(Places(next, e), later)
  <2>1. \A i \in Places(next, e) : i \in Nat /\ i + 1 \in later
    BY <1>1 DEF Places
  <2>2. shift \in [Places(next, e) -> later]
    BY <2>1
  <2>3. \A i \in Places(next, e), j \in Places(next, e) : shift[i] = shift[j] => i = j
    BY <2>1
  <2> HIDE DEF shift, later
  <2> QED
    BY <2>2, <2>3, Fun_IsInj
<1>5. Cardinality(Places(next, e)) <= Cardinality(later)
  <2> HIDE DEF later, shift
  <2> QED
    BY <1>3, <1>4, FS_Injection
<1> QED
  BY <1>2, <1>3, <1>5

InControl(n, t) == Cardinality(Places(control[n], NewTransactionHashes(t)))
InLink(n, m, t) == Cardinality(Places(link[n][m], NewTransactionHashes(t)))
ByWorkers(n, t) == Cardinality(Deciding(n, t))

LEMMA AnnouncementsAre ==
  ASSUME NEW n, NEW m, NEW t
  PROVE  Announcements(n, m, t) = InControl(n, t) + InLink(n, m, t) + ByWorkers(n, t)
  BY DEF Announcements, Places, Deciding, InControl, InLink, ByWorkers

LEMMA Counts ==
  ASSUME GossipInv, OnceInv, NEW n \in Node, NEW m \in Peers[n], NEW t \in Tx
  PROVE  /\ InControl(n, t) \in Nat /\ InLink(n, m, t) \in Nat /\ ByWorkers(n, t) \in Nat
         /\ Budget(n, t) \in Nat
         /\ InControl(n, t) + InLink(n, m, t) + ByWorkers(n, t) <= Budget(n, t)
<1>1. m \in Node
  BY NetworkAssumption
<1>2. InControl(n, t) \in Nat
  <2>1. control[n] \in Seq(MaySend[n])
    BY DEF GossipInv, ControlInv
  <2> QED
    BY <2>1, PlacesAreFinite DEF InControl
<1>3. InLink(n, m, t) \in Nat
  <2>1. link[n][m] \in Seq(MaySend[n])
    BY <1>1 DEF GossipInv, LinkInv
  <2> QED
    BY <2>1, PlacesAreFinite DEF InLink
<1>4. ByWorkers(n, t) \in Nat
  BY FS_CardinalityType DEF OnceInv, ByWorkers
<1>5. Budget(n, t) \in Nat
  BY DEF Budget, GossipInv, PoolInv
<1>6. InControl(n, t) + InLink(n, m, t) + ByWorkers(n, t) <= Budget(n, t)
  BY AnnouncementsAre DEF OnceInv
<1> QED
  BY <1>2, <1>3, <1>4, <1>5, <1>6

(* The conditions of two workers, and two announcements, are told apart.    *)
LEMMA Distinct ==
  /\ \A t, u : NewTransactionHashes(t) = NewTransactionHashes(u) <=> t = u
  /\ \A a, b : Announcing(a) = Announcing(b) <=> a = b
  /\ \A c, msg : c.state # "announcing" => c # Announcing(msg)
  /\ \A m, msg : /\ Idle.state # "announcing" /\ Busy(m, msg).state # "announcing"
                 /\ Answering(m, msg).state # "announcing"
  /\ \A msg, t : msg.type # "NewTransactionHashes" => msg # NewTransactionHashes(t)
<1>1. \A t : /\ NewTransactionHashes(t).tx = t
             /\ NewTransactionHashes(t).type = "NewTransactionHashes"
  BY DEF NewTransactionHashes
<1>2. \A a : Announcing(a).msg = a /\ Announcing(a).state = "announcing"
  BY DEF Announcing
<1>3. \A m, msg : /\ Idle.state # "announcing" /\ Busy(m, msg).state # "announcing"
                  /\ Answering(m, msg).state # "announcing"
  BY DEF Idle, Busy, Answering
<1> QED
  BY <1>1, <1>2, <1>3

(* A worker that was not announcing and is not now changes no count.        *)
LEMMA DecidingStays ==
  ASSUME GossipInv, NEW k \in Node, NEW w \in Worker, NEW c,
         worker' = [worker EXCEPT ![k][w] = c],
         c.state # "announcing", worker[k][w].state # "announcing"
  PROVE  \A n \in Node, t \in Tx : Deciding(n, t)' = Deciding(n, t)
<1>1. \A n \in Node, v \in Worker :
        worker'[n][v] = IF n = k /\ v = w THEN c ELSE worker[n][v]
  BY DEF GossipInv, WorkerInv
<1> QED
  BY <1>1, Distinct DEF Deciding

(* A step of n keeps within the budget for t towards m.                     *)
Fits(n, m, t) ==
  IsFiniteSet(Deciding(n, t)') /\ Announcements(n, m, t)' <= Budget(n, t)'

LEMMA FitsWhen ==
  ASSUME NEW n, NEW m, NEW t, IsFiniteSet(Deciding(n, t)'),
         InControl(n, t)' + InLink(n, m, t)' + ByWorkers(n, t)' <= Budget(n, t)'
  PROVE  Fits(n, m, t)
<1>1. Announcements(n, m, t)' = InControl(n, t)' + InLink(n, m, t)' + ByWorkers(n, t)'
  BY DEF Announcements, Places, Deciding, InControl, InLink, ByWorkers
<1> QED
  BY <1>1 DEF Fits

LEMMA FitsQuietly ==
  ASSUME GossipInv, OnceInv, NEW n \in Node, NEW m \in Peers[n], NEW t \in Tx,
         control'[n] = control[n], link'[n][m] = link[n][m],
         Deciding(n, t)' = Deciding(n, t),
         Budget(n, t)' \in Nat, Budget(n, t) <= Budget(n, t)'
  PROVE  Fits(n, m, t)
<1>1. /\ InControl(n, t)' = InControl(n, t) /\ InLink(n, m, t)' = InLink(n, m, t)
      /\ ByWorkers(n, t)' = ByWorkers(n, t)
  BY DEF InControl, InLink, ByWorkers
<1>2. IsFiniteSet(Deciding(n, t)')
  BY DEF OnceInv
<1>3. InControl(n, t)' + InLink(n, m, t)' + ByWorkers(n, t)' <= Budget(n, t)'
  BY <1>1, Counts
<1> QED
  BY <1>2, <1>3, FitsWhen

LEMMA BudgetStays ==
  ASSUME GossipInv, NEW n \in Node, NEW t \in Tx, pool'[n] = pool[n], inclusions' = inclusions
  PROVE  Budget(n, t)' = Budget(n, t) /\ Budget(n, t) \in Nat
  BY DEF Budget, GossipInv, PoolInv

LEMMA FitsGenerate ==
  ASSUME GossipInv, OnceInv, NEW k \in Node, NEW u \in Tx, Generate(k, u),
         NEW n \in Node, NEW m \in Peers[n], NEW t \in Tx
  PROVE  Fits(n, m, t)
<1>1. UNCHANGED <<control, link, worker, pool, inclusions>>
  BY DEF Generate, networkVars
<1>2. Deciding(n, t)' = Deciding(n, t)
  BY <1>1 DEF Deciding
<1> QED
  BY <1>1, <1>2, BudgetStays, FitsQuietly

(* A block that takes the transaction out gives its place in the budget to  *)
(* the count of the blocks.                                                 *)
LEMMA FitsInclude ==
  ASSUME GossipInv, OnceInv, NEW k \in Node, NEW u \in Tx, Include(k, u),
         NEW n \in Node, NEW m \in Peers[n], NEW t \in Tx
  PROVE  Fits(n, m, t)
<1>1. UNCHANGED <<control, link, worker>> /\ inclusions' = inclusions + 1
  BY DEF Include, networkVars
<1>2. Deciding(n, t)' = Deciding(n, t)
  BY <1>1 DEF Deciding
<1>3. Budget(n, t)' \in Nat /\ Budget(n, t) <= Budget(n, t)'
  BY <1>1 DEF Budget, GossipInv, PoolInv
<1> QED
  BY <1>1, <1>2, <1>3, FitsQuietly

(* One more announcement in the queue of broadcasts.                        *)
LEMMA ControlGains ==
  ASSUME GossipInv, NEW n \in Node, NEW t \in Tx, NEW u \in Tx,
         Broadcast(n, <<NewTransactionHashes(u)>>), GossipInv'
  PROVE  InControl(n, t)' = InControl(n, t) + (IF u = t THEN 1 ELSE 0)
<1> DEFINE msg == NewTransactionHashes(u)
           S == MaySend[n] \union {msg}
<1>1. control[n] \in Seq(S) /\ msg \in S
  BY SeqMonotonic DEF GossipInv, ControlInv
<1>2. control'[n] = control[n] \o <<msg>>
  BY DEF Broadcast, GossipInv, ControlInv
<1> HIDE DEF msg, S
<1>3. control'[n] = Append(control[n], msg)
  BY <1>1, <1>2, AppendIsConcat
<1>4. Cardinality(Places(Append(control[n], msg), NewTransactionHashes(t))) =
        Cardinality(Places(control[n], NewTransactionHashes(t)))
          + (IF msg = NewTransactionHashes(t) THEN 1 ELSE 0)
  BY <1>1, PlacesAfterSend
<1>5. msg = NewTransactionHashes(t) <=> u = t
  BY Distinct DEF msg
<1> QED
  BY <1>3, <1>4, <1>5 DEF InControl

LEMMA FitsAddGenerated ==
  ASSUME GossipInv, GossipInv', OnceInv, NEW k \in Node, AddGenerated(k),
         NEW n \in Node, NEW m \in Peers[n], NEW t \in Tx
  PROVE  Fits(n, m, t)
<1> DEFINE u == Head(txChan[k])
<1>1. /\ Broadcast(k, <<NewTransactionHashes(u)>>)
      /\ UNCHANGED <<link, worker, inclusions>>
  BY DEF AddGenerated
<1> HIDE DEF u
<1>2. u \in Tx /\ u \notin pool[k] /\ pool' = [pool EXCEPT ![k] = @ \union {u}]
  BY AddGeneratedPools DEF GossipInv, u
<1>3. Deciding(n, t)' = Deciding(n, t)
  BY <1>1 DEF Deciding
<1>4. CASE k = n
  <2>1. InControl(n, t)' = InControl(n, t) + (IF u = t THEN 1 ELSE 0)
    BY <1>1, <1>2, <1>4, ControlGains
  <2>2. Budget(n, t)' = Budget(n, t) + (IF u = t THEN 1 ELSE 0)
    BY <1>1, <1>2, <1>4 DEF Budget, GossipInv, PoolInv
  <2>3. InLink(n, m, t)' = InLink(n, m, t) /\ ByWorkers(n, t)' = ByWorkers(n, t)
    BY <1>1, <1>3 DEF InLink, ByWorkers
  <2>4. InControl(n, t)' + InLink(n, m, t)' + ByWorkers(n, t)' <= Budget(n, t)'
    BY <2>1, <2>2, <2>3, Counts
  <2> QED
    BY <1>3, <2>4, FitsWhen DEF OnceInv
<1>5. CASE k # n
  <2>1. control'[n] = control[n] /\ pool'[n] = pool[n] /\ link'[n][m] = link[n][m]
    BY <1>1, <1>2, <1>5 DEF Broadcast, GossipInv, ControlInv, PoolInv
  <2> QED
    BY <1>1, <1>3, <2>1, BudgetStays, FitsQuietly
<1> QED
  BY <1>4, <1>5

(* The server moves the announcement from its queue to the peer's.          *)
LEMMA FitsDispatch ==
  ASSUME GossipInv, OnceInv, NEW k \in Node, Dispatch(k),
         NEW n \in Node, NEW m \in Peers[n], NEW t \in Tx
  PROVE  Fits(n, m, t)
<1>1. UNCHANGED <<pool, inclusions, worker>>
  BY DEF Dispatch, Forward
<1>2. Deciding(n, t)' = Deciding(n, t)
  BY <1>1 DEF Deciding
<1>3. m \in Node
  BY NetworkAssumption
<1>4. CASE k = n
  <2> DEFINE head == Head(control[n])
             here == IF head = NewTransactionHashes(t) THEN 1 ELSE 0
  <2>1. /\ control[n] \in Seq(MaySend[n]) /\ control[n] # << >>
        /\ control'[n] = Tail(control[n])
        /\ link[n][m] \in Seq(MaySend[n])
        /\ link'[n][m] = Append(link[n][m], head)
    BY <1>3, <1>4 DEF Dispatch, Forward, GossipInv, ControlInv, LinkInv
  <2>2. head \in MaySend[n]
    BY <2>1, HeadTailProperties
  <2>3. InControl(n, t)' + here <= InControl(n, t)
    BY <2>1, PlacesAfterTake DEF InControl
  <2>4. InLink(n, m, t)' = InLink(n, m, t) + here
    <3> HIDE DEF head
    <3>1. Cardinality(Places(Append(link[n][m], head), NewTransactionHashes(t))) =
            Cardinality(Places(link[n][m], NewTransactionHashes(t))) + here
      BY <2>1, <2>2, PlacesAfterSend
    <3> QED
      BY <2>1, <3>1 DEF InLink
  <2>5. InControl(n, t)' \in Nat
    <3>1. control'[n] \in Seq(MaySend[n])
      BY <2>1, HeadTailProperties
    <3> QED
      BY <3>1, PlacesAreFinite DEF InControl
  <2>6. here \in Nat
    OBVIOUS
  <2>7. ByWorkers(n, t)' = ByWorkers(n, t) /\ Budget(n, t)' = Budget(n, t)
    BY <1>1, <1>2, BudgetStays DEF ByWorkers
  <2> HIDE DEF here, head
  <2>8. InControl(n, t)' + InLink(n, m, t)' + ByWorkers(n, t)' <= Budget(n, t)'
    BY <2>3, <2>4, <2>5, <2>6, <2>7, Counts
  <2> QED
    BY <1>2, <2>8, FitsWhen DEF OnceInv
<1>5. CASE k # n
  <2>1. control'[n] = control[n] /\ link'[n] = link[n]
    BY <1>5 DEF Dispatch, Forward, GossipInv, ControlInv, LinkInv
  <2> QED
    BY <1>1, <1>2, <2>1, BudgetStays, FitsQuietly
<1> QED
  BY <1>4, <1>5

LEMMA FitsTake ==
  ASSUME GossipInv, OnceInv, NEW k \in Node, NEW w \in Worker, NEW j \in Node, Take(k, w, j),
         NEW n \in Node, NEW m \in Peers[n], NEW t \in Tx
  PROVE  Fits(n, m, t)
<1>1. /\ UNCHANGED <<control, pool, inclusions>>
      /\ worker[k][w] = Idle /\ link[j][k] # << >>
      /\ worker' = [worker EXCEPT ![k][w] = Busy(j, Head(link[j][k]))]
      /\ link' = [link EXCEPT ![j][k] = Tail(@)]
  BY DEF Take, Receive
<1>2. Deciding(n, t)' = Deciding(n, t)
  <2>1. worker[k][w].state # "announcing" /\ Busy(j, Head(link[j][k])).state # "announcing"
    BY <1>1, Distinct
  <2> QED
    BY <1>1, <2>1, DecidingStays
<1>3. m \in Node
  BY NetworkAssumption
<1>4. CASE j = n /\ k = m
  <2>1. /\ link[n][m] \in Seq(MaySend[n]) /\ link[n][m] # << >>
        /\ link'[n][m] = Tail(link[n][m])
    BY <1>1, <1>3, <1>4 DEF GossipInv, LinkInv
  <2>2. InLink(n, m, t)' + (IF Head(link[n][m]) = NewTransactionHashes(t) THEN 1 ELSE 0)
          <= InLink(n, m, t)
    BY <2>1, PlacesAfterTake DEF InLink
  <2>3. InLink(n, m, t)' \in Nat
    <3>1. link'[n][m] \in Seq(MaySend[n])
      BY <2>1, HeadTailProperties
    <3> QED
      BY <3>1, PlacesAreFinite DEF InLink
  <2>4. /\ InControl(n, t)' = InControl(n, t) /\ ByWorkers(n, t)' = ByWorkers(n, t)
        /\ Budget(n, t)' = Budget(n, t)
    BY <1>1, <1>2, BudgetStays DEF ByWorkers, InControl
  <2>5. InControl(n, t)' + InLink(n, m, t)' + ByWorkers(n, t)' <= Budget(n, t)'
    BY <2>2, <2>3, <2>4, Counts
  <2> QED
    BY <1>2, <2>5, FitsWhen DEF OnceInv
<1>5. CASE ~(j = n /\ k = m)
  <2>1. link'[n][m] = link[n][m]
    BY <1>1, <1>3, <1>5 DEF GossipInv, LinkInv
  <2> QED
    BY <1>1, <1>2, <2>1, BudgetStays, FitsQuietly
<1> QED
  BY <1>4, <1>5

(* The transaction is new to the pool exactly when it is to be announced.   *)
LEMMA FitsHandleTransactions ==
  ASSUME GossipInv, OnceInv, NEW k \in Node, NEW w \in Worker, HandleTransactions(k, w),
         NEW n \in Node, NEW m \in Peers[n], NEW t \in Tx
  PROVE  Fits(n, m, t)
<1> DEFINE u == worker[k][w].msg.tx
           c == IF u \notin pool[k] THEN Announcing(NewTransactionHashes(u)) ELSE Idle
<1>1. /\ UNCHANGED <<control, link, inclusions>>
      /\ pool' = [pool EXCEPT ![k] = @ \union {u}]
      /\ worker[k][w].state = "busy"
      /\ worker' = [worker EXCEPT ![k][w] = c]
  BY DEF HandleTransactions, WorksOn, PoolWith, Continue, NewTo
<1> HIDE DEF c, u
<1>2. CASE k = n /\ u = t /\ u \notin pool[k]
  <2>1. c = Announcing(NewTransactionHashes(t))
    BY <1>2 DEF c
  <2>2. \A v \in Worker : worker'[n][v] = IF v = w THEN c ELSE worker[n][v]
    BY <1>1, <1>2 DEF GossipInv, WorkerInv
  <2>3. Deciding(n, t)' = Deciding(n, t) \union {w}
    BY <2>1, <2>2 DEF Deciding
  <2>4. w \notin Deciding(n, t)
    BY <1>1, <1>2, Distinct DEF Deciding
  <2>5. IsFiniteSet(Deciding(n, t))
    BY DEF OnceInv
  <2>6. IsFiniteSet(Deciding(n, t)') /\ ByWorkers(n, t)' = ByWorkers(n, t) + 1
    BY <2>3, <2>4, <2>5, FS_AddElement DEF ByWorkers
  <2>7. Budget(n, t)' = Budget(n, t) + 1
    BY <1>1, <1>2 DEF Budget, GossipInv, PoolInv
  <2>8. InControl(n, t)' = InControl(n, t) /\ InLink(n, m, t)' = InLink(n, m, t)
    BY <1>1 DEF InControl, InLink
  <2>9. InControl(n, t)' + InLink(n, m, t)' + ByWorkers(n, t)' <= Budget(n, t)'
    BY <2>6, <2>7, <2>8, Counts
  <2> QED
    BY <2>6, <2>9, FitsWhen
<1>3. CASE ~(k = n /\ u = t /\ u \notin pool[k])
  <2>1. Deciding(n, t)' = Deciding(n, t)
    <3>1. \A v \in Worker :
            worker'[n][v] = IF n = k /\ v = w THEN c ELSE worker[n][v]
      BY <1>1 DEF GossipInv, WorkerInv
    <3>2. k = n => c # Announcing(NewTransactionHashes(t))
      BY <1>3, Distinct DEF c
    <3>3. worker[k][w] # Announcing(NewTransactionHashes(t))
      BY <1>1, Distinct
    <3> QED
      BY <3>1, <3>2, <3>3 DEF Deciding
  <2>2. t \in pool'[n] <=> t \in pool[n]
    BY <1>1, <1>3 DEF GossipInv, PoolInv
  <2>3. Budget(n, t)' = Budget(n, t) /\ Budget(n, t) \in Nat
    BY <1>1, <2>2 DEF Budget, GossipInv, PoolInv
  <2> QED
    BY <1>1, <2>1, <2>3, FitsQuietly
<1> QED
  BY <1>2, <1>3

(* The worker hands its announcement to the server.                         *)
LEMMA FitsAnnounce ==
  ASSUME GossipInv, GossipInv', OnceInv, NEW k \in Node, NEW w \in Worker, Announce(k, w),
         NEW n \in Node, NEW m \in Peers[n], NEW t \in Tx
  PROVE  Fits(n, m, t)
<1> DEFINE msg == worker[k][w].msg
<1>1. /\ UNCHANGED <<link, pool, inclusions>>
      /\ worker[k][w] = Announcing(msg)
      /\ worker' = [worker EXCEPT ![k][w] = Idle]
      /\ control' = [control EXCEPT ![k] = @ \o <<msg>>]
      /\ msg \in MaySend[k]
  BY DEF Announce, Finish, Broadcast, GossipInv, WorkerInv, ConditionInv
<1> HIDE DEF msg
<1>2. \A v \in Worker : worker'[n][v] = IF n = k /\ v = w THEN Idle ELSE worker[n][v]
  BY <1>1 DEF GossipInv, WorkerInv
<1>3. \A x : Idle # Announcing(x)
  BY Distinct
<1>4. InLink(n, m, t)' = InLink(n, m, t) /\ Budget(n, t)' = Budget(n, t)
  BY <1>1, BudgetStays DEF InLink
<1>5. IsFiniteSet(Deciding(n, t))
  BY DEF OnceInv
<1>6. CASE k = n
  <2>1. control[n] \in Seq(MaySend[n]) /\ control'[n] = control[n] \o <<msg>>
    BY <1>1, <1>6 DEF GossipInv, ControlInv
  <2>2. control'[n] = Append(control[n], msg)
    BY <1>1, <1>6, <2>1, AppendIsConcat
  <2>3. InControl(n, t)' =
          InControl(n, t) + (IF msg = NewTransactionHashes(t) THEN 1 ELSE 0)
    <3>1. Cardinality(Places(Append(control[n], msg), NewTransactionHashes(t))) =
            Cardinality(Places(control[n], NewTransactionHashes(t)))
              + (IF msg = NewTransactionHashes(t) THEN 1 ELSE 0)
      BY <1>1, <1>6, <2>1, PlacesAfterSend
    <3> QED
      BY <2>2, <3>1 DEF InControl
  <2>4. Deciding(n, t)' = Deciding(n, t) \ {w}
    BY <1>2, <1>3, <1>6 DEF Deciding
  <2>5. w \in Deciding(n, t) <=> msg = NewTransactionHashes(t)
    BY <1>1, <1>6, Distinct DEF Deciding
  <2>6. /\ IsFiniteSet(Deciding(n, t)')
        /\ ByWorkers(n, t)' = IF msg = NewTransactionHashes(t) THEN ByWorkers(n, t) - 1
                              ELSE ByWorkers(n, t)
    BY <1>5, <2>4, <2>5, FS_RemoveElement DEF ByWorkers
  <2>7. InControl(n, t)' + InLink(n, m, t)' + ByWorkers(n, t)' <= Budget(n, t)'
    BY <1>4, <2>3, <2>6, Counts
  <2> QED
    BY <2>6, <2>7, FitsWhen
<1>7. CASE k # n
  <2>1. control'[n] = control[n] /\ link'[n][m] = link[n][m]
    BY <1>1, <1>7 DEF GossipInv, ControlInv
  <2>2. Deciding(n, t)' = Deciding(n, t)
    BY <1>2, <1>7 DEF Deciding
  <2> QED
    BY <1>1, <2>1, <2>2, BudgetStays, FitsQuietly
<1> QED
  BY <1>6, <1>7

LEMMA FitsWork ==
  ASSUME GossipInv, GossipInv', OnceInv, NEW k \in Node, NEW w \in Worker, Work(k, w),
         NEW n \in Node, NEW m \in Peers[n], NEW t \in Tx
  PROVE  Fits(n, m, t)
<1>1. CASE HandleNewTransactionHashes(k, w) \/ HandleGetTransactions(k, w)
  <2>1. /\ UNCHANGED <<control, link, pool, inclusions>>
        /\ worker[k][w].state = "busy"
        /\ \E c : worker' = [worker EXCEPT ![k][w] = c] /\ c.state # "announcing"
    BY <1>1, Distinct
      DEF HandleNewTransactionHashes, HandleGetTransactions, Continue, WorksOn
  <2>2. Deciding(n, t)' = Deciding(n, t)
    BY <2>1, DecidingStays
  <2> QED
    BY <2>1, <2>2, BudgetStays, FitsQuietly
<1>2. CASE Answer(k, w)
  <2> DEFINE to == worker[k][w].to
             msg == worker[k][w].msg
  <2>1. /\ UNCHANGED <<control, pool, inclusions>>
        /\ worker[k][w].state = "answering"
        /\ worker' = [worker EXCEPT ![k][w] = Idle]
        /\ link' = [link EXCEPT ![k][to] = Append(@, msg)]
        /\ to \in Node /\ msg \in MaySend[k] /\ msg.type # "NewTransactionHashes"
    BY <1>2 DEF Answer, Finish, Write, GossipInv, WorkerInv, ConditionInv
  <2> HIDE DEF to, msg
  <2>2. Deciding(n, t)' = Deciding(n, t)
    BY <2>1, DecidingStays, Distinct
  <2>3. m \in Node
    BY NetworkAssumption
  <2>4. InLink(n, m, t)' = InLink(n, m, t)
    <3>1. CASE k = n /\ to = m
      <4>1. link[n][m] \in Seq(MaySend[n]) /\ link'[n][m] = Append(link[n][m], msg)
        BY <2>1, <2>3, <3>1 DEF GossipInv, LinkInv
      <4>2. msg \in MaySend[n] /\ msg # NewTransactionHashes(t)
        BY <2>1, <3>1, Distinct
      <4>3. Cardinality(Places(Append(link[n][m], msg), NewTransactionHashes(t))) =
              Cardinality(Places(link[n][m], NewTransactionHashes(t))) + 0
        BY <4>1, <4>2, PlacesAfterSend
      <4>4. InLink(n, m, t)' = InLink(n, m, t) + 0
        BY <4>1, <4>3 DEF InLink
      <4> QED
        BY <4>4, Counts
    <3>2. CASE ~(k = n /\ to = m)
      <4>1. link'[n][m] = link[n][m]
        BY <2>1, <2>3, <3>2 DEF GossipInv, LinkInv
      <4> QED
        BY <4>1 DEF InLink
    <3> QED
      BY <3>1, <3>2
  <2>5. /\ InControl(n, t)' = InControl(n, t) /\ ByWorkers(n, t)' = ByWorkers(n, t)
        /\ Budget(n, t)' = Budget(n, t)
    BY <2>1, <2>2, BudgetStays DEF InControl, ByWorkers
  <2>6. InControl(n, t)' + InLink(n, m, t)' + ByWorkers(n, t)' <= Budget(n, t)'
    BY <2>4, <2>5, Counts
  <2> QED
    BY <2>2, <2>6, FitsWhen DEF OnceInv
<1> QED
  BY <1>1, <1>2, FitsHandleTransactions, FitsAnnounce DEF Work

LEMMA OnceStep == GossipInv /\ GossipInv' /\ OnceInv /\ [Next]_vars => OnceInv'
<1> SUFFICES ASSUME GossipInv, GossipInv', OnceInv, [Next]_vars
             PROVE  OnceInv'
  OBVIOUS
<1>1. CASE UNCHANGED vars
  <2>1. UNCHANGED <<control, link, worker, pool, inclusions>>
    BY <1>1 DEF vars, networkVars
  <2> QED
    BY <2>1 DEF OnceInv, Deciding, Announcements, Budget
<1>2. CASE Next
  <2>1. \A n \in Node, t \in Tx : \A m \in Peers[n] : Fits(n, m, t)
    BY <1>2, FitsGenerate, FitsInclude, FitsAddGenerated, FitsDispatch, FitsTake, FitsWork DEF Next
  <2> QED
    BY <2>1 DEF OnceInv, Fits
<1> QED
  BY <1>1, <1>2

LEMMA OnceInit == Init => OnceInv
<1> SUFFICES ASSUME Init PROVE OnceInv
  OBVIOUS
<1>1. \A n \in Node, t \in Tx : Deciding(n, t) = {}
  BY Distinct DEF Init, InitNetwork, Deciding
<1>2. ASSUME NEW n \in Node, NEW m \in Peers[n], NEW t \in Tx
      PROVE  Announcements(n, m, t) <= Budget(n, t)
  <2>1. m \in Node
    BY NetworkAssumption
  <2>2. control[n] = << >> /\ link[n][m] = << >>
    BY <2>1 DEF Init, InitNetwork
  <2>3. InControl(n, t) = 0 /\ InLink(n, m, t) = 0 /\ ByWorkers(n, t) = 0
    BY <1>1, <2>2, FS_EmptySet DEF InControl, InLink, ByWorkers, Places
  <2>4. Budget(n, t) = 0
    BY DEF Init, Budget
  <2> QED
    BY <2>3, <2>4, AnnouncementsAre
<1> QED
  BY <1>1, <1>2, FS_EmptySet DEF OnceInv

(* A node never has more announcements of a transaction under way to a peer *)
(* than one, and one more for each block that has been included: two        *)
(* workers that fetched it from two peers do not both announce it.          *)
THEOREM GossipAnnouncedOnce == Spec => []AnnouncedOnce
<1>1. GossipInv /\ OnceInv => AnnouncedOnce
  <2> SUFFICES ASSUME GossipInv, OnceInv, NEW n \in Node, NEW m \in Peers[n], NEW t \in Tx
               PROVE  Announcements(n, m, t) <= 1 + inclusions
    BY DEF AnnouncedOnce
  <2>1. Announcements(n, m, t) <= Budget(n, t) /\ Announcements(n, m, t) \in Nat
    BY Counts, AnnouncementsAre
  <2>2. Budget(n, t) <= 1 + inclusions /\ Budget(n, t) \in Nat /\ inclusions \in Nat
    BY DEF Budget, GossipInv, PoolInv
  <2> QED
    BY <2>1, <2>2
<1>2. Spec => []OnceInv
  BY OnceInit, OnceStep, GossipInvariant, PTL DEF Spec
<1> QED
  BY <1>1, <1>2, GossipInvariant, PTL

================================================================================
