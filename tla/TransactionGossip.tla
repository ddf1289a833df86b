---------------------------- MODULE TransactionGossip ----------------------------
(***************************************************************************)
(* Nodes that generate transactions and spread them from pool to pool.      *)
(* Composes, for every node, the transaction generator                      *)
(* (src/txgenerator/mod.rs), its worker thread (src/txgenerator/worker.rs), *)
(* the network worker threads (src/network/worker.rs) and the server.       *)
(*                                                                         *)
(* Every transaction is generated once, signed, and announced by itself, so *)
(* every message holds one transaction.  Blocks appear only as what they do *)
(* to the pools: the miner and the arm Blocks of worker_loop take           *)
(* transactions out (action Include).                                       *)
(*                                                                         *)
(* A network worker has the mutex of the pool while it looks at or changes  *)
(* the pool, and has given it back when it sends the answer.                *)
(***************************************************************************)
EXTENDS Network, FiniteSets

CONSTANTS
  Tx,
  Generators,    \* the nodes whose generator is running
  MaxInclusions  \* bound: how often a transaction leaves a pool for a block

ASSUME TransactionAssumption ==
  /\ Generators \subseteq Node
  /\ MaxInclusions \in Nat

VARIABLES
  pool,        \* pool[n]: mem_pool, behind its mutex
  generated,   \* the transactions that have been generated
  txChan,      \* txChan[n]: tx_chan, from the generator to its worker
  inclusions   \* how often a transaction has left a pool for a block

vars == <<networkVars, pool, generated, txChan, inclusions>>

NewTransactionHashes(t) == [type |-> "NewTransactionHashes", tx |-> t]
GetTransactions(t) == [type |-> "GetTransactions", tx |-> t]
Transactions(t) == [type |-> "Transactions", tx |-> t]

(* A worker that has decided on its answer: to one peer, or to all. *)
Answering(m, msg) == [state |-> "answering", to |-> m, msg |-> msg]
Announcing(msg) == [state |-> "announcing", msg |-> msg]

Init ==
  /\ InitNetwork
  /\ pool = [n \in Node |-> {}]
  /\ generated = {}
  /\ txChan = [n \in Node |-> << >>]
  /\ inclusions = 0

--------------------------------------------------------------------------------
(* The generator and its worker *)

Generate(n, t) ==
  /\ n \in Generators
  /\ t \notin generated
  /\ generated' = generated \union {t}
  /\ txChan' = [txChan EXCEPT ![n] = Append(@, t)]
  /\ UNCHANGED <<networkVars, pool, inclusions>>

(* A faulty worker does not insert the transaction. *)
PoolWithout(n, t) == pool

(* mem_pool.insert *)
PoolWith(n, t) == [pool EXCEPT ![n] = @ \union {t}]

(* The worker announces the transaction before it gives the mutex back.     *)
AddGenerated(n) ==
  /\ txChan[n] # << >>
  /\ LET t == Head(txChan[n])
     IN  /\ pool' = PoolWith(n, t)
         /\ Broadcast(n, <<NewTransactionHashes(t)>>)
  /\ txChan' = [txChan EXCEPT ![n] = Tail(@)]
  /\ UNCHANGED <<link, worker, generated, inclusions>>

--------------------------------------------------------------------------------
(* The server and the network worker threads *)

Dispatch(n) == Forward(n) /\ UNCHANGED <<pool, generated, txChan, inclusions>>

Take(n, w, m) == Receive(n, w, m) /\ UNCHANGED <<pool, generated, txChan, inclusions>>

Continue(n, w, next) == worker' = [worker EXCEPT ![n][w] = next]

HandleNewTransactionHashes(n, w) ==
  /\ WorksOn(n, w, "NewTransactionHashes")
  /\ LET t == worker[n][w].msg.tx
     IN  Continue(n, w, IF t \in pool[n] THEN Idle
                        ELSE Answering(worker[n][w].from, GetTransactions(t)))
  /\ UNCHANGED <<control, link, pool, generated, txChan, inclusions>>

(* A faulty worker waits until it has the transaction it is asked for. *)
HandleGetTransactionsLater(n, w) ==
  /\ WorksOn(n, w, "GetTransactions")
  /\ worker[n][w].msg.tx \in pool[n]
  /\ Continue(n, w, Answering(worker[n][w].from, Transactions(worker[n][w].msg.tx)))
  /\ UNCHANGED <<control, link, pool, generated, txChan, inclusions>>

HandleGetTransactions(n, w) ==
  /\ WorksOn(n, w, "GetTransactions")
  /\ LET t == worker[n][w].msg.tx
     IN  Continue(n, w, IF t \in pool[n]
                        THEN Answering(worker[n][w].from, Transactions(t))
                        ELSE Idle)
  /\ UNCHANGED <<control, link, pool, generated, txChan, inclusions>>

(* A faulty worker takes every transaction for a new one. *)
NewToAll(n, t) == TRUE

(* !mem_pool.contains_key(&hash) *)
NewTo(n, t) == t \notin pool[n]

(* The transaction joins the pool unless it is there, and is announced if   *)
(* it joined; both are decided while the worker has the mutex.              *)
HandleTransactions(n, w) ==
  /\ WorksOn(n, w, "Transactions")
  /\ LET t == worker[n][w].msg.tx
     IN  /\ pool' = PoolWith(n, t)
         /\ Continue(n, w, IF NewTo(n, t)
                           THEN Announcing(NewTransactionHashes(t))
                           ELSE Idle)
  /\ UNCHANGED <<control, link, generated, txChan, inclusions>>

Answer(n, w) ==
  /\ worker[n][w].state = "answering"
  /\ Write(n, worker[n][w].to, worker[n][w].msg)
  /\ Finish(n, w)
  /\ UNCHANGED <<control, pool, generated, txChan, inclusions>>

Announce(n, w) ==
  /\ worker[n][w].state = "announcing"
  /\ Broadcast(n, <<worker[n][w].msg>>)
  /\ Finish(n, w)
  /\ UNCHANGED <<link, pool, generated, txChan, inclusions>>

Work(n, w) ==
  \/ HandleNewTransactionHashes(n, w)
  \/ HandleGetTransactions(n, w)
  \/ HandleTransactions(n, w)
  \/ Answer(n, w)
  \/ Announce(n, w)

(* A block with the transaction is mined or accepted.  *)
Include(n, t) ==
  /\ t \in pool[n]
  /\ inclusions < MaxInclusions
  /\ inclusions' = inclusions + 1
  /\ pool' = [pool EXCEPT ![n] = @ \ {t}]
  /\ UNCHANGED <<networkVars, generated, txChan>>

--------------------------------------------------------------------------------
Next ==
  \E n \in Node :
    \/ \E t \in Tx : Generate(n, t) \/ Include(n, t)
    \/ AddGenerated(n)
    \/ Dispatch(n)
    \/ \E w \in Worker, m \in Node : Take(n, w, m)
    \/ \E w \in Worker : Work(n, w)

Fairness ==
  \A n \in Node :
    /\ WF_vars(AddGenerated(n))
    /\ WF_vars(Dispatch(n))
    /\ \A w \in Worker : WF_vars(\E m \in Node : Take(n, w, m))
    /\ \A w \in Worker : WF_vars(Work(n, w))

Spec == Init /\ [][Next]_vars /\ Fairness

--------------------------------------------------------------------------------
(* How many announcements of t by n to m are decided on or on their way.    *)
Announcements(n, m, t) ==
  LET msg == NewTransactionHashes(t)
      count(s) == Cardinality({i \in DOMAIN s : s[i] = msg})
  IN  count(control[n]) + count(link[n][m])
        + Cardinality({w \in Worker : worker[n][w] = Announcing(msg)})

(* A node never has two announcements of one transaction under way, even   *)
(* when two workers have fetched it from two peers: the second finds it in  *)
(* the pool.  Only a block that takes it out of the pool in between lets it *)
(* be announced again.  It keeps the gossip from multiplying.               *)
AnnouncedOnce ==
  \A n \in Node : \A m \in Peers[n], t \in Tx :
    Announcements(n, m, t) <= 1 + inclusions

(* Until a block takes transactions out of the pools, a node can serve      *)
(* every transaction that it announces.                                     *)
AnnouncedIsPooled ==
  \A n \in Node, t \in Tx :
    NewTransactionHashes(t) \in Undelivered(n) => t \in pool[n] \/ inclusions > 0

(* Every transaction that is generated gets into every pool, over any       *)
(* route, unless a block takes it out of a pool on its way.                 *)
EveryPoolGetsEveryTransaction ==
  \A t \in Tx : t \in generated ~> inclusions > 0 \/ \A n \in Node : t \in pool[n]

(* A transaction that peers send back after it was mined joins the pool and *)
(* is announced again, but the exchange dies out: the nodes do not hand a   *)
(* transaction back and forth for ever.                                     *)
GossipDiesOut == <>[](\A n \in Node : Undelivered(n) = {})

================================================================================
