------------------------------- MODULE TxGenerator -------------------------------
(***************************************************************************)
(* The transaction generator of one node (src/txgenerator/mod.rs), which    *)
(* the API starts, and its worker (src/txgenerator/worker.rs), which adds   *)
(* each transaction to the pool and announces it with the pool locked.      *)
(*                                                                         *)
(* Of the rest of the node only what meets these two threads is here:       *)
(* others lock the pool, hold it over a sleep (the miner), unlock it or     *)
(* panic with it; the server goes away.  A mutex is not fair.               *)
(*                                                                         *)
(* Transactions are numbered as they are generated: sender and receiver are *)
(* random, no two are equal.  theta * 30000 is computed in 64 bits: on an   *)
(* overflow a debug build panics, a release build wraps around.             *)
(***************************************************************************)
EXTENDS Naturals, SequencesExt

CONSTANTS
  Theta,       \* the intervals that a Start signal can carry
  Scale,       \* 30000 in the code: microseconds for each unit of theta
  WordSize,    \* 2^64 in the code
  MaxSignals,  \* bound: how many control signals are sent
  MaxMade      \* bound: how many transactions are generated

ASSUME GeneratorAssumption ==
  /\ Theta \subseteq Nat
  /\ Scale \in Nat /\ WordSize \in Nat \ {0}
  /\ MaxSignals \in Nat /\ MaxMade \in Nat

VARIABLES
  pc,         \* where the generator is in its loop, stopped or dead
  operating,  \* operating_state
  signals,    \* control_chan, from the API to the generator
  sent,       \* how many signals have been sent
  interval,   \* how long the generator sleeps, or slept last
  made,       \* how many transactions have been generated
  txChan,     \* tx_chan, from the generator to its worker
  worker,     \* the worker: waiting, with a transaction, announcing, or ended
  pool,       \* the transactions that were put in mem_pool
  announced,  \* the transactions whose announcement the server has taken
  holder,     \* who has locked mem_pool: none, worker or other
  poisoned,   \* who has panicked with mem_pool locked: none, worker or other
  serverUp    \* the server still takes broadcasts

generatorVars == <<pc, operating, interval, made>>
workerVars == <<worker, pool, announced>>
mutexVars == <<holder, poisoned>>
vars == <<generatorVars, signals, sent, txChan, workerVars, mutexVars, serverUp>>

Paused == [mode |-> "Paused"]
Run(theta) == [mode |-> "Run", theta |-> theta]
ShutDown == [mode |-> "ShutDown"]

Exit == [signal |-> "Exit"]
Update == [signal |-> "Update"]
StartSignal(theta) == [signal |-> "Start", theta |-> theta]
ControlSignal == {Exit, Update} \union {StartSignal(i) : i \in Theta}

Waiting == [at |-> "waiting"]
With(t) == [at |-> "with", tx |-> t]
Announcing(t) == [at |-> "announcing", tx |-> t]
Ended == [at |-> "ended"]

Init ==
  /\ pc = "signal"
  /\ operating = Paused
  /\ signals = << >>
  /\ sent = 0
  /\ interval = 0
  /\ made = 0
  /\ txChan = << >>
  /\ worker = Waiting
  /\ pool = {}
  /\ announced = {}
  /\ holder = "none"
  /\ poisoned = "none"
  /\ serverUp = TRUE

PoolIsFree == holder = "none" /\ poisoned = "none"
GeneratorEnded == pc \in {"stopped", "dead"}

--------------------------------------------------------------------------------
(* The generator thread *)

(* A paused generator waits for a signal; Exit ends it one turn later.      *)
SignalWhenPaused ==
  /\ pc = "signal" /\ operating = Paused
  /\ signals # << >>
  /\ LET s == Head(signals)
     IN  operating' = CASE s = Exit -> ShutDown
                        [] s = Update -> Paused
                        [] s \notin {Exit, Update} -> Run(s.theta)
  /\ signals' = Tail(signals)
  /\ UNCHANGED <<pc, interval, made, sent, txChan, workerVars, mutexVars, serverUp>>

Return ==
  /\ pc = "signal" /\ operating = ShutDown
  /\ pc' = "stopped"
  /\ UNCHANGED <<operating, interval, made, signals, sent, txChan, workerVars,
                 mutexVars, serverUp>>

(* A faulty running generator takes Exit for Update. *)
LookWithoutExit ==
  /\ pc = "signal" /\ operating.mode = "Run"
  /\ operating' = IF signals # << >> /\ Head(signals) \notin {Exit, Update}
                  THEN Run(Head(signals).theta) ELSE operating
  /\ pc' = "make"
  /\ signals' = IF signals = << >> THEN << >> ELSE Tail(signals)
  /\ UNCHANGED <<interval, made, sent, txChan, workerVars, mutexVars, serverUp>>

(* A running generator looks for one signal per turn without waiting; Exit  *)
(* ends it at once.                                                         *)
Look ==
  /\ pc = "signal" /\ operating.mode = "Run"
  /\ \/ /\ signals = << >>
        /\ pc' = "make"
        /\ UNCHANGED <<operating, signals>>
     \/ /\ signals # << >>
        /\ signals' = Tail(signals)
        /\ operating' = CASE Head(signals) = Exit -> ShutDown
                          [] Head(signals) = Update -> operating
                          [] Head(signals) \notin {Exit, Update} -> Run(Head(signals).theta)
        /\ pc' = IF Head(signals) = Exit THEN "stopped" ELSE "make"
  /\ UNCHANGED <<interval, made, sent, txChan, workerVars, mutexVars, serverUp>>

(* The transaction goes to the worker, which may be gone: the generator     *)
(* panics.  Then follow the sleep or, if theta is 0, the next turn.         *)
Make ==
  /\ pc = "make" /\ made < MaxMade
  /\ \/ /\ worker # Ended
        /\ made' = made + 1
        /\ txChan' = Append(txChan, made + 1)
        /\ pc' = IF operating.theta = 0 THEN "signal" ELSE "pause"
     \/ /\ worker = Ended
        /\ pc' = "dead"
        /\ UNCHANGED <<made, txChan>>
  /\ UNCHANGED <<operating, interval, signals, sent, workerVars, mutexVars, serverUp>>

Overflows(theta) == theta * Scale >= WordSize

GoToSleep ==
  /\ pc = "pause"
  /\ pc' = "sleep"
  /\ interval' = (operating.theta * Scale) % WordSize
  /\ UNCHANGED <<operating, made, signals, sent, txChan, workerVars, mutexVars, serverUp>>

(* In a debug build. *)
Overflow ==
  /\ pc = "pause" /\ Overflows(operating.theta)
  /\ pc' = "dead"
  /\ UNCHANGED <<operating, interval, made, signals, sent, txChan, workerVars,
                 mutexVars, serverUp>>

WakeUp ==
  /\ pc = "sleep"
  /\ pc' = "signal"
  /\ UNCHANGED <<operating, interval, made, signals, sent, txChan, workerVars,
                 mutexVars, serverUp>>

Generator ==
  SignalWhenPaused \/ Return \/ Look \/ Make \/ GoToSleep \/ Overflow \/ WakeUp

--------------------------------------------------------------------------------
(* The worker thread *)

(* recv() *)
Take ==
  /\ worker = Waiting /\ txChan # << >>
  /\ worker' = With(Head(txChan))
  /\ txChan' = Tail(txChan)
  /\ UNCHANGED <<generatorVars, signals, sent, pool, announced, mutexVars, serverUp>>

(* A faulty worker looks at the generator before it looks at the channel. *)
LeaveWithGenerator ==
  /\ worker = Waiting /\ GeneratorEnded
  /\ worker' = Ended
  /\ UNCHANGED <<generatorVars, signals, sent, txChan, pool, announced, mutexVars, serverUp>>

(* recv() fails once the generator has ended and the channel is empty.      *)
LoseGenerator ==
  /\ worker = Waiting /\ txChan = << >> /\ GeneratorEnded
  /\ worker' = Ended
  /\ UNCHANGED <<generatorVars, signals, sent, txChan, pool, announced, mutexVars, serverUp>>

Insert ==
  /\ worker.at = "with" /\ PoolIsFree
  /\ holder' = "worker"
  /\ pool' = pool \union {worker.tx}
  /\ worker' = Announcing(worker.tx)
  /\ UNCHANGED <<generatorVars, signals, sent, txChan, announced, poisoned, serverUp>>

FindPoison ==
  /\ worker.at = "with" /\ poisoned # "none"
  /\ worker' = Ended
  /\ UNCHANGED <<generatorVars, signals, sent, txChan, pool, announced, mutexVars, serverUp>>

(* A faulty worker keeps the guard until it has locked the pool again. *)
AnnounceAndKeepPool ==
  /\ worker.at = "announcing" /\ serverUp
  /\ announced' = announced \union {worker.tx}
  /\ worker' = Waiting
  /\ UNCHANGED <<generatorVars, signals, sent, txChan, pool, mutexVars, serverUp>>

Announce ==
  /\ worker.at = "announcing" /\ serverUp
  /\ announced' = announced \union {worker.tx}
  /\ worker' = Waiting
  /\ holder' = "none"
  /\ UNCHANGED <<generatorVars, signals, sent, txChan, pool, poisoned, serverUp>>

(* broadcast() unwraps the failure to send. *)
AnnounceFails ==
  /\ worker.at = "announcing" /\ ~serverUp
  /\ worker' = Ended
  /\ holder' = "none"
  /\ poisoned' = "worker"
  /\ UNCHANGED <<generatorVars, signals, sent, txChan, pool, announced, serverUp>>

TxWorker ==
  Take \/ LoseGenerator \/ Insert \/ FindPoison \/ Announce \/ AnnounceFails

--------------------------------------------------------------------------------
(* The rest of the node *)

(* The API server only ever sends Start. *)
SendSignal(s) ==
  /\ sent < MaxSignals
  /\ sent' = sent + 1
  /\ signals' = Append(signals, s)
  /\ UNCHANGED <<generatorVars, txChan, workerVars, mutexVars, serverUp>>

OtherLocks ==
  /\ PoolIsFree
  /\ holder' = "other"
  /\ UNCHANGED <<generatorVars, signals, sent, txChan, workerVars, poisoned, serverUp>>

OtherUnlocks ==
  /\ holder = "other"
  /\ holder' = "none"
  /\ UNCHANGED <<generatorVars, signals, sent, txChan, workerVars, poisoned, serverUp>>

(* The miner panics with the pool locked when its worker is gone. *)
OtherPanics ==
  /\ holder = "other"
  /\ holder' = "none"
  /\ poisoned' = "other"
  /\ UNCHANGED <<generatorVars, signals, sent, txChan, workerVars, serverUp>>

LoseServer ==
  /\ serverUp
  /\ serverUp' = FALSE
  /\ UNCHANGED <<generatorVars, signals, sent, txChan, workerVars, mutexVars>>

Others == OtherLocks \/ OtherUnlocks \/ OtherPanics \/ LoseServer

Next ==
  \/ Generator
  \/ TxWorker
  \/ \E s \in ControlSignal : SendSignal(s)
  \/ Others

(* The threads run, and whoever else locks the pool unlocks it or panics.   *)
Fairness ==
  WF_vars(Generator) /\ WF_vars(TxWorker) /\ WF_vars(OtherUnlocks \/ OtherPanics)

Spec == Init /\ [][Next]_vars /\ Fairness

--------------------------------------------------------------------------------
(* Type correctness.                                                        *)
TypeOK ==
  /\ pc \in {"signal", "make", "pause", "sleep", "stopped", "dead"}
  /\ operating \in {Paused, ShutDown} \union {Run(i) : i \in Theta}
  /\ pc \in {"make", "pause", "sleep"} => operating.mode = "Run"
  /\ signals \in Seq(ControlSignal)
  /\ sent \in 0 .. MaxSignals
  /\ interval \in 0 .. WordSize - 1
  /\ made \in 0 .. MaxMade
  /\ txChan \in Seq(1 .. made)
  /\ worker.at \in {"waiting", "with", "announcing", "ended"}
  /\ pool \subseteq 1 .. made /\ announced \subseteq pool
  /\ holder \in {"none", "worker", "other"}
  /\ holder = "worker" <=> worker.at = "announcing"
  /\ poisoned \in {"none", "worker", "other"}
  /\ serverUp \in BOOLEAN

(* What the generator had handed over when it ended is in the pool and      *)
(* announced before the worker ends, unless another failure ended the       *)
(* worker: the one transaction it held is then lost along with those queued.*)
NothingLeftBehind ==
  worker = Ended /\ poisoned = "none" => announced = 1 .. made

(* A generator that has been told to exit ends, wherever in its turn it is. *)
(* It looks at one signal in a turn: an Exit behind k - 1 others ends it    *)
(* after at most k more transactions (as many as the bound allows).         *)
ExitIsHonoured ==
  (\E k \in DOMAIN signals : signals[k] = Exit /\ made + k <= MaxMade) ~> GeneratorEnded

(* The worker gets through with every transaction, or ends, unless others   *)
(* lock the pool again and again: starvation by them is possible, a         *)
(* deadlock with them or with itself is not.                                *)
MadeIsAnnounced ==
  \/ []<>(holder = "other")
  \/ \A t \in 1 .. MaxMade : t <= made ~> t \in announced \/ worker = Ended

================================================================================
