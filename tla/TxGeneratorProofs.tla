--------------------------- MODULE TxGeneratorProofs ---------------------------
(***************************************************************************)
(* Theorems about TxGenerator: what becomes of the transactions handed over *)
(* when a generator ends, for any intervals and any number of signals and   *)
(* transactions.                                                            *)
(***************************************************************************)
EXTENDS TxGenerator, SequenceTheorems, TLAPS

(* The worker is with a transaction that is not announced yet.              *)
Holds == worker.at \in {"with", "announcing"}

(* How many transactions have left the worker's hands.                      *)
Done == made - Len(txChan) - (IF Holds THEN 1 ELSE 0)

WorkerState ==
  {Waiting, Ended} \union {With(t) : t \in Nat} \union {Announcing(t) : t \in Nat}

(* A worker that ends over a poisoned pool or a lost server loses what it   *)
(* is with.                                                                 *)
Lost == worker = Ended /\ poisoned # "none"

(* The transactions stay in order: those announced, the one that the worker *)
(* is with, those in the channel.                                           *)
InOrder ==
  /\ Done \in Nat
  /\ announced = 1 .. Done
  /\ Holds => worker.tx = Done + 1
  /\ \A k \in DOMAIN txChan : txChan[k] = made - Len(txChan) + k

OrderInv ==
  /\ made \in Nat
  /\ txChan \in Seq(Nat)
  /\ worker \in WorkerState
  /\ Lost \/ InOrder

(* A worker that has ended without anyone's panic has lost a generator that *)
(* left nothing.                                                            *)
EndInv == worker = Ended /\ poisoned = "none" => GeneratorEnded /\ txChan = << >>

GeneratorInv == OrderInv /\ EndInv

LEMMA WorkerCases ==
  /\ Waiting.at = "waiting" /\ Ended.at = "ended"
  /\ \A t : /\ With(t).at = "with" /\ With(t).tx = t
            /\ Announcing(t).at = "announcing" /\ Announcing(t).tx = t
  /\ Waiting \in WorkerState /\ Ended \in WorkerState
  /\ \A t \in Nat : With(t) \in WorkerState /\ Announcing(t) \in WorkerState
BY DEF Waiting, Ended, With, Announcing, WorkerState

LEMMA GeneratorInit ==
  ASSUME Init
  PROVE  GeneratorInv
<1>1. made = 0 /\ txChan = << >> /\ worker = Waiting /\ announced = {}
      /\ poisoned = "none" /\ ~Holds /\ worker # Ended
  BY DEF Init, Holds, Waiting, Ended
<1>2. Len(txChan) = 0 /\ txChan \in Seq(Nat) /\ DOMAIN txChan = {}
  BY <1>1
<1>3. Done = 0
  <2>1. made - Len(txChan) - 0 = 0
    <3>1. made = 0 /\ Len(txChan) = 0
      BY <1>1, <1>2
    <3> QED
      BY <3>1
  <2> QED
    BY <1>1, <2>1 DEF Done
<1>4. InOrder
  BY <1>1, <1>2, <1>3 DEF InOrder
<1> QED
  BY <1>1, <1>2, <1>4, WorkerCases DEF GeneratorInv, OrderInv, EndInv

(* Steps that touch neither what is handed over nor the worker.             *)
LEMMA OrderKept ==
  ASSUME OrderInv, UNCHANGED <<made, txChan, worker, announced>>,
         poisoned' = poisoned \/ poisoned' # "none"
  PROVE  OrderInv'
BY DEF OrderInv, InOrder, Lost, Done, Holds

LEMMA MakeStep ==
  ASSUME GeneratorInv, Make
  PROVE  GeneratorInv'
<1>1. CASE worker # Ended /\ made' = made + 1 /\ txChan' = Append(txChan, made + 1)
  <2>1. /\ txChan' \in Seq(Nat) /\ Len(txChan') = Len(txChan) + 1
        /\ \A k \in 1 .. Len(txChan) : txChan'[k] = txChan[k]
        /\ txChan'[Len(txChan) + 1] = made + 1
        /\ Len(txChan) \in Nat
    BY <1>1, AppendProperties, LenProperties DEF GeneratorInv, OrderInv, InOrder, Lost
  <2>2. DOMAIN txChan' = 1 .. Len(txChan) + 1 /\ DOMAIN txChan = 1 .. Len(txChan)
    BY <2>1, LenProperties DEF GeneratorInv, OrderInv, InOrder, Lost
  <2>3. worker' = worker /\ announced' = announced /\ UNCHANGED <<poisoned, serverUp>>
    BY DEF Make, workerVars, mutexVars
  <2>4. Done' = Done
    BY <1>1, <2>1, <2>3 DEF Done, Holds, GeneratorInv, OrderInv, InOrder, Lost
  <2>5. \A k \in DOMAIN txChan' : txChan'[k] = made' - Len(txChan') + k
    BY <1>1, <2>1, <2>2 DEF GeneratorInv, OrderInv, InOrder, Lost
  <2>6. OrderInv'
    BY <1>1, <2>1, <2>3, <2>4, <2>5 DEF GeneratorInv, OrderInv, InOrder, Lost, Holds
  <2> QED
    BY <1>1, <2>3, <2>6 DEF GeneratorInv, EndInv
<1>2. CASE worker = Ended /\ pc' = "dead" /\ UNCHANGED <<made, txChan>>
  BY <1>2, OrderKept DEF Make, GeneratorInv, EndInv, GeneratorEnded, workerVars, mutexVars
<1> QED
  BY <1>1, <1>2 DEF Make

LEMMA TakeStep ==
  ASSUME GeneratorInv, Take
  PROVE  GeneratorInv'
<1>1. /\ worker = Waiting /\ worker # Ended /\ txChan # << >> /\ made' = made /\ announced' = announced
      /\ worker' = With(Head(txChan)) /\ txChan' = Tail(txChan)
      /\ UNCHANGED <<poisoned, serverUp>>
  BY WorkerCases DEF Take, generatorVars, mutexVars
<1>2. /\ txChan' \in Seq(Nat) /\ Len(txChan') = Len(txChan) - 1
      /\ \A k \in 1 .. Len(txChan') : txChan'[k] = txChan[k + 1]
      /\ Head(txChan) = txChan[1] /\ Len(txChan) \in Nat /\ Len(txChan) # 0
  BY <1>1, HeadTailProperties, LenProperties, EmptySeq DEF GeneratorInv, OrderInv, InOrder, Lost
<1>3. DOMAIN txChan' = 1 .. Len(txChan) - 1 /\ DOMAIN txChan = 1 .. Len(txChan)
  BY <1>2, LenProperties DEF GeneratorInv, OrderInv, InOrder, Lost
<1>4. ~Holds /\ Holds' /\ worker'.tx = txChan[1] /\ worker' # Ended
  BY <1>1, <1>2, WorkerCases DEF Holds
<1>5. Done' = Done /\ txChan[1] = Done + 1
  BY <1>1, <1>2, <1>3, <1>4 DEF Done, GeneratorInv, OrderInv, InOrder, Lost
<1>6. worker' \in WorkerState
  BY <1>1, <1>2, <1>3, WorkerCases, ElementOfSeq DEF GeneratorInv, OrderInv, InOrder, Lost
<1>7. \A k \in DOMAIN txChan' : txChan'[k] = made' - Len(txChan') + k
  BY <1>1, <1>2, <1>3 DEF GeneratorInv, OrderInv, InOrder, Lost
<1>8. OrderInv'
  BY <1>1, <1>2, <1>4, <1>5, <1>6, <1>7 DEF GeneratorInv, OrderInv, InOrder, Lost
<1> QED
  BY <1>1, <1>4, <1>8 DEF GeneratorInv, EndInv

LEMMA InsertStep ==
  ASSUME GeneratorInv, Insert
  PROVE  GeneratorInv'
<1>1. /\ worker.at = "with" /\ worker # Ended /\ worker' = Announcing(worker.tx)
      /\ UNCHANGED <<made, txChan, announced, poisoned, serverUp>>
  BY WorkerCases DEF Insert, generatorVars
<1>2. Holds /\ Holds' /\ worker'.tx = worker.tx /\ worker' # Ended
  BY <1>1, WorkerCases DEF Holds
<1>3. Done' = Done
  BY <1>1, <1>2 DEF Done
<1>4. worker' \in WorkerState
  BY <1>1, <1>2, WorkerCases DEF GeneratorInv, OrderInv, InOrder, Lost
<1>5. OrderInv'
  BY <1>1, <1>2, <1>3, <1>4 DEF GeneratorInv, OrderInv, InOrder, Lost
<1> QED
  BY <1>1, <1>2, <1>5 DEF GeneratorInv, EndInv

LEMMA AnnounceStep ==
  ASSUME GeneratorInv, Announce
  PROVE  GeneratorInv'
<1>1. /\ worker.at = "announcing" /\ worker # Ended /\ worker' = Waiting
      /\ announced' = announced \union {worker.tx}
      /\ UNCHANGED <<made, txChan, poisoned, serverUp>>
  BY WorkerCases DEF Announce, generatorVars
<1>2. Holds /\ ~Holds' /\ worker' # Ended /\ worker' \in WorkerState
  BY <1>1, WorkerCases DEF Holds
<1>3. Done' = Done + 1
  BY <1>1, <1>2, LenProperties DEF Done, GeneratorInv, OrderInv, InOrder, Lost
<1>4. announced' = 1 .. Done + 1
  BY <1>1, <1>2 DEF GeneratorInv, OrderInv, InOrder, Lost
<1>5. OrderInv'
  BY <1>1, <1>2, <1>3, <1>4 DEF GeneratorInv, OrderInv, InOrder, Lost
<1> QED
  BY <1>1, <1>2, <1>5 DEF GeneratorInv, EndInv

(* The worker ends: for want of a generator, which leaves nothing in the    *)
(* channel, or over a poisoned pool or a lost server.                       *)
LEMMA EndStep ==
  ASSUME GeneratorInv, LoseGenerator \/ FindPoison \/ AnnounceFails
  PROVE  GeneratorInv'
<1>1. /\ worker' = Ended /\ worker' \in WorkerState
      /\ UNCHANGED <<pc, made, txChan, announced, serverUp>>
  BY WorkerCases DEF LoseGenerator, FindPoison, AnnounceFails, generatorVars
<1>2. CASE LoseGenerator
  <2>1. /\ worker = Waiting /\ worker # Ended /\ txChan = << >> /\ GeneratorEnded
        /\ poisoned' = poisoned /\ ~Holds /\ ~Holds'
    BY <1>1, <1>2, WorkerCases DEF LoseGenerator, mutexVars, Holds
  <2>2. InOrder'
    BY <1>1, <2>1 DEF GeneratorInv, OrderInv, InOrder, Lost, Done
  <2> QED
    BY <1>1, <2>1, <2>2 DEF GeneratorInv, OrderInv, EndInv, GeneratorEnded
<1>3. CASE FindPoison
  BY <1>1, <1>3 DEF FindPoison, mutexVars, GeneratorInv, OrderInv, Lost, EndInv
<1>4. CASE AnnounceFails
  BY <1>1, <1>4 DEF AnnounceFails, GeneratorInv, OrderInv, Lost, EndInv
<1> QED
  BY <1>2, <1>3, <1>4

(* The steps of the generator that hand nothing over, and those of others.  *)
LEMMA OtherStep ==
  ASSUME GeneratorInv,
         \/ SignalWhenPaused \/ Return \/ Look \/ GoToSleep \/ Overflow \/ WakeUp
         \/ \E s \in ControlSignal : SendSignal(s)
         \/ Others
         \/ UNCHANGED vars
  PROVE  GeneratorInv'
<1>1. /\ UNCHANGED <<made, txChan, worker, announced>>
      /\ poisoned' = poisoned \/ poisoned' = "other"
      /\ serverUp' = serverUp \/ serverUp' = FALSE
  BY DEF SignalWhenPaused, Return, Look, GoToSleep, Overflow, WakeUp, SendSignal, Others,
         OtherLocks, OtherUnlocks, OtherPanics, LoseServer,
         vars, generatorVars, workerVars, mutexVars
<1>2. GeneratorEnded => GeneratorEnded'
  BY DEF SignalWhenPaused, Return, Look, GoToSleep, Overflow, WakeUp, SendSignal, Others,
         OtherLocks, OtherUnlocks, OtherPanics, LoseServer, GeneratorEnded,
         vars, generatorVars
<1>3. OrderInv'
  BY <1>1, OrderKept DEF GeneratorInv
<1>4. EndInv'
  BY <1>1, <1>2 DEF GeneratorInv, EndInv
<1> QED
  BY <1>3, <1>4 DEF GeneratorInv

LEMMA GeneratorStep ==
  ASSUME GeneratorInv, [Next]_vars
  PROVE  GeneratorInv'
BY MakeStep, TakeStep, InsertStep, AnnounceStep, EndStep, OtherStep
   DEF Next, Generator, TxWorker

LEMMA GeneratorInvariant == Spec => []GeneratorInv
<1>1. Init => GeneratorInv
  BY GeneratorInit
<1>2. GeneratorInv /\ [Next]_vars => GeneratorInv'
  BY GeneratorStep
<1> QED
  BY <1>1, <1>2, PTL DEF Spec

(* When the worker has ended and nobody has panicked with the pool locked,  *)
(* all that was ever generated is announced.                                *)
THEOREM GeneratorLeavesNothing == Spec => []NothingLeftBehind
<1>1. GeneratorInv => NothingLeftBehind
  <2> SUFFICES ASSUME GeneratorInv, worker = Ended, poisoned = "none"
               PROVE  announced = 1 .. made
    BY DEF NothingLeftBehind
  <2>1. txChan = << >> /\ InOrder /\ ~Holds /\ made \in Nat
    BY WorkerCases DEF GeneratorInv, EndInv, OrderInv, Lost, Holds
  <2>2. Len(txChan) = 0
    BY <2>1
  <2>3. Done = made
    <3>1. made - Len(txChan) - 0 = made
      BY <2>1, <2>2
    <3> QED
      BY <2>1, <3>1 DEF Done
  <2> QED
    BY <2>1, <2>3 DEF InOrder
<1> QED
  BY <1>1, GeneratorInvariant, PTL

--------------------------------------------------------------------------------
(* Type correctness. *)

OperatingState == {Paused, ShutDown} \union {Run(i) : i \in Theta}

(* The generator. *)
LoopInv ==
  /\ pc \in {"signal", "make", "pause", "sleep", "stopped", "dead"}
  /\ operating \in OperatingState
  /\ pc \in {"make", "pause", "sleep"} => operating.mode = "Run"
  /\ signals \in Seq(ControlSignal)
  /\ sent \in 0 .. MaxSignals
  /\ interval \in 0 .. WordSize - 1

(* Its worker, which holds the mutex of the pool exactly while it announces *)
(* a transaction that it has put there.                                     *)
HandOverInv ==
  /\ made \in 0 .. MaxMade
  /\ txChan \in Seq(1 .. made)
  /\ worker \in {Waiting, Ended} \union {With(t) : t \in 1 .. made}
                  \union {Announcing(t) : t \in pool}
  /\ pool \subseteq 1 .. made /\ announced \subseteq pool
  /\ holder \in {"none", "worker", "other"}
  /\ holder = "worker" <=> worker.at = "announcing"
  /\ poisoned \in {"none", "worker", "other"}
  /\ serverUp \in BOOLEAN

(* Every signal leads to a state of the generator. *)
LEMMA SignalsAreUnderstood ==
  ASSUME NEW s \in ControlSignal
  PROVE  s \notin {Exit, Update} =>
           Run(s.theta) \in OperatingState /\ Run(s.theta).mode = "Run"
<1> SUFFICES ASSUME NEW i \in Theta, s = StartSignal(i)
             PROVE  Run(s.theta) \in OperatingState /\ Run(s.theta).mode = "Run"
  BY DEF ControlSignal
<1>1. s.theta = i
  BY DEF StartSignal
<1> QED
  BY <1>1 DEF OperatingState, Run

(* A generator that runs has been told for how long to sleep. *)
LEMMA RunsWithTheta ==
  ASSUME operating \in OperatingState, operating.mode = "Run"
  PROVE  operating.theta \in Nat
<1>1. PICK i \in Theta : operating = Run(i)
  BY DEF OperatingState, Paused, ShutDown
<1> QED
  BY <1>1, GeneratorAssumption DEF Run

(* The interval is that of a machine word. *)
LEMMA WordsAreBounded ==
  ASSUME NEW theta \in Nat
  PROVE  (theta * Scale) % WordSize \in 0 .. WordSize - 1
<1>1. Scale \in Nat /\ WordSize \in Nat /\ WordSize > 0
  BY GeneratorAssumption
<1>2. theta * Scale \in Nat
  BY <1>1
<1> DEFINE n == theta * Scale
<1>3. n \in Nat
  BY <1>2
<1> HIDE DEF n
<1>4. n % WordSize \in 0 .. WordSize - 1
  BY <1>1, <1>3
<1> QED
  BY <1>4 DEF n

LEMMA GeneratorLoops ==
  ASSUME LoopInv, Generator
  PROVE  LoopInv'
<1>1. signals # << >> => Head(signals) \in ControlSignal /\ Tail(signals) \in Seq(ControlSignal)
  BY HeadTailProperties DEF LoopInv
<1> DEFINE s == Head(signals)
<1>2. signals # << >> /\ s \notin {Exit, Update} =>
        Run(s.theta) \in OperatingState /\ Run(s.theta).mode = "Run"
  BY <1>1, SignalsAreUnderstood
<1>3. CASE SignalWhenPaused
  <2>1. /\ \/ operating' \in {Paused, ShutDown}
           \/ s \notin {Exit, Update} /\ operating' = Run(s.theta)
        /\ signals # << >> /\ signals' = Tail(signals) /\ pc' = "signal"
        /\ UNCHANGED <<sent, interval>>
    BY <1>3 DEF SignalWhenPaused
  <2>2. operating' \in OperatingState
    BY <1>2, <2>1 DEF OperatingState
  <2> QED
    BY <1>1, <2>1, <2>2 DEF LoopInv
<1>4. CASE Look
  <2>1. UNCHANGED <<sent, interval>> /\ operating.mode = "Run"
    BY <1>4 DEF Look
  <2>2. CASE signals = << >> /\ pc' = "make" /\ UNCHANGED <<operating, signals>>
    BY <2>1, <2>2 DEF LoopInv
  <2>3. CASE signals # << >>
    <3>1. /\ \/ operating' = ShutDown /\ pc' = "stopped"
             \/ operating' = operating /\ pc' = "make"
             \/ s \notin {Exit, Update} /\ operating' = Run(s.theta) /\ pc' = "make"
          /\ signals' = Tail(signals)
      <4>1. Exit # Update
        BY DEF Exit, Update
      <4> QED
        BY <1>4, <2>3, <4>1 DEF Look
    <3>2. operating' \in OperatingState /\ (pc' = "make" => operating'.mode = "Run")
      BY <1>2, <2>1, <2>3, <3>1 DEF LoopInv, OperatingState
    <3>3. pc' \in {"make", "stopped"}
      BY <3>1
    <3> QED
      BY <1>1, <2>1, <2>3, <3>1, <3>2, <3>3 DEF LoopInv
  <2> QED
    BY <1>4, <2>2, <2>3 DEF Look
<1>5. CASE GoToSleep
  <2>1. /\ pc = "pause" /\ pc' = "sleep" /\ UNCHANGED <<operating, signals, sent>>
        /\ interval' = (operating.theta * Scale) % WordSize
    BY <1>5 DEF GoToSleep
  <2>2. operating.theta \in Nat
    BY <2>1, RunsWithTheta DEF LoopInv
  <2>3. interval' \in 0 .. WordSize - 1
    BY <2>1, <2>2, WordsAreBounded
  <2> QED
    BY <2>1, <2>3 DEF LoopInv
<1>6. CASE Return \/ Make \/ Overflow \/ WakeUp
  <2>1. UNCHANGED <<operating, signals, sent, interval>>
    BY <1>6 DEF Return, Make, Overflow, WakeUp
  <2>2. \/ pc' \in {"signal", "stopped", "dead"}
        \/ pc = "make" /\ pc' = "pause"
    BY <1>6 DEF Return, Make, Overflow, WakeUp
  <2> QED
    BY <2>1, <2>2 DEF LoopInv
<1> QED
  BY <1>3, <1>4, <1>5, <1>6 DEF Generator

LEMMA LoopStep ==
  ASSUME LoopInv, [Next]_vars
  PROVE  LoopInv'
<1>1. CASE TxWorker \/ Others \/ UNCHANGED vars
  <2>1. UNCHANGED <<pc, operating, signals, sent, interval>>
    BY <1>1 DEF TxWorker, Take, LoseGenerator, Insert, FindPoison, Announce, AnnounceFails,
         Others, OtherLocks, OtherUnlocks, OtherPanics, LoseServer, vars, generatorVars
  <2> QED
    BY <2>1 DEF LoopInv
<1>2. ASSUME NEW s \in ControlSignal, SendSignal(s)
      PROVE  LoopInv'
  <2>1. /\ sent < MaxSignals /\ sent' = sent + 1 /\ signals' = Append(signals, s)
        /\ UNCHANGED <<pc, operating, interval>>
    BY <1>2 DEF SendSignal, generatorVars
  <2>2. signals' \in Seq(ControlSignal)
    BY <2>1, AppendProperties DEF LoopInv
  <2>3. sent' \in 0 .. MaxSignals
    BY <2>1, GeneratorAssumption DEF LoopInv
  <2> QED
    BY <2>1, <2>2, <2>3 DEF LoopInv
<1> QED
  BY <1>1, <1>2, GeneratorLoops DEF Next

LEMMA MakeHandsOver ==
  ASSUME HandOverInv, Make
  PROVE  HandOverInv'
<1>1. UNCHANGED <<worker, pool, announced, holder, poisoned, serverUp>>
  BY DEF Make, workerVars, mutexVars
<1>2. CASE UNCHANGED <<made, txChan>>
  BY <1>1, <1>2 DEF HandOverInv
<1>3. CASE made < MaxMade /\ made' = made + 1 /\ txChan' = Append(txChan, made + 1)
  <2>1. /\ made' \in 0 .. MaxMade /\ 1 .. made \subseteq 1 .. made'
        /\ made + 1 \in 1 .. made'
    BY <1>3, GeneratorAssumption DEF HandOverInv
  <2>2. txChan \in Seq(1 .. made')
    BY <2>1, SeqMonotonic DEF HandOverInv
  <2>3. txChan' \in Seq(1 .. made')
    BY <1>3, <2>1, <2>2, AppendProperties
  <2>4. worker' \in {Waiting, Ended} \union {With(t) : t \in 1 .. made'}
                      \union {Announcing(t) : t \in pool'}
    BY <1>1, <2>1 DEF HandOverInv
  <2>5. pool' \subseteq 1 .. made'
    BY <1>1, <2>1 DEF HandOverInv
  <2> QED
    BY <1>1, <2>1, <2>3, <2>4, <2>5 DEF HandOverInv
<1> QED
  BY <1>2, <1>3 DEF Make

LEMMA WorkerTypes ==
  ASSUME HandOverInv
  PROVE  /\ worker.at \in {"waiting", "with", "announcing", "ended"}
         /\ worker.at = "with" => worker.tx \in 1 .. made
         /\ worker.at = "announcing" => worker.tx \in pool
BY WorkerCases DEF HandOverInv

LEMMA WorkerHandsOver ==
  ASSUME HandOverInv, TxWorker
  PROVE  HandOverInv'
<1>1. CASE Take
  <2>1. /\ worker = Waiting /\ txChan # << >>
        /\ worker' = With(Head(txChan)) /\ txChan' = Tail(txChan)
        /\ UNCHANGED <<made, pool, announced, holder, poisoned, serverUp>>
    BY <1>1 DEF Take, generatorVars, mutexVars
  <2>2. Head(txChan) \in 1 .. made /\ txChan' \in Seq(1 .. made)
    BY <2>1, HeadTailProperties DEF HandOverInv
  <2>3. worker.at = "waiting" /\ worker'.at = "with"
    BY <2>1, WorkerCases
  <2> QED
    BY <2>1, <2>2, <2>3 DEF HandOverInv
<1>2. CASE LoseGenerator \/ FindPoison
  <2>1. /\ worker.at # "announcing" /\ worker' = Ended
        /\ UNCHANGED <<made, txChan, pool, announced, holder, poisoned, serverUp>>
    BY <1>2, WorkerCases DEF LoseGenerator, FindPoison, generatorVars, mutexVars
  <2> QED
    BY <2>1, WorkerCases DEF HandOverInv
<1>3. CASE Insert
  <2>1. /\ worker.at = "with" /\ holder' = "worker"
        /\ pool' = pool \union {worker.tx} /\ worker' = Announcing(worker.tx)
        /\ UNCHANGED <<made, txChan, announced, poisoned, serverUp>>
    BY <1>3 DEF Insert, generatorVars
  <2>2. worker.tx \in 1 .. made /\ worker'.at = "announcing"
    BY <2>1, WorkerTypes, WorkerCases
  <2> QED
    BY <2>1, <2>2 DEF HandOverInv
<1>4. CASE Announce \/ AnnounceFails
  <2>1. /\ worker.at = "announcing" /\ holder' = "none" /\ worker' \in {Waiting, Ended}
        /\ announced' \subseteq announced \union {worker.tx}
        /\ poisoned' \in {"worker", poisoned}
        /\ UNCHANGED <<made, txChan, pool, serverUp>>
    BY <1>4 DEF Announce, AnnounceFails, generatorVars
  <2>2. worker.tx \in pool /\ worker'.at # "announcing"
    BY <2>1, WorkerTypes, WorkerCases
  <2> QED
    BY <2>1, <2>2 DEF HandOverInv
<1> QED
  BY <1>1, <1>2, <1>3, <1>4 DEF TxWorker

LEMMA HandOverStep ==
  ASSUME HandOverInv, [Next]_vars
  PROVE  HandOverInv'
<1>1. CASE \/ SignalWhenPaused \/ Return \/ Look \/ GoToSleep \/ Overflow \/ WakeUp
           \/ \E s \in ControlSignal : SendSignal(s)
           \/ UNCHANGED vars
  <2>1. UNCHANGED <<made, txChan, worker, pool, announced, holder, poisoned, serverUp>>
    BY <1>1 DEF SignalWhenPaused, Return, Look, GoToSleep, Overflow, WakeUp, SendSignal,
         vars, generatorVars, workerVars, mutexVars
  <2> QED
    BY <2>1 DEF HandOverInv
<1>2. CASE Others
  <2>1. UNCHANGED <<made, txChan, worker, pool, announced>>
    BY <1>2 DEF Others, OtherLocks, OtherUnlocks, OtherPanics, LoseServer, generatorVars,
         workerVars
  <2>2. /\ holder' = holder \/ (holder # "worker" /\ holder' \in {"none", "other"})
        /\ poisoned' \in {"other", poisoned} /\ serverUp' \in {FALSE, serverUp}
    BY <1>2 DEF Others, OtherLocks, OtherUnlocks, OtherPanics, LoseServer, PoolIsFree,
         mutexVars
  <2> QED
    BY <2>1, <2>2 DEF HandOverInv
<1> QED
  BY <1>1, <1>2, MakeHandsOver, WorkerHandsOver DEF Next, Generator

(* Every variable keeps its type: among others, the generator sleeps and    *)
(* makes transactions only while it runs, only what was made is in the      *)
(* channel and the pool, only what is in the pool is announced, and the     *)
(* worker holds the pool's mutex exactly while it announces.                *)
THEOREM GeneratorTypeCorrect == Spec => []TypeOK
<1>1. Init => LoopInv /\ HandOverInv
  <2> SUFFICES ASSUME Init
               PROVE  LoopInv /\ HandOverInv
    OBVIOUS
  <2>1. 0 \in 0 .. WordSize - 1 /\ 0 \in 0 .. MaxSignals /\ 0 \in 0 .. MaxMade
    BY GeneratorAssumption
  <2>2. signals \in Seq(ControlSignal) /\ txChan \in Seq(1 .. made)
    BY EmptySeq DEF Init
  <2>3. LoopInv
    BY <2>1, <2>2 DEF Init, LoopInv, OperatingState
  <2>4. HandOverInv
    BY <2>1, <2>2, WorkerCases DEF Init, HandOverInv
  <2> QED
    BY <2>3, <2>4
<1>2. LoopInv /\ HandOverInv /\ [Next]_vars => LoopInv' /\ HandOverInv'
  BY LoopStep, HandOverStep
<1>3. LoopInv /\ HandOverInv => TypeOK
  BY WorkerTypes DEF LoopInv, HandOverInv, OperatingState, TypeOK
<1> QED
  BY <1>1, <1>2, <1>3, PTL DEF Spec

================================================================================
