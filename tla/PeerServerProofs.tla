--------------------------- MODULE PeerServerProofs ---------------------------
(***************************************************************************)
(* Theorems about PeerServer: who is served, why a task panics, and what is *)
(* stored without being announced, for any number of nodes, connections,    *)
(* workers and messages and any capacities of the channels.                 *)
(***************************************************************************)
EXTENDS PeerServer, SequenceTheorems, TLAPS

(* Putting an element into a channel leaves the others where they are.      *)
LEMMA Sent ==
  ASSUME NEW S, NEW seq \in Seq(S), NEW e \in S, NEW next, next = Append(seq, e)
  PROVE  /\ next \in Seq(S)
         /\ DOMAIN seq = 1 .. Len(seq) /\ Len(seq) \in Nat
         /\ DOMAIN next = 1 .. (Len(seq) + 1)
         /\ \A k \in DOMAIN seq : next[k] = seq[k]
         /\ next[Len(seq) + 1] = e
         /\ Len(seq) + 1 \notin DOMAIN seq
<1>1. /\ next \in Seq(S) /\ Len(next) = Len(seq) + 1
      /\ \A k \in 1 .. Len(seq) : next[k] = seq[k]
      /\ next[Len(seq) + 1] = e
  BY AppendProperties
<1>2. Len(seq) \in Nat /\ DOMAIN seq = 1 .. Len(seq) /\ DOMAIN next = 1 .. Len(next)
  BY <1>1, LenProperties
<1> QED
  BY <1>1, <1>2

(* Taking the first element out of a channel moves every other forward.     *)
LEMMA Taken ==
  ASSUME NEW S, NEW seq \in Seq(S), seq # << >>, NEW next, next = Tail(seq)
  PROVE  /\ next \in Seq(S)
         /\ 1 \in DOMAIN seq /\ seq[1] = Head(seq) /\ Head(seq) \in S
         /\ \A k \in DOMAIN next :
              k \in Nat /\ k # 0 /\ k + 1 \in DOMAIN seq /\ next[k] = seq[k + 1]
<1>1. /\ Head(seq) \in S /\ next \in Seq(S) /\ Len(next) = Len(seq) - 1
      /\ \A k \in 1 .. Len(next) : next[k] = seq[k + 1]
  BY HeadTailProperties
<1>2. Len(seq) \in Nat /\ DOMAIN seq = 1 .. Len(seq) /\ DOMAIN next = 1 .. Len(next)
  BY <1>1, LenProperties
<1>3. Len(seq) # 0
  BY EmptySeq
<1>4. seq[1] = Head(seq)
  BY <1>2, <1>3
<1> QED
  BY <1>1, <1>2, <1>3, <1>4

Address == Caller \union {Listed[k] : k \in DOMAIN Listed}

Signal ==
  {BroadcastMessage(b) : b \in Nat}
    \union {ConnectNewPeer(a) : a \in Address}
    \union {DroppedPeer(a) : a \in Address}
    \union {GetNewPeer(i) : i \in Nat}

Conn ==
  [addr : Address, remote : {"up", "gone"}, reader : {"none", "reading", "done"},
   read : {<< >>, <<"Ping">>, <<"Blocks">>}, writer : {"none", "waiting", "failed", "done"},
   queued : Nat]

(***************************************************************************)
(* The mutex of the chain                                                   *)
(***************************************************************************)

Announces(t) == thread[t].at = "announcing"

(* One thread at most holds the mutex and announces, and it announces a     *)
(* block that is stored.                                                    *)
MutexInv ==
  /\ thread = [t \in Thread |-> thread[t]]
  /\ poisoned \in BOOLEAN
  /\ stored \in Nat
  /\ unannounced \subseteq 1 .. stored
  /\ \A t, u \in Thread : Announces(t) /\ Announces(u) => t = u
  /\ \A t \in Thread : Announces(t) => ~poisoned /\ thread[t].block \in 1 .. stored

(* An action that gives one thread something to do that is not announcing,  *)
(* and that it did not do it before.                                        *)
LEMMA BusyKeepsMutex ==
  ASSUME MutexInv, NEW t \in Thread, NEW what, Set(t, what),
         ~Announces(t), what.at # "announcing",
         poisoned' = poisoned, UNCHANGED blockVars
  PROVE  MutexInv'
BY DEF MutexInv, Announces, Set, blockVars

LEMMA InsertKeepsMutex ==
  ASSUME MutexInv, NEW t \in Thread, NEW i, ChainIsFree, Store,
         Set(t, Announcing(i, stored + 1, 0)), poisoned' = poisoned
  PROVE  MutexInv'
<1> DEFINE b == stored + 1
           what == Announcing(i, b, 0)
<1>1. /\ stored' = b /\ b \in Nat /\ b \in 1 .. b
      /\ unannounced' \subseteq 1 .. b
  BY DEF MutexInv, Store
<1>2. what.at = "announcing" /\ what.block = b
  BY DEF Announcing
<1>3. thread' = [thread EXCEPT ![t] = what]
  BY DEF Set
<1>4. ~poisoned /\ \A u \in Thread : ~Announces(u)
  BY DEF ChainIsFree, Announces
<1> HIDE DEF b, what
<1> QED
  BY <1>1, <1>2, <1>3, <1>4 DEF MutexInv, Announces

(* Whoever announces stops, or a thread dies with the mutex.                *)
LEMMA ReleaseKeepsMutex ==
  ASSUME MutexInv, NEW t \in Thread, NEW what, Set(t, what),
         Announces(t), what.at # "announcing",
         poisoned' \in BOOLEAN, UNCHANGED blockVars
  PROVE  MutexInv' /\ \A u \in Thread : ~Announces(u)'
<1>1. thread' = [thread EXCEPT ![t] = what]
  BY DEF Set
<1>2. \A u \in Thread : ~Announces(u)'
  BY <1>1 DEF MutexInv, Announces
<1>3. thread' = [u \in Thread |-> thread'[u]]
  BY <1>1 DEF MutexInv
<1> QED
  BY <1>2, <1>3 DEF MutexInv, blockVars

LEMMA AnnouncerKeepsMutex ==
  ASSUME MutexInv, NEW t \in Thread, Announcer(t) \/ PanicOverOrphans(t)
  PROVE  MutexInv'
<1>1. CASE Announce(t)
  BY <1>1, ReleaseKeepsMutex DEF Announce, Announces, Idle, MutexInv
<1>2. CASE AnnounceFails(t)
  BY <1>2, ReleaseKeepsMutex DEF AnnounceFails, Announces, Ended
<1>3. CASE PanicOverOrphans(t)
  BY <1>3, ReleaseKeepsMutex DEF PanicOverOrphans, Announces, Ended
<1> QED
  BY <1>1, <1>2, <1>3 DEF Announcer

LEMMA PoppingKeepsMutex ==
  ASSUME MutexInv, NEW t \in Thread, PopOrphan(t)
  PROVE  MutexInv' /\ Announces(t)' /\ thread'[t].block = thread[t].block
         /\ \A u \in Thread : Announces(u)' => u = t
<1> DEFINE what == Announcing(thread[t].conn, thread[t].block, thread[t].popped + 1)
<1>1. what.at = "announcing" /\ what.block = thread[t].block
  BY DEF Announcing
<1>2. /\ Set(t, what) /\ Announces(t) /\ poisoned' = poisoned
      /\ UNCHANGED blockVars
  BY DEF PopOrphan, Announces
<1> HIDE DEF what
<1> QED
  BY <1>1, <1>2 DEF MutexInv, Announces, Set, blockVars

(* The steps that leave the threads alone.                                  *)
LEMMA OtherStep ==
  ASSUME [Next]_vars
  PROVE  \/ UNCHANGED <<thread, poisoned>> /\ stored' = stored /\ unannounced' \subseteq unannounced
         \/ \E w \in Worker : NetworkWorker(w) \/ PopOrphan(w) \/ PanicOverOrphans(w)
         \/ InsertMined
         \/ Announcer(MinerWorker)
<1> USE DEF threadVars, connectVars, blockVars
<1>1. ASSUME NEW a \in Caller, Arrive(a)
      PROVE  UNCHANGED <<thread, poisoned, blockVars>>
  BY <1>1 DEF Arrive
<1>2. ASSUME NEW i \in DOMAIN conns,
             Leave(i) \/ (\E msg \in {"Ping", "Blocks"} : Read(i, msg)) \/ Reader(i) \/ Writer(i)
      PROVE  UNCHANGED <<thread, poisoned, blockVars>>
  BY <1>2 DEF Leave, Read, Reader, PassOn, PassOnFails, ReadEnds, Writer, Write,
              ReportDropped, WriteFails
<1>3. CASE DispatchControl
  BY <1>3 DEF DispatchControl, Connect, Broadcast, Accept, AcceptFails, RemovePeer
<1>4. CASE ListenerFails \/ ApiPing \/ AskToConnect \/ UNCHANGED vars
  BY <1>4 DEF ListenerFails, ApiPing, AskToConnect, vars
<1> QED
  BY <1>1, <1>2, <1>3, <1>4 DEF Next

LEMMA MutexStep ==
  ASSUME MutexInv, [Next]_vars
  PROVE  MutexInv'
<1>1. CASE UNCHANGED <<thread, poisoned>> /\ stored' = stored /\ unannounced' \subseteq unannounced
  BY <1>1 DEF MutexInv, Announces
<1>2. ASSUME NEW w \in Worker, NetworkWorker(w)
      PROVE  MutexInv'
  <2> w \in Thread
    BY DEF Thread
  <2>1. CASE Take(w)
    <3>1. thread[w] = Idle /\ Set(w, Handling(Head(messages).conn, Head(messages).msg))
      BY <2>1 DEF Take
    <3> QED
      BY <2>1, <3>1, BusyKeepsMutex DEF Take, Announces, Idle, Handling
  <2>2. CASE LoseServer(w)
    BY <2>2, BusyKeepsMutex DEF LoseServer, Announces, Idle, Ended
  <2>3. CASE Answer(w)
    BY <2>3, BusyKeepsMutex DEF Answer, Announces, Idle
  <2>4. CASE InsertBlock(w)
    BY <2>4, InsertKeepsMutex DEF InsertBlock
  <2>5. CASE FindPoison(w)
    BY <2>5, BusyKeepsMutex DEF FindPoison, Announces, Ended
  <2>6. CASE Announcer(w)
    BY <2>6, AnnouncerKeepsMutex
  <2> QED
    BY <1>2, <2>1, <2>2, <2>3, <2>4, <2>5, <2>6 DEF NetworkWorker
<1>3. ASSUME NEW w \in Worker, PopOrphan(w) \/ PanicOverOrphans(w)
      PROVE  MutexInv'
  BY <1>3, AnnouncerKeepsMutex, PoppingKeepsMutex DEF Thread
<1>4. CASE InsertMined
  <2> MinerWorker \in Thread
    BY DEF Thread
  <2>1. CASE ChainIsFree /\ Store /\ Set(MinerWorker, Announcing(0, stored + 1, 0))
    BY <1>4, <2>1, InsertKeepsMutex DEF InsertMined
  <2>2. CASE Set(MinerWorker, Ended) /\ UNCHANGED blockVars
    BY <1>4, <2>2, BusyKeepsMutex DEF InsertMined, Announces, Idle, Ended
  <2> QED
    BY <1>4, <2>1, <2>2 DEF InsertMined
<1>5. CASE Announcer(MinerWorker)
  BY <1>5, AnnouncerKeepsMutex DEF Thread
<1> QED
  BY <1>1, <1>2, <1>3, <1>4, <1>5, OtherStep

LEMMA MutexInit ==
  ASSUME Init
  PROVE  MutexInv
<1>1. \A t \in Thread : ~Announces(t)
  BY DEF Init, Announces, Idle
<1>2. thread = [t \in Thread |-> thread[t]]
  BY DEF Init
<1>3. stored \in Nat /\ unannounced \subseteq 1 .. stored
  BY DEF Init
<1>4. poisoned = FALSE
  BY DEF Init
<1>5. poisoned \in BOOLEAN
  BY <1>4
<1> QED
  BY <1>1, <1>2, <1>3, <1>5 DEF MutexInv

(***************************************************************************)
(* The peers and the signals about them                                     *)
(***************************************************************************)

Typed ==
  /\ control \in Seq(Signal)
  /\ conns \in Seq(Conn)
  /\ connecting \in Seq(Address)

Pending(k, name) == control[k].signal = name

(* A stream in the channel has no tasks yet and is there once.  An address  *)
(* that is to be removed is that of a connection whose writer has ended.    *)
(* The connecting thread waits for at most one result.                      *)
PendingInv ==
  /\ \A k \in DOMAIN control : Pending(k, "GetNewPeer") =>
       control[k].conn \in DOMAIN conns /\ conns[control[k].conn].writer = "none"
  /\ \A k, l \in DOMAIN control :
       Pending(k, "GetNewPeer") /\ Pending(l, "GetNewPeer")
         /\ control[k].conn = control[l].conn => k = l
  /\ \A k \in DOMAIN control : Pending(k, "DroppedPeer") =>
       \E j \in DOMAIN conns : conns[j].addr = control[k].addr /\ conns[j].writer = "done"
  /\ \A k \in DOMAIN control : Pending(k, "ConnectNewPeer") => asking = "waiting"
  /\ \A k, l \in DOMAIN control :
       Pending(k, "ConnectNewPeer") /\ Pending(l, "ConnectNewPeer") => k = l
  /\ asking = "waiting" => connecting # << >>

ServedInv ==
  \A i \in DOMAIN conns :
    conns[i].writer = "waiting" /\ HasOwnAddress(i) =>
      conns[i].addr \in DOMAIN peers /\ peers[conns[i].addr] = i

PeersInv == Typed /\ PendingInv /\ ServedInv

(* What most steps do to the connections and to the channel.                *)
ConnsKept ==
  /\ conns' \in Seq(Conn)
  /\ DOMAIN conns' = DOMAIN conns
  /\ \A i \in DOMAIN conns :
       /\ conns'[i].addr = conns[i].addr
       /\ conns[i].writer = "none" => conns'[i].writer = "none"
       /\ conns[i].writer = "done" => conns'[i].writer = "done"
       /\ conns'[i].writer = "waiting" => conns[i].writer = "waiting"

ControlKept ==
  \/ control' = control
  \/ \E b \in Nat : control' = Append(control, BroadcastMessage(b))
  \/ \E i \in DOMAIN conns :
       /\ conns'[i].writer = "done"
       /\ control' = Append(control, DroppedPeer(conns[i].addr))

LEMMA SignalsAreTold ==
  ASSUME NEW a, NEW i
  PROVE  /\ ConnectNewPeer(a).signal = "ConnectNewPeer" /\ ConnectNewPeer(a).addr = a
         /\ GetNewPeer(i).signal = "GetNewPeer" /\ GetNewPeer(i).conn = i
         /\ DroppedPeer(a).signal = "DroppedPeer" /\ DroppedPeer(a).addr = a
         /\ BroadcastMessage(i).signal = "BroadcastMessage" /\ BroadcastMessage(i).block = i
         /\ a \in Address => ConnectNewPeer(a) \in Signal /\ DroppedPeer(a) \in Signal
         /\ i \in Nat => GetNewPeer(i) \in Signal /\ BroadcastMessage(i) \in Signal
<1>1. /\ a \in Address => ConnectNewPeer(a) \in Signal /\ DroppedPeer(a) \in Signal
      /\ i \in Nat => GetNewPeer(i) \in Signal /\ BroadcastMessage(i) \in Signal
  BY DEF Signal
<1> QED
  BY <1>1 DEF ConnectNewPeer, GetNewPeer, DroppedPeer, BroadcastMessage

LEMMA TypedDomains ==
  ASSUME Typed
  PROVE  /\ Len(conns) \in Nat /\ DOMAIN conns = 1 .. Len(conns)
         /\ \A i \in DOMAIN conns : conns[i] \in Conn
         /\ Len(control) \in Nat /\ DOMAIN control = 1 .. Len(control)
         /\ \A k \in DOMAIN control : control[k] \in Signal
BY LenProperties, ElementOfSeq DEF Typed

LEMMA OwnAddressKept ==
  ASSUME ConnsKept, NEW i \in DOMAIN conns
  PROVE  HasOwnAddress(i)' <=> HasOwnAddress(i)
BY DEF ConnsKept, HasOwnAddress

LEMMA ServedKept ==
  ASSUME PeersInv, ConnsKept, peers' = peers
  PROVE  ServedInv'
BY OwnAddressKept DEF PeersInv, ServedInv, ConnsKept

LEMMA PendingKept ==
  ASSUME PeersInv, ConnsKept, ControlKept, UNCHANGED connectVars
  PROVE  PendingInv' /\ control' \in Seq(Signal)
<1>1. CASE control' = control
  BY <1>1 DEF PeersInv, PendingInv, ConnsKept, Pending, Typed, connectVars
<1>2. ASSUME NEW e \in Signal, control' = Append(control, e),
             e.signal = "BroadcastMessage"
               \/ (e.signal = "DroppedPeer"
                   /\ \E j \in DOMAIN conns :
                        conns[j].addr = e.addr /\ conns'[j].writer = "done")
      PROVE  PendingInv' /\ control' \in Seq(Signal)
  <2> DEFINE n == Len(control) + 1
  <2>1. /\ control' \in Seq(Signal)
        /\ \A k \in DOMAIN control' : k \in DOMAIN control \/ k = n
        /\ \A k \in DOMAIN control : control'[k] = control[k]
        /\ control'[n] = e
    BY <1>2, Sent DEF PeersInv, Typed
  <2> HIDE DEF n
  <2>2. \A k \in DOMAIN control' : Pending(k, "GetNewPeer")' \/ Pending(k, "ConnectNewPeer")' =>
          k \in DOMAIN control
    BY <1>2, <2>1 DEF Pending
  <2>3. \A k \in DOMAIN control' : Pending(k, "DroppedPeer")' =>
          \E j \in DOMAIN conns' :
            conns'[j].addr = control'[k].addr /\ conns'[j].writer = "done"
    BY <1>2, <2>1 DEF Pending, PeersInv, PendingInv, ConnsKept
  <2>4. /\ \A k \in DOMAIN control' : Pending(k, "GetNewPeer")' =>
             control'[k].conn \in DOMAIN conns' /\ conns'[control'[k].conn].writer = "none"
        /\ \A k, l \in DOMAIN control' :
             Pending(k, "GetNewPeer")' /\ Pending(l, "GetNewPeer")'
               /\ control'[k].conn = control'[l].conn => k = l
    BY <2>1, <2>2 DEF PeersInv, PendingInv, ConnsKept, Pending
  <2>5. /\ \A k \in DOMAIN control' : Pending(k, "ConnectNewPeer")' => asking' = "waiting"
        /\ \A k, l \in DOMAIN control' :
             Pending(k, "ConnectNewPeer")' /\ Pending(l, "ConnectNewPeer")' => k = l
        /\ asking' = "waiting" => connecting' # << >>
    BY <2>1, <2>2 DEF PeersInv, PendingInv, Pending, connectVars
  <2>6. PendingInv'
    BY <2>3, <2>4, <2>5 DEF PendingInv, Pending
  <2> QED
    BY <2>1, <2>6
<1>3. ASSUME NEW b \in Nat, control' = Append(control, BroadcastMessage(b))
      PROVE  PendingInv' /\ control' \in Seq(Signal)
  <2> DEFINE e == BroadcastMessage(b)
  <2>1. e \in Signal /\ e.signal = "BroadcastMessage"
    BY SignalsAreTold
  <2>2. control' = Append(control, e)
    BY <1>3
  <2> HIDE DEF e
  <2> QED
    BY <1>2, <2>1, <2>2
<1>4. ASSUME NEW i \in DOMAIN conns, conns'[i].writer = "done",
             control' = Append(control, DroppedPeer(conns[i].addr))
      PROVE  PendingInv' /\ control' \in Seq(Signal)
  <2>1. conns[i].addr \in Address
    BY <1>4, TypedDomains DEF PeersInv, Conn
  <2> DEFINE e == DroppedPeer(conns[i].addr)
  <2>2. e \in Signal /\ e.signal = "DroppedPeer" /\ e.addr = conns[i].addr
    BY <2>1, SignalsAreTold
  <2>3. control' = Append(control, e)
    BY <1>4
  <2> HIDE DEF e
  <2> QED
    BY <1>2, <1>4, <2>2, <2>3
<1> QED
  BY <1>1, <1>3, <1>4 DEF ControlKept

LEMMA QuietStep ==
  ASSUME PeersInv, ConnsKept, ControlKept, peers' = peers, UNCHANGED connectVars
  PROVE  PeersInv'
<1>1. Typed'
  BY PendingKept DEF PeersInv, Typed, ConnsKept, connectVars
<1> QED
  BY <1>1, PendingKept, ServedKept DEF PeersInv

(* The five steps of dispatch_control and the arrival of a connection are   *)
(* not quiet.                                                               *)
LEMMA ReceivedSignal ==
  ASSUME PeersInv, NEW name, Receive(name)
  PROVE  /\ control' \in Seq(Signal)
         /\ 1 \in DOMAIN control /\ control[1] = Head(control) /\ Head(control) \in Signal
         /\ Head(control).signal = name
         /\ \A k \in DOMAIN control' :
              /\ k + 1 \in DOMAIN control /\ control'[k] = control[k + 1]
              /\ k \in Nat /\ k # 0
BY Taken DEF PeersInv, Typed, Receive

LEMMA PendingReceived ==
  ASSUME PeersInv, NEW name, name # "ConnectNewPeer", Receive(name),
         conns' \in Seq(Conn), DOMAIN conns' = DOMAIN conns,
         \A i \in DOMAIN conns :
           /\ conns'[i].addr = conns[i].addr
           /\ conns[i].writer = "done" => conns'[i].writer = "done"
           /\ \/ conns[i].writer = "none" => conns'[i].writer = "none"
              \/ name = "GetNewPeer" /\ i = Head(control).conn,
         UNCHANGED connectVars
  PROVE  Typed' /\ PendingInv'
<1>1. /\ control' \in Seq(Signal)
      /\ 1 \in DOMAIN control /\ control[1].signal = name /\ control[1] = Head(control)
      /\ \A k \in DOMAIN control' :
           /\ k + 1 \in DOMAIN control /\ control'[k] = control[k + 1]
           /\ k \in Nat /\ k # 0
  BY ReceivedSignal
<1>2. Typed'
  BY <1>1 DEF PeersInv, Typed, connectVars
<1>3. \A k \in DOMAIN control' : Pending(k, "GetNewPeer")' =>
        control'[k].conn \in DOMAIN conns' /\ conns'[control'[k].conn].writer = "none"
  <2> SUFFICES ASSUME NEW k \in DOMAIN control', control'[k].signal = "GetNewPeer"
               PROVE  /\ control'[k].conn \in DOMAIN conns'
                      /\ conns'[control'[k].conn].writer = "none"
    BY DEF Pending
  <2>1. /\ control[k + 1].conn \in DOMAIN conns
        /\ conns[control[k + 1].conn].writer = "none"
        /\ k + 1 # 1
    BY <1>1 DEF PeersInv, PendingInv, Pending
  <2>2. name = "GetNewPeer" => control[k + 1].conn # control[1].conn
    BY <1>1, <2>1 DEF PeersInv, PendingInv, Pending
  <2> QED
    BY <1>1, <2>1, <2>2
<1>4. \A k, l \in DOMAIN control' :
        Pending(k, "GetNewPeer")' /\ Pending(l, "GetNewPeer")'
          /\ control'[k].conn = control'[l].conn => k = l
  <2> SUFFICES ASSUME NEW k \in DOMAIN control', NEW l \in DOMAIN control',
                      control'[k].signal = "GetNewPeer", control'[l].signal = "GetNewPeer",
                      control'[k].conn = control'[l].conn
               PROVE  k = l
    BY DEF Pending
  <2>1. k + 1 = l + 1
    BY <1>1 DEF PeersInv, PendingInv, Pending
  <2> QED
    BY <1>1, <2>1
<1>5. \A k \in DOMAIN control' : Pending(k, "DroppedPeer")' =>
        \E j \in DOMAIN conns' :
          conns'[j].addr = control'[k].addr /\ conns'[j].writer = "done"
  <2> SUFFICES ASSUME NEW k \in DOMAIN control', control'[k].signal = "DroppedPeer"
               PROVE  \E j \in DOMAIN conns' :
                        conns'[j].addr = control'[k].addr /\ conns'[j].writer = "done"
    BY DEF Pending
  <2>1. PICK j \in DOMAIN conns :
          conns[j].addr = control[k + 1].addr /\ conns[j].writer = "done"
    BY <1>1 DEF PeersInv, PendingInv, Pending
  <2> QED
    BY <1>1, <2>1
<1>6. /\ \A k \in DOMAIN control' : Pending(k, "ConnectNewPeer")' => asking' = "waiting"
      /\ asking' = "waiting" => connecting' # << >>
  BY <1>1 DEF PeersInv, PendingInv, Pending, connectVars
<1>7. \A k, l \in DOMAIN control' :
        Pending(k, "ConnectNewPeer")' /\ Pending(l, "ConnectNewPeer")' => k = l
  <2> SUFFICES ASSUME NEW k \in DOMAIN control', NEW l \in DOMAIN control',
                      control'[k].signal = "ConnectNewPeer",
                      control'[l].signal = "ConnectNewPeer"
               PROVE  k = l
    BY DEF Pending
  <2>1. k + 1 = l + 1
    BY <1>1 DEF PeersInv, PendingInv, Pending
  <2> QED
    BY <1>1, <2>1
<1> QED
  BY <1>2, <1>3, <1>4, <1>5, <1>6, <1>7 DEF PendingInv, Pending

(* Quiet steps: one connection changes, or none, and what is sent on the    *)
(* control channel is a broadcast or the report of an ended writer.         *)
LEMMA SameConnsKept ==
  ASSUME Typed, conns' = conns
  PROVE  ConnsKept
BY DEF ConnsKept, Typed

LEMMA OneConnKept ==
  ASSUME Typed, NEW i, NEW c, SetConn(i, c),
         i \in DOMAIN conns =>
           /\ c \in Conn /\ c.addr = conns[i].addr
           /\ conns[i].writer = "none" => c.writer = "none"
           /\ conns[i].writer = "done" => c.writer = "done"
           /\ c.writer = "waiting" => conns[i].writer = "waiting"
  PROVE  ConnsKept
<1>1. DOMAIN conns = 1 .. Len(conns) /\ Len(conns) \in Nat /\ conns \in Seq(Conn)
  BY TypedDomains DEF Typed
<1>2. CASE i \in DOMAIN conns
  <2>1. conns' \in Seq(Conn)
    BY <1>1, <1>2, ExceptSeq DEF SetConn
  <2> QED
    BY <1>1, <1>2, <2>1 DEF SetConn, ConnsKept
<1>3. CASE i \notin DOMAIN conns
  <2>1. conns' = conns
    BY <1>1, <1>3 DEF SetConn
  <2> QED
    BY <2>1, SameConnsKept
<1> QED
  BY <1>2, <1>3

LEMMA ConnectionStep ==
  ASSUME PeersInv, NEW i \in DOMAIN conns,
         Leave(i) \/ (\E msg \in {"Ping", "Blocks"} : Read(i, msg)) \/ Reader(i) \/ Writer(i)
  PROVE  PeersInv'
<1>1. Typed /\ conns[i] \in Conn
  BY TypedDomains DEF PeersInv
<1>2. CASE Leave(i)
  <2>1. ConnsKept
    <3>1. SetConn(i, [conns[i] EXCEPT !.remote = "gone"])
      BY <1>2 DEF Leave
    <3> QED
      BY <1>1, <3>1, OneConnKept DEF Conn
  <2> QED
    BY <1>2, <2>1, QuietStep DEF Leave, ControlKept
<1>3. ASSUME NEW msg \in {"Ping", "Blocks"}, Read(i, msg)
      PROVE  PeersInv'
  <2>1. ConnsKept
    <3>1. SetConn(i, [conns[i] EXCEPT !.read = <<msg>>])
      BY <1>3 DEF Read
    <3> QED
      BY <1>1, <3>1, OneConnKept DEF Conn
  <2> QED
    BY <1>3, <2>1, QuietStep DEF Read, ControlKept
<1>4. CASE PassOn(i)
  <2>1. ConnsKept
    <3>1. SetConn(i, [conns[i] EXCEPT !.read = << >>])
      BY <1>4 DEF PassOn
    <3> QED
      BY <1>1, <3>1, OneConnKept DEF Conn
  <2> QED
    BY <1>4, <2>1, QuietStep DEF PassOn, ControlKept
<1>5. CASE PassOnFails(i) \/ WriteFails(i)
  BY <1>1, <1>5, SameConnsKept, QuietStep DEF PassOnFails, WriteFails, ControlKept
<1>6. CASE ReadEnds(i)
  <2>1. ConnsKept
    <3>1. SetConn(i, [conns[i] EXCEPT !.reader = "done"])
      BY <1>6 DEF ReadEnds
    <3> QED
      BY <1>1, <3>1, OneConnKept DEF Conn
  <2> QED
    BY <1>6, <2>1, QuietStep DEF ReadEnds, ControlKept
<1>7. CASE Write(i)
  <2>1. ConnsKept
    <3>1. SetConn(i, [conns[i] EXCEPT !.queued = @ - 1]) => ConnsKept
      <4>1. [conns[i] EXCEPT !.queued = @ - 1] \in Conn
        BY <1>1, <1>7 DEF Write, Conn
      <4> QED
        BY <1>1, <4>1, OneConnKept DEF Conn
    <3>2. SetConn(i, [conns[i] EXCEPT !.writer = "failed", !.queued = 0]) => ConnsKept
      BY <1>1, <1>7, OneConnKept DEF Write, Conn
    <3> QED
      BY <1>7, <3>1, <3>2 DEF Write
  <2> QED
    BY <1>7, <2>1, QuietStep DEF Write, ControlKept
<1>8. CASE ReportDropped(i)
  <2>1. SetConn(i, [conns[i] EXCEPT !.writer = "done"]) /\ conns[i].writer = "failed"
    BY <1>8 DEF ReportDropped
  <2>2. ConnsKept
    BY <1>1, <2>1, OneConnKept DEF Conn
  <2>3. conns'[i].writer = "done"
    BY <1>1, <2>1 DEF SetConn, Conn
  <2> QED
    BY <1>8, <2>2, <2>3, QuietStep DEF ReportDropped, ControlKept
<1> QED
  BY <1>2, <1>3, <1>4, <1>5, <1>6, <1>7, <1>8 DEF Reader, Writer

LEMMA AnnouncerStep ==
  ASSUME PeersInv, MutexInv, NEW t \in Thread, Announcer(t)
  PROVE  PeersInv'
<1>1. Typed /\ conns' = conns /\ peers' = peers /\ UNCHANGED connectVars
  BY DEF PeersInv, Announcer, Announce, AnnounceFails
<1>2. CASE Announce(t)
  <2>1. thread[t].block \in Nat
    BY <1>2 DEF Announce, MutexInv, Announces
  <2>2. ControlKept
    BY <1>2, <2>1 DEF Announce, ControlKept
  <2> QED
    BY <1>1, <2>2, SameConnsKept, QuietStep
<1>3. CASE AnnounceFails(t)
  BY <1>1, <1>3, SameConnsKept, QuietStep DEF AnnounceFails, ControlKept
<1> QED
  BY <1>2, <1>3 DEF Announcer

LEMMA ThreadStep ==
  ASSUME PeersInv, MutexInv, NEW t \in Thread,
         NetworkWorker(t) \/ PopOrphan(t) \/ PanicOverOrphans(t) \/ InsertMined \/ ApiPing
  PROVE  PeersInv'
<1>1. Typed
  BY DEF PeersInv
<1>2. CASE Answer(t)
  <2> DEFINE i == thread[t].conn
  <2>1. SetConn(i, Written(conns[i])) /\ UNCHANGED <<control, peers, connectVars>>
    BY <1>2 DEF Answer
  <2>2. ASSUME i \in DOMAIN conns
        PROVE  /\ Written(conns[i]) \in Conn /\ Written(conns[i]).addr = conns[i].addr
               /\ Written(conns[i]).writer = conns[i].writer
    <3> HIDE DEF i
    <3>1. conns[i] \in Conn
      BY <1>1, <2>2, TypedDomains
    <3> QED
      BY <3>1 DEF Written, Conn
  <2>3. ConnsKept
    BY <1>1, <2>1, <2>2, OneConnKept
  <2> QED
    BY <2>1, <2>3, QuietStep DEF ControlKept
<1>3. CASE Take(t) \/ LoseServer(t) \/ InsertBlock(t) \/ FindPoison(t)
           \/ PopOrphan(t) \/ PanicOverOrphans(t) \/ InsertMined \/ ApiPing
  BY <1>1, <1>3, SameConnsKept, QuietStep
     DEF Take, LoseServer, InsertBlock, FindPoison, PopOrphan, PanicOverOrphans, InsertMined,
         ApiPing, ControlKept
<1>4. CASE Announcer(t)
  BY <1>4, AnnouncerStep
<1> QED
  BY <1>2, <1>3, <1>4 DEF NetworkWorker

LEMMA MappedConns ==
  ASSUME Typed, conns' = [i \in DOMAIN conns |-> conns'[i]],
         \A i \in DOMAIN conns : conns'[i] \in Conn
  PROVE  conns' \in Seq(Conn) /\ DOMAIN conns' = DOMAIN conns
<1>1. Len(conns) \in Nat /\ DOMAIN conns = 1 .. Len(conns)
  BY TypedDomains
<1>2. conns' \in [1 .. Len(conns) -> Conn]
  BY <1>1
<1> QED
  BY <1>1, <1>2, SeqDef

LEMMA BroadcastStep ==
  ASSUME PeersInv, Broadcast
  PROVE  PeersInv'
<1>1. Typed /\ Receive("BroadcastMessage") /\ peers' = peers /\ UNCHANGED connectVars
  BY DEF PeersInv, Broadcast
<1>2. \A i \in DOMAIN conns :
        /\ conns'[i] \in Conn /\ conns'[i].addr = conns[i].addr
        /\ conns'[i].writer = conns[i].writer
  BY <1>1, TypedDomains DEF Broadcast, Written, Conn
<1>3. conns' \in Seq(Conn) /\ DOMAIN conns' = DOMAIN conns
  <2>1. conns' = [i \in DOMAIN conns |-> conns'[i]]
    BY DEF Broadcast
  <2> QED
    BY <1>1, <1>2, <2>1, MappedConns
<1>4. Typed' /\ PendingInv'
  BY <1>1, <1>2, <1>3, PendingReceived
<1>5. ServedInv'
  BY <1>1, <1>2, <1>3, ServedKept DEF ConnsKept
<1> QED
  BY <1>4, <1>5 DEF PeersInv

LEMMA AcceptFailsStep ==
  ASSUME PeersInv, AcceptFails
  PROVE  PeersInv'
<1>1. Typed /\ Receive("GetNewPeer") /\ UNCHANGED connectVars
  BY DEF PeersInv, AcceptFails
<1>2. \A i \in DOMAIN conns :
        /\ conns'[i] \in Conn /\ conns'[i].addr = conns[i].addr
        /\ conns[i].writer = "none" => conns'[i].writer = "none"
        /\ conns[i].writer # "none" => conns'[i].writer = "done"
  BY <1>1, TypedDomains DEF AcceptFails, Dropped, Conn
<1>3. conns' \in Seq(Conn) /\ DOMAIN conns' = DOMAIN conns
  <2>1. conns' = [i \in DOMAIN conns |-> conns'[i]]
    BY DEF AcceptFails
  <2> QED
    BY <1>1, <1>2, <2>1, MappedConns
<1>4. Typed' /\ PendingInv'
  BY <1>1, <1>2, <1>3, PendingReceived
<1>5. ServedInv'
  BY <1>2, <1>3 DEF ServedInv
<1> QED
  BY <1>4, <1>5 DEF PeersInv

(* The writer of the removed address has ended, so that a connection with   *)
(* an address of its own and a waiting writer has another one.              *)
LEMMA RemovePeerStep ==
  ASSUME PeersInv, RemovePeer
  PROVE  PeersInv'
<1>1. Typed /\ Receive("DroppedPeer") /\ conns' = conns /\ UNCHANGED connectVars
  BY DEF PeersInv, RemovePeer
<1>2. Typed' /\ PendingInv'
  BY <1>1, PendingReceived DEF Typed
<1>3. PICK j \in DOMAIN conns :
        conns[j].addr = Head(control).addr /\ conns[j].writer = "done"
  BY <1>1, ReceivedSignal DEF PeersInv, PendingInv, Pending
<1>4. ServedInv'
  <2> SUFFICES ASSUME NEW i \in DOMAIN conns, conns[i].writer = "waiting", HasOwnAddress(i)
               PROVE  conns[i].addr \in DOMAIN peers' /\ peers'[conns[i].addr] = i
    BY <1>1 DEF ServedInv, HasOwnAddress
  <2>1. conns[i].addr # Head(control).addr
    BY <1>3 DEF HasOwnAddress
  <2>2. conns[i].addr \in DOMAIN peers /\ peers[conns[i].addr] = i
    BY DEF PeersInv, ServedInv
  <2> QED
    BY <2>1, <2>2 DEF RemovePeer
<1> QED
  BY <1>2, <1>4 DEF PeersInv

LEMMA Registered ==
  ASSUME NEW i, Register(i)
  PROVE  /\ conns'[i].addr \in DOMAIN peers' /\ peers'[conns'[i].addr] = i
         /\ \A a \in DOMAIN peers \ {conns'[i].addr} :
              a \in DOMAIN peers' /\ peers'[a] = peers[a]
BY DEF Register

LEMMA AcceptStep ==
  ASSUME PeersInv, Accept
  PROVE  PeersInv'
<1> DEFINE i == Head(control).conn
<1>1. /\ Typed /\ Receive("GetNewPeer") /\ UNCHANGED connectVars
      /\ SetConn(i, Started(conns[i])) /\ Register(i)
  BY DEF PeersInv, Accept
<1>2. i \in DOMAIN conns /\ conns[i].writer = "none" /\ conns[i] \in Conn
  BY <1>1, ReceivedSignal, TypedDomains DEF PeersInv, PendingInv, Pending
<1> HIDE DEF i
<1>3. /\ Started(conns[i]) \in Conn /\ Started(conns[i]).addr = conns[i].addr
  BY <1>2 DEF Started, Conn
<1>4. conns' \in Seq(Conn) /\ DOMAIN conns' = DOMAIN conns
  BY <1>1, <1>2, <1>3, ExceptSeq, TypedDomains DEF Typed, SetConn
<1>5. /\ conns'[i].addr = conns[i].addr
      /\ \A j \in DOMAIN conns \ {i} : conns'[j] = conns[j]
  BY <1>1, <1>2, <1>3, <1>4 DEF SetConn
<1>6. Typed' /\ PendingInv'
  BY <1>1, <1>2, <1>4, <1>5, PendingReceived DEF i
<1>7. ServedInv'
  <2> SUFFICES ASSUME NEW j \in DOMAIN conns, conns'[j].writer = "waiting", HasOwnAddress(j)'
               PROVE  conns'[j].addr \in DOMAIN peers' /\ peers'[conns'[j].addr] = j
    BY <1>4 DEF ServedInv
  <2>1. CASE j = i
    BY <1>1, <2>1, Registered
  <2>2. CASE j # i
    <3>1. HasOwnAddress(j) /\ conns[j].addr # conns[i].addr
      BY <1>2, <1>4, <1>5, <2>2 DEF HasOwnAddress
    <3>2. conns[j].addr \in DOMAIN peers /\ peers[conns[j].addr] = j
      BY <1>5, <2>2, <3>1 DEF PeersInv, ServedInv
    <3> QED
      BY <1>1, <1>5, <2>2, <3>1, <3>2, Registered
  <2> QED
    BY <2>1, <2>2
<1> QED
  BY <1>6, <1>7 DEF PeersInv

LEMMA ConnAdded ==
  ASSUME Typed, NEW c \in Conn, conns' = Append(conns, c)
  PROVE  /\ conns' \in Seq(Conn)
         /\ Len(conns) + 1 \in DOMAIN conns' /\ Len(conns) + 1 \notin DOMAIN conns
         /\ conns'[Len(conns) + 1] = c /\ Len(conns) + 1 \in Nat
         /\ \A i \in DOMAIN conns' : i \in DOMAIN conns \/ i = Len(conns) + 1
         /\ \A i \in DOMAIN conns : i \in DOMAIN conns' /\ conns'[i] = conns[i]
         /\ \A i \in DOMAIN conns : HasOwnAddress(i)' =>
              HasOwnAddress(i) /\ conns[i].addr # c.addr
<1> DEFINE n == Len(conns) + 1
<1>1. /\ conns' \in Seq(Conn) /\ n \in DOMAIN conns' /\ n \notin DOMAIN conns
      /\ conns'[n] = c /\ n \in Nat
      /\ \A i \in DOMAIN conns' : i \in DOMAIN conns \/ i = n
      /\ \A i \in DOMAIN conns : i \in DOMAIN conns' /\ conns'[i] = conns[i]
  BY Sent DEF Typed
<1> HIDE DEF n
<1>2. \A i \in DOMAIN conns : HasOwnAddress(i)' => HasOwnAddress(i) /\ conns[i].addr # c.addr
  BY <1>1 DEF HasOwnAddress
<1> QED
  BY <1>1, <1>2 DEF n

LEMMA ArriveStep ==
  ASSUME PeersInv, NEW a \in Caller, Arrive(a)
  PROVE  PeersInv'
<1> DEFINE n == Len(conns) + 1
           e == GetNewPeer(n)
           m == Len(control) + 1
<1>1. Typed /\ peers' = peers /\ UNCHANGED connectVars
  BY DEF PeersInv, Arrive
<1>2. Accepted(a) \in Conn /\ Accepted(a).writer = "none"
  BY DEF Accepted, Conn, Address
<1>3. /\ conns' \in Seq(Conn) /\ n \in DOMAIN conns' /\ n \notin DOMAIN conns /\ n \in Nat
      /\ conns'[n].writer = "none"
      /\ \A i \in DOMAIN conns' : i \in DOMAIN conns \/ i = n
      /\ \A i \in DOMAIN conns : i \in DOMAIN conns' /\ conns'[i] = conns[i]
      /\ \A i \in DOMAIN conns : HasOwnAddress(i)' => HasOwnAddress(i)
  BY <1>1, <1>2, ConnAdded DEF Arrive
<1>4. e \in Signal /\ e.signal = "GetNewPeer" /\ e.conn = n
  BY <1>3, SignalsAreTold
<1>5. control' = Append(control, e)
  BY DEF Arrive
<1> HIDE DEF e
<1>6. /\ control' \in Seq(Signal)
      /\ \A k \in DOMAIN control' : k \in DOMAIN control \/ k = m
      /\ \A k \in DOMAIN control : control'[k] = control[k]
      /\ control'[m] = e
  BY <1>1, <1>4, <1>5, Sent DEF Typed
<1> HIDE DEF n, m
<1>7. Typed'
  BY <1>1, <1>3, <1>6 DEF Typed, connectVars
<1>8. /\ \A k \in DOMAIN control' : Pending(k, "GetNewPeer")' =>
           control'[k].conn \in DOMAIN conns' /\ conns'[control'[k].conn].writer = "none"
      /\ \A k, l \in DOMAIN control' :
           Pending(k, "GetNewPeer")' /\ Pending(l, "GetNewPeer")'
             /\ control'[k].conn = control'[l].conn => k = l
  BY <1>3, <1>4, <1>6 DEF PeersInv, PendingInv, Pending
<1>9. /\ \A k \in DOMAIN control' : Pending(k, "ConnectNewPeer")' => asking' = "waiting"
      /\ \A k, l \in DOMAIN control' :
           Pending(k, "ConnectNewPeer")' /\ Pending(l, "ConnectNewPeer")' => k = l
      /\ asking' = "waiting" => connecting' # << >>
  BY <1>1, <1>4, <1>6 DEF PeersInv, PendingInv, Pending, connectVars
<1>10. \A k \in DOMAIN control' : Pending(k, "DroppedPeer")' =>
         \E j \in DOMAIN conns' :
           conns'[j].addr = control'[k].addr /\ conns'[j].writer = "done"
  <2> SUFFICES ASSUME NEW k \in DOMAIN control', control'[k].signal = "DroppedPeer"
               PROVE  \E j \in DOMAIN conns' :
                        conns'[j].addr = control'[k].addr /\ conns'[j].writer = "done"
    BY DEF Pending
  <2>1. PICK j \in DOMAIN conns :
          conns[j].addr = control[k].addr /\ conns[j].writer = "done"
    BY <1>4, <1>6 DEF PeersInv, PendingInv, Pending
  <2>2. control'[k] = control[k]
    BY <1>4, <1>6
  <2> QED
    BY <1>3, <2>1, <2>2
<1>11. PendingInv'
  BY <1>8, <1>9, <1>10 DEF PendingInv, Pending
<1>12. ServedInv'
  BY <1>1, <1>3 DEF PeersInv, ServedInv
<1> QED
  BY <1>7, <1>11, <1>12 DEF PeersInv

LEMMA ConnectStep ==
  ASSUME PeersInv, Connect
  PROVE  PeersInv'
<1> DEFINE a == Head(control).addr
           n == Len(conns) + 1
<1>1. Typed /\ Receive("ConnectNewPeer") /\ asking' = "idle"
  BY DEF PeersInv, Connect
<1>2. /\ control' \in Seq(Signal)
      /\ 1 \in DOMAIN control /\ Pending(1, "ConnectNewPeer")
      /\ Head(control) \in Signal /\ Head(control).signal = "ConnectNewPeer"
      /\ \A k \in DOMAIN control' :
           /\ k + 1 \in DOMAIN control /\ control'[k] = control[k + 1]
           /\ k \in Nat /\ k # 0
  BY <1>1, ReceivedSignal DEF Pending
<1>3. a \in Address
  BY <1>2 DEF Signal, ConnectNewPeer, DroppedPeer, GetNewPeer, BroadcastMessage
<1>4. \A k \in DOMAIN control' : ~Pending(k, "ConnectNewPeer")'
  <2> SUFFICES ASSUME NEW k \in DOMAIN control', control'[k].signal = "ConnectNewPeer"
               PROVE  FALSE
    BY DEF Pending
  <2>1. k + 1 = 1
    BY <1>2 DEF PeersInv, PendingInv, Pending
  <2> QED
    BY <1>2, <2>1
<1>5. connecting # << >>
  BY <1>2 DEF PeersInv, PendingInv
<1>6. Tail(connecting) \in Seq(Address)
  BY <1>1, <1>5, HeadTailProperties DEF Typed
<1>7. /\ conns' \in Seq(Conn) /\ connecting' \in Seq(Address)
      /\ \A i \in DOMAIN conns : i \in DOMAIN conns' /\ conns'[i] = conns[i]
      /\ ServedInv'
  <2>1. CASE UNCHANGED <<conns, peers, connecting>>
    BY <1>1, <2>1 DEF Typed, PeersInv, ServedInv, HasOwnAddress
  <2>2. CASE /\ conns' = Append(conns, Started(Accepted(a)))
             /\ Register(n)
             /\ connecting' = Tail(connecting)
    <3> DEFINE c == Started(Accepted(a))
    <3>1. c \in Conn /\ c.addr = a
      BY <1>3 DEF Started, Accepted, Conn
    <3> HIDE DEF a, c
    <3>2. /\ conns' \in Seq(Conn) /\ conns'[n] = c
          /\ \A i \in DOMAIN conns' : i \in DOMAIN conns \/ i = n
          /\ \A i \in DOMAIN conns : i \in DOMAIN conns' /\ conns'[i] = conns[i]
          /\ \A i \in DOMAIN conns : HasOwnAddress(i)' =>
               HasOwnAddress(i) /\ conns[i].addr # c.addr
      BY <1>1, <2>2, <3>1, ConnAdded DEF c
    <3>3. /\ a \in DOMAIN peers' /\ peers'[a] = n
          /\ \A b \in DOMAIN peers \ {a} : b \in DOMAIN peers' /\ peers'[b] = peers[b]
      BY <2>2, <3>1, <3>2, Registered
    <3> HIDE DEF n
    <3>4. ServedInv'
      BY <3>1, <3>2, <3>3 DEF PeersInv, ServedInv
    <3> QED
      BY <1>6, <2>2, <3>2, <3>4
  <2> QED
    BY <2>1, <2>2 DEF Connect
<1>8. Typed'
  BY <1>2, <1>7 DEF Typed
<1>9. /\ \A k \in DOMAIN control' : Pending(k, "GetNewPeer")' =>
           control'[k].conn \in DOMAIN conns' /\ conns'[control'[k].conn].writer = "none"
  BY <1>2, <1>7 DEF PeersInv, PendingInv, Pending
<1>10. \A k, l \in DOMAIN control' :
         Pending(k, "GetNewPeer")' /\ Pending(l, "GetNewPeer")'
           /\ control'[k].conn = control'[l].conn => k = l
  <2> SUFFICES ASSUME NEW k \in DOMAIN control', NEW l \in DOMAIN control',
                      control'[k].signal = "GetNewPeer", control'[l].signal = "GetNewPeer",
                      control'[k].conn = control'[l].conn
               PROVE  k = l
    BY DEF Pending
  <2>1. k + 1 = l + 1
    BY <1>2 DEF PeersInv, PendingInv, Pending
  <2> QED
    BY <1>2, <2>1
<1>11. \A k \in DOMAIN control' : Pending(k, "DroppedPeer")' =>
         \E j \in DOMAIN conns' :
           conns'[j].addr = control'[k].addr /\ conns'[j].writer = "done"
  <2> SUFFICES ASSUME NEW k \in DOMAIN control', control'[k].signal = "DroppedPeer"
               PROVE  \E j \in DOMAIN conns' :
                        conns'[j].addr = control'[k].addr /\ conns'[j].writer = "done"
    BY DEF Pending
  <2>1. PICK j \in DOMAIN conns :
          conns[j].addr = control[k + 1].addr /\ conns[j].writer = "done"
    BY <1>2 DEF PeersInv, PendingInv, Pending
  <2> QED
    BY <1>2, <1>7, <2>1
<1>12. PendingInv'
  BY <1>1, <1>4, <1>9, <1>10, <1>11 DEF PendingInv, Pending
<1> QED
  BY <1>7, <1>8, <1>12 DEF PeersInv

LEMMA AskToConnectStep ==
  ASSUME PeersInv, AskToConnect
  PROVE  PeersInv'
<1>1. /\ Typed /\ ConnsKept /\ peers' = peers /\ conns' = conns /\ connecting' = connecting
      /\ asking = "idle" /\ connecting # << >>
  BY SameConnsKept DEF PeersInv, AskToConnect
<1>2. ServedInv'
  BY <1>1, ServedKept
<1>3. CASE control' = control /\ asking' = "ended"
  BY <1>1, <1>2, <1>3 DEF PeersInv, Typed, PendingInv, Pending
<1>4. CASE control' = Append(control, ConnectNewPeer(Head(connecting))) /\ asking' = "waiting"
  <2> DEFINE e == ConnectNewPeer(Head(connecting))
             n == Len(control) + 1
  <2>1. e \in Signal /\ e.signal = "ConnectNewPeer"
    BY <1>1, HeadTailProperties, SignalsAreTold DEF Typed
  <2> HIDE DEF e
  <2>2. /\ control' \in Seq(Signal)
        /\ \A k \in DOMAIN control' : k \in DOMAIN control \/ k = n
        /\ \A k \in DOMAIN control : control'[k] = control[k]
        /\ control'[n] = e
    BY <1>1, <1>4, <2>1, Sent DEF Typed, e
  <2> HIDE DEF n
  <2>3. \A k \in DOMAIN control' :
          /\ Pending(k, "ConnectNewPeer")' => k = n
          /\ Pending(k, "GetNewPeer")' \/ Pending(k, "DroppedPeer")' =>
               k \in DOMAIN control
    BY <1>1, <2>1, <2>2 DEF Pending, PeersInv, PendingInv
  <2>4. PendingInv'
    BY <1>1, <1>4, <2>2, <2>3 DEF PeersInv, PendingInv, Pending
  <2> QED
    BY <1>1, <1>2, <2>2, <2>4 DEF PeersInv, Typed
<1> QED
  BY <1>3, <1>4 DEF AskToConnect

LEMMA PeersStep ==
  ASSUME PeersInv, MutexInv, [Next]_vars
  PROVE  PeersInv'
<1>1. CASE UNCHANGED vars
  BY <1>1, SameConnsKept, QuietStep DEF vars, ControlKept, PeersInv
<1>2. CASE DispatchControl
  BY <1>2, ConnectStep, BroadcastStep, AcceptStep, AcceptFailsStep, RemovePeerStep
     DEF DispatchControl
<1>3. ASSUME NEW w \in Worker, NetworkWorker(w) \/ PopOrphan(w) \/ PanicOverOrphans(w)
      PROVE  PeersInv'
  BY <1>3, ThreadStep DEF Thread
<1>4. CASE InsertMined \/ ApiPing
  BY <1>4, ThreadStep DEF Thread
<1>5. CASE Announcer(MinerWorker)
  BY <1>5, AnnouncerStep DEF Thread
<1>6. CASE ListenerFails
  <2>1. Typed /\ ConnsKept /\ peers' = peers /\ control' = control /\ conns' = conns
        /\ connecting' = connecting /\ asking' = asking
    BY <1>6, SameConnsKept DEF PeersInv, ListenerFails
  <2>2. Typed' /\ PendingInv'
    BY <2>1 DEF PeersInv, Typed, PendingInv, Pending
  <2> QED
    BY <2>1, <2>2, ServedKept DEF PeersInv
<1> QED
  BY <1>1, <1>2, <1>3, <1>4, <1>5, <1>6, ArriveStep, ConnectionStep, AskToConnectStep DEF Next

LEMMA PeersInit ==
  ASSUME Init
  PROVE  PeersInv
<1>1. Listed \in Seq(Address)
  BY ServerAssumption, SeqMonotonic DEF Address
<1> QED
  BY <1>1 DEF Init, PeersInv, Typed, PendingInv, Pending, ServedInv

(* A peer whose connection is up and whose address is its own is in the map *)
(* that broadcasts go by, whatever the order of signals and departures.     *)
THEOREM ServerPeersAreServed == Spec => []PeersAreServed
<1>1. Init => MutexInv /\ PeersInv
  BY MutexInit, PeersInit
<1>2. MutexInv /\ PeersInv /\ [Next]_vars => MutexInv' /\ PeersInv'
  BY MutexStep, PeersStep
<1>3. PeersInv => PeersAreServed
  BY DEF PeersInv, ServedInv, PeersAreServed, Range
<1> QED
  BY <1>1, <1>2, <1>3, PTL DEF Spec

(***************************************************************************)
(* Blocks that are stored and announced                                     *)
(***************************************************************************)

(* A block that is stored and not broadcast waits in the control channel,   *)
(* except the one that the holder of the mutex will announce; if a thread   *)
(* has died with the mutex, except one.                                     *)
AnnouncedInv ==
  /\ \A t \in Thread : Announces(t) => unannounced \ {thread[t].block} \subseteq Queued
  /\ ~poisoned /\ (\A t \in Thread : ~Announces(t)) => unannounced \subseteq Queued
  /\ StoredIsAnnounced

LEMMA QueuedGrows ==
  ASSUME Typed, NEW e, control' = Append(control, e)
  PROVE  /\ Queued \subseteq Queued'
         /\ e.signal = "BroadcastMessage" => e.block \in Queued'
<1>1. control \in Seq(Signal \union {e}) /\ e \in Signal \union {e}
  BY SeqMonotonic DEF Typed
<1> DEFINE n == Len(control) + 1
<1>2. /\ DOMAIN control' = 1 .. n /\ n \in Nat /\ n \in 1 .. n
      /\ DOMAIN control \subseteq 1 .. n
      /\ \A k \in DOMAIN control : control'[k] = control[k]
      /\ control'[n] = e
  BY <1>1, Sent
<1> HIDE DEF n
<1> QED
  BY <1>2 DEF Queued

(* dispatch_control takes a signal out.                                     *)
LEMMA QueuedShrinks ==
  ASSUME Typed, control # << >>, control' = Tail(control), NEW b \in Queued, b \notin Queued'
  PROVE  Head(control).signal = "BroadcastMessage" /\ b = Head(control).block
<1>1. /\ Len(control) \in Nat \ {0} /\ DOMAIN control = 1 .. Len(control)
      /\ Len(control') = Len(control) - 1 /\ DOMAIN control' = 1 .. Len(control')
      /\ \A k \in 1 .. Len(control') : control'[k] = control[k + 1]
  BY HeadTailProperties, EmptySeq, LenProperties DEF Typed
<1>2. PICK k \in DOMAIN control : control[k].signal = "BroadcastMessage" /\ control[k].block = b
  BY DEF Queued
<1>3. CASE k = 1
  <2>1. control[1] = Head(control)
    BY Taken DEF Typed
  <2> QED
    BY <1>2, <1>3, <2>1
<1>4. CASE k # 1
  <2> DEFINE l == k - 1
  <2>1. l \in DOMAIN control' /\ l + 1 = k
    BY <1>1, <1>4
  <2>2. control'[l] = control[k]
    BY <1>1, <2>1
  <2> HIDE DEF l
  <2>3. b \in Queued'
    BY <1>2, <2>1, <2>2 DEF Queued
  <2> QED
    BY <2>3
<1> QED
  BY <1>3, <1>4

(* What a step leaves unannounced it leaves in the channel.                 *)
ChannelKeeps ==
  unannounced' \subseteq unannounced /\ \A b \in unannounced' : b \in Queued => b \in Queued'

LEMMA SameThreadsKeepAnnounced ==
  ASSUME AnnouncedInv, ChannelKeeps, thread' = thread, poisoned' = poisoned, stored' = stored
  PROVE  AnnouncedInv'
<1>1. StoredIsAnnounced'
  <2>1. PICK b \in 0 .. stored : unannounced \ {b} \subseteq Queued
    BY DEF AnnouncedInv, StoredIsAnnounced
  <2>2. unannounced' \ {b} \subseteq Queued'
    BY <2>1 DEF ChannelKeeps
  <2> QED
    BY <2>1, <2>2 DEF StoredIsAnnounced
<1>2. \A t \in Thread : Announces(t)' => unannounced' \ {thread'[t].block} \subseteq Queued'
  BY DEF AnnouncedInv, ChannelKeeps, Announces
<1>3. ~poisoned' /\ (\A t \in Thread : ~Announces(t)') => unannounced' \subseteq Queued'
  BY DEF AnnouncedInv, ChannelKeeps, Announces
<1> QED
  BY <1>1, <1>2, <1>3 DEF AnnouncedInv

LEMMA BusyKeepsAnnounced ==
  ASSUME MutexInv, AnnouncedInv, NEW t \in Thread, NEW what, Set(t, what),
         ~Announces(t), what.at # "announcing",
         poisoned' = poisoned, UNCHANGED <<blockVars, control>>
  PROVE  AnnouncedInv'
<1>1. thread' = [thread EXCEPT ![t] = what] /\ ~Announces(t)'
  BY DEF Set, MutexInv, Announces
<1>2. \A u \in Thread \ {t} : thread'[u] = thread[u]
  BY <1>1 DEF MutexInv
<1>3. Queued' = Queued /\ unannounced' = unannounced /\ stored' = stored
  BY DEF Queued, blockVars
<1>4. \A u \in Thread : Announces(u)' => unannounced' \ {thread'[u].block} \subseteq Queued'
  BY <1>1, <1>2, <1>3 DEF AnnouncedInv, Announces
<1>5. ~poisoned' /\ (\A u \in Thread : ~Announces(u)') => unannounced' \subseteq Queued'
  BY <1>1, <1>2, <1>3 DEF AnnouncedInv, Announces
<1>6. StoredIsAnnounced'
  BY <1>3 DEF AnnouncedInv, StoredIsAnnounced
<1> QED
  BY <1>4, <1>5, <1>6 DEF AnnouncedInv

LEMMA InsertKeepsAnnounced ==
  ASSUME MutexInv, AnnouncedInv, NEW t \in Thread, NEW i, ChainIsFree, Store,
         Set(t, Announcing(i, stored + 1, 0)), poisoned' = poisoned, control' = control
  PROVE  AnnouncedInv'
<1> DEFINE b == stored + 1
           what == Announcing(i, b, 0)
<1>1. /\ stored' = b /\ b \in 0 .. b
      /\ unannounced' = unannounced \union {b}
  BY DEF MutexInv, Store
<1>2. what.at = "announcing" /\ what.block = b
  BY DEF Announcing
<1>3. thread' = [thread EXCEPT ![t] = what]
  BY DEF Set
<1>4. ~poisoned /\ \A u \in Thread : ~Announces(u)
  BY DEF ChainIsFree, Announces
<1>5. Queued' = Queued /\ unannounced \subseteq Queued
  BY <1>4 DEF Queued, AnnouncedInv
<1> HIDE DEF b, what
<1>6. thread'[t] = what /\ \A u \in Thread : Announces(u)' => u = t
  BY <1>3, <1>4 DEF MutexInv, Announces
<1>7. unannounced' \ {b} \subseteq Queued'
  BY <1>1, <1>5
<1>8. StoredIsAnnounced'
  BY <1>1, <1>7 DEF StoredIsAnnounced
<1>9. \A u \in Thread : Announces(u)' => unannounced' \ {thread'[u].block} \subseteq Queued'
  BY <1>2, <1>6, <1>7
<1>10. Announces(t)'
  BY <1>2, <1>6 DEF Announces
<1> QED
  BY <1>8, <1>9, <1>10 DEF AnnouncedInv

LEMMA DeathKeepsAnnounced ==
  ASSUME MutexInv, AnnouncedInv, NEW t \in Thread, AnnounceFails(t) \/ PanicOverOrphans(t)
  PROVE  AnnouncedInv'
<1>1. /\ Announces(t) /\ Set(t, Ended) /\ poisoned' = TRUE
      /\ UNCHANGED blockVars /\ control' = control
  BY DEF AnnounceFails, PanicOverOrphans, Announces
<1>2. \A u \in Thread : ~Announces(u)'
  BY <1>1, ReleaseKeepsMutex DEF Ended
<1>3. StoredIsAnnounced'
  BY <1>1 DEF AnnouncedInv, StoredIsAnnounced, Queued, blockVars
<1> QED
  BY <1>1, <1>2, <1>3 DEF AnnouncedInv

LEMMA AnnounceKeepsAnnounced ==
  ASSUME Typed, MutexInv, AnnouncedInv, NEW t \in Thread, Announce(t)
  PROVE  AnnouncedInv'
<1>1. /\ Announces(t) /\ Set(t, Idle) /\ poisoned' = poisoned /\ UNCHANGED blockVars
      /\ control' = Append(control, BroadcastMessage(thread[t].block))
  BY DEF Announce, Announces
<1>2. \A u \in Thread : ~Announces(u)'
  BY <1>1, ReleaseKeepsMutex DEF Idle, MutexInv
<1> DEFINE e == BroadcastMessage(thread[t].block)
<1>3. e.signal = "BroadcastMessage" /\ e.block = thread[t].block /\ control' = Append(control, e)
  BY <1>1, SignalsAreTold
<1> HIDE DEF e
<1>4. Queued \subseteq Queued' /\ thread[t].block \in Queued'
  BY <1>3, QueuedGrows
<1>5. unannounced' \subseteq Queued' /\ unannounced' = unannounced /\ stored' = stored
  BY <1>1, <1>4 DEF AnnouncedInv, blockVars
<1>6. 0 \in 0 .. stored'
  BY <1>5 DEF MutexInv
<1>7. StoredIsAnnounced'
  BY <1>5, <1>6 DEF StoredIsAnnounced
<1> QED
  BY <1>2, <1>5, <1>7 DEF AnnouncedInv

LEMMA PoppingKeepsAnnounced ==
  ASSUME Typed, MutexInv, AnnouncedInv, NEW t \in Thread, PopOrphan(t)
  PROVE  AnnouncedInv'
<1>1. /\ Announces(t) /\ UNCHANGED blockVars
      /\ control' = Append(control, BroadcastMessage(0))
  BY DEF PopOrphan, Announces
<1>2. /\ Announces(t)' /\ thread'[t].block = thread[t].block
      /\ \A u \in Thread : Announces(u)' => u = t
  BY PoppingKeepsMutex
<1>3. Queued \subseteq Queued'
  <2> DEFINE e == BroadcastMessage(0)
  <2>1. control' = Append(control, e)
    BY <1>1
  <2> HIDE DEF e
  <2> QED
    BY <2>1, QueuedGrows
<1>4. unannounced' = unannounced /\ stored' = stored
  BY <1>1 DEF blockVars
<1>5. unannounced' \ {thread'[t].block} \subseteq Queued'
  BY <1>1, <1>2, <1>3, <1>4 DEF AnnouncedInv
<1>6. StoredIsAnnounced'
  BY <1>3, <1>4 DEF AnnouncedInv, StoredIsAnnounced
<1> QED
  BY <1>2, <1>5, <1>6 DEF AnnouncedInv

(* The steps that leave the threads alone add to the channel or, in         *)
(* dispatch_control, take out what they broadcast.                          *)
LEMMA ChannelStep ==
  ASSUME Typed, [Next]_vars
  PROVE  \/ ChannelKeeps /\ UNCHANGED <<thread, poisoned, stored>>
         \/ \E w \in Worker : NetworkWorker(w) \/ PopOrphan(w) \/ PanicOverOrphans(w)
         \/ InsertMined
         \/ Announcer(MinerWorker)
<1> USE DEF threadVars, connectVars, blockVars
<1>1. ASSUME unannounced' = unannounced, control' = control \/ \E e : control' = Append(control, e)
      PROVE  ChannelKeeps
  <2>1. Queued \subseteq Queued'
    <3>1. CASE control' = control
      BY <3>1 DEF Queued
    <3>2. ASSUME NEW e, control' = Append(control, e)
          PROVE  Queued \subseteq Queued'
      BY <3>2, QueuedGrows
    <3> QED
      BY <1>1, <3>1, <3>2
  <2> QED
    BY <1>1, <2>1 DEF ChannelKeeps
<1>2. ASSUME NEW a \in Caller, Arrive(a)
      PROVE  ChannelKeeps /\ UNCHANGED <<thread, poisoned, stored>>
  BY <1>1, <1>2 DEF Arrive
<1>3. ASSUME NEW i \in DOMAIN conns,
             Leave(i) \/ (\E msg \in {"Ping", "Blocks"} : Read(i, msg)) \/ Reader(i) \/ Writer(i)
      PROVE  ChannelKeeps /\ UNCHANGED <<thread, poisoned, stored>>
  BY <1>1, <1>3 DEF Leave, Read, Reader, PassOn, PassOnFails, ReadEnds, Writer, Write,
                    ReportDropped, WriteFails
<1>4. CASE ListenerFails \/ ApiPing \/ AskToConnect \/ UNCHANGED vars
  BY <1>1, <1>4 DEF ListenerFails, ApiPing, AskToConnect, vars
<1>5. CASE DispatchControl
  <2>1. /\ control # << >> /\ control' = Tail(control)
        /\ \/ Head(control).signal # "BroadcastMessage" /\ unannounced' = unannounced
           \/ unannounced' = unannounced \ {Head(control).block}
        /\ UNCHANGED <<thread, poisoned, stored>>
    BY <1>5 DEF DispatchControl, Connect, Broadcast, Accept, AcceptFails, RemovePeer, Receive
  <2>2. ASSUME NEW b \in unannounced', b \in Queued
        PROVE  b \in Queued'
    BY <2>1, <2>2, QueuedShrinks
  <2>3. unannounced' \subseteq unannounced
    BY <2>1
  <2> QED
    BY <2>1, <2>2, <2>3 DEF ChannelKeeps
<1> QED
  BY <1>2, <1>3, <1>4, <1>5 DEF Next

LEMMA AnnouncedStep ==
  ASSUME Typed, MutexInv, AnnouncedInv, [Next]_vars
  PROVE  AnnouncedInv'
<1>1. CASE ChannelKeeps /\ UNCHANGED <<thread, poisoned, stored>>
  BY <1>1, SameThreadsKeepAnnounced
<1>2. ASSUME NEW t \in Thread, Announcer(t) \/ PopOrphan(t) \/ PanicOverOrphans(t)
      PROVE  AnnouncedInv'
  BY <1>2, AnnounceKeepsAnnounced, DeathKeepsAnnounced, PoppingKeepsAnnounced DEF Announcer
<1>3. ASSUME NEW w \in Worker, NetworkWorker(w)
      PROVE  AnnouncedInv'
  <2> w \in Thread
    BY DEF Thread
  <2>1. CASE Take(w)
    <3>1. thread[w] = Idle /\ Set(w, Handling(Head(messages).conn, Head(messages).msg))
      BY <2>1 DEF Take
    <3> QED
      BY <2>1, <3>1, BusyKeepsAnnounced DEF Take, Announces, Idle, Handling
  <2>2. CASE LoseServer(w)
    BY <2>2, BusyKeepsAnnounced DEF LoseServer, Announces, Idle, Ended
  <2>3. CASE Answer(w)
    BY <2>3, BusyKeepsAnnounced DEF Answer, Announces, Idle
  <2>4. CASE InsertBlock(w)
    BY <2>4, InsertKeepsAnnounced DEF InsertBlock
  <2>5. CASE FindPoison(w)
    BY <2>5, BusyKeepsAnnounced DEF FindPoison, Announces, Ended
  <2> QED
    BY <1>2, <1>3, <2>1, <2>2, <2>3, <2>4, <2>5 DEF NetworkWorker
<1>4. CASE InsertMined
  <2> MinerWorker \in Thread
    BY DEF Thread
  <2>1. CASE ChainIsFree /\ Store /\ Set(MinerWorker, Announcing(0, stored + 1, 0))
    BY <1>4, <2>1, InsertKeepsAnnounced DEF InsertMined
  <2>2. CASE Set(MinerWorker, Ended) /\ UNCHANGED blockVars
    BY <1>4, <2>2, BusyKeepsAnnounced DEF InsertMined, Announces, Idle, Ended
  <2> QED
    BY <1>4, <2>1, <2>2 DEF InsertMined
<1> QED
  BY <1>1, <1>2, <1>3, <1>4, ChannelStep DEF Thread

(* All blocks that a node has stored, except one at most, have been         *)
(* broadcast or wait in the control channel, however its threads and the    *)
(* tasks of its server take turns and whichever of them die.                *)
THEOREM ServerStoredIsAnnounced == Spec => []StoredIsAnnounced
<1>1. Init => MutexInv /\ PeersInv /\ AnnouncedInv
  <2> SUFFICES ASSUME Init
               PROVE  AnnouncedInv
    BY MutexInit, PeersInit
  <2>1. unannounced = {} /\ stored = 0 /\ 0 \in 0 .. stored
    BY DEF Init
  <2> QED
    BY <2>1 DEF AnnouncedInv, StoredIsAnnounced
<1>2. MutexInv /\ PeersInv /\ AnnouncedInv /\ [Next]_vars
        => MutexInv' /\ PeersInv' /\ AnnouncedInv'
  BY MutexStep, PeersStep, AnnouncedStep DEF PeersInv
<1>3. AnnouncedInv => StoredIsAnnounced
  BY DEF AnnouncedInv
<1> QED
  BY <1>1, <1>2, <1>3, PTL DEF Spec

(***************************************************************************)
(* Panics of readers and writers                                            *)
(***************************************************************************)

(* Threads that have ended stay so, and an address that has been used twice *)
(* stays one.                                                               *)
LEMMA EndedStaysEnded ==
  ASSUME MutexInv, WorkersEnded, [Next]_vars
  PROVE  WorkersEnded'
<1>1. CASE thread' = thread
  BY <1>1 DEF WorkersEnded
<1>2. ASSUME NEW w \in Worker, NetworkWorker(w) \/ PopOrphan(w) \/ PanicOverOrphans(w)
      PROVE  FALSE
  <2>1. thread[w].at = "ended"
    BY DEF WorkersEnded, Ended
  <2> QED
    BY <1>2, <2>1 DEF NetworkWorker, Take, LoseServer, Answer, InsertBlock, FindPoison,
         Announcer, Announce, AnnounceFails, PopOrphan,
              PanicOverOrphans, Idle
<1>3. CASE InsertMined \/ Announcer(MinerWorker)
  <2>1. \A w \in Worker : w # MinerWorker /\ w \in Thread
    BY ServerAssumption DEF Thread
  <2> QED
    BY <1>3, <2>1 DEF MutexInv, InsertMined, Announcer, Announce, AnnounceFails, Set, WorkersEnded
<1>4. ASSUME NEW i \in DOMAIN conns,
             Leave(i) \/ (\E msg \in {"Ping", "Blocks"} : Read(i, msg)) \/ Reader(i) \/ Writer(i)
      PROVE  thread' = thread
  BY <1>4 DEF Leave, Read, Reader, PassOn, PassOnFails, ReadEnds, Writer, Write,
              ReportDropped, WriteFails, threadVars
<1>5. CASE (\E a \in Caller : Arrive(a)) \/ ListenerFails \/ DispatchControl \/ ApiPing
           \/ AskToConnect \/ UNCHANGED vars
  BY <1>5, <1>1 DEF Arrive, ListenerFails, DispatchControl, Connect, Broadcast, Accept, AcceptFails,
                    RemovePeer, ApiPing, AskToConnect, threadVars, vars
<1> QED
  BY <1>1, <1>2, <1>3, <1>4, <1>5 DEF Next

ConnsGrow == \A i \in DOMAIN conns : i \in DOMAIN conns' /\ conns'[i].addr = conns[i].addr

LEMMA ConnsGrowStep ==
  ASSUME Typed, [Next]_vars
  PROVE  ConnsGrow
<1>1. \A i \in DOMAIN conns : conns[i] \in Conn
  BY TypedDomains
<1>2. CASE conns' = conns
  BY <1>2 DEF ConnsGrow
<1>3. ASSUME NEW i, NEW c, SetConn(i, c), i \in DOMAIN conns => c.addr = conns[i].addr
      PROVE  ConnsGrow
  BY <1>3 DEF ConnsGrow, SetConn
<1>4. ASSUME NEW c, conns' = Append(conns, c)
      PROVE  ConnsGrow
  BY <1>4, TypedDomains DEF ConnsGrow, Typed
<1>5. ASSUME NEW i \in DOMAIN conns,
             Leave(i) \/ (\E msg \in {"Ping", "Blocks"} : Read(i, msg)) \/ Reader(i) \/ Writer(i)
      PROVE  ConnsGrow
  <2>1. CASE PassOnFails(i) \/ WriteFails(i)
    BY <1>2, <2>1 DEF PassOnFails, WriteFails
  <2>2. ASSUME NEW c, SetConn(i, c), c.addr = conns[i].addr
        PROVE  ConnsGrow
    BY <1>3, <2>2
  <2>3. /\ [conns[i] EXCEPT !.remote = "gone"].addr = conns[i].addr
        /\ \A msg : [conns[i] EXCEPT !.read = msg].addr = conns[i].addr
        /\ [conns[i] EXCEPT !.reader = "done"].addr = conns[i].addr
        /\ [conns[i] EXCEPT !.queued = @ - 1].addr = conns[i].addr
        /\ [conns[i] EXCEPT !.writer = "failed", !.queued = 0].addr = conns[i].addr
        /\ [conns[i] EXCEPT !.writer = "done"].addr = conns[i].addr
    BY <1>1 DEF Conn
  <2>4. CASE Leave(i) \/ (\E msg \in {"Ping", "Blocks"} : Read(i, msg))
    BY <2>2, <2>3, <2>4 DEF Leave, Read
  <2>5. CASE PassOn(i) \/ ReadEnds(i)
    BY <2>2, <2>3, <2>5 DEF PassOn, ReadEnds
  <2>6. CASE Write(i) \/ ReportDropped(i)
    BY <2>2, <2>3, <2>6 DEF Write, ReportDropped
  <2> QED
    BY <1>5, <2>1, <2>4, <2>5, <2>6 DEF Reader, Writer
<1>6. ASSUME NEW w \in Worker, NetworkWorker(w) \/ PopOrphan(w) \/ PanicOverOrphans(w)
      PROVE  ConnsGrow
  <2>1. CASE Answer(w)
    BY <1>1, <2>1 DEF Answer, Written, SetConn, ConnsGrow, Conn
  <2> QED
    BY <1>2, <1>6, <2>1 DEF NetworkWorker, Take, LoseServer, InsertBlock, FindPoison,
         Announcer, Announce, AnnounceFails, PopOrphan,
              PanicOverOrphans
<1>7. CASE DispatchControl
  <2>1. CASE Connect
    BY <1>2, <1>4, <2>1 DEF Connect
  <2>2. CASE Accept
    BY <1>1, <2>2 DEF Accept, Started, SetConn, ConnsGrow, Conn
  <2>3. CASE Broadcast
    BY <1>1, <2>3 DEF Broadcast, Written, ConnsGrow, Conn
  <2>4. CASE AcceptFails
    BY <1>1, <2>4 DEF AcceptFails, Dropped, ConnsGrow, Conn
  <2>5. CASE RemovePeer
    BY <1>2, <2>5 DEF RemovePeer
  <2> QED
    BY <1>7, <2>1, <2>2, <2>3, <2>4, <2>5 DEF DispatchControl
<1>8. CASE \/ ListenerFails \/ InsertMined \/ Announcer(MinerWorker) \/ ApiPing \/ AskToConnect
           \/ UNCHANGED vars
  BY <1>2, <1>8 DEF ListenerFails, InsertMined, Announcer, Announce, AnnounceFails, ApiPing,
                    AskToConnect, vars
<1>9. ASSUME NEW a \in Caller, Arrive(a)
      PROVE  ConnsGrow
  BY <1>4, <1>9 DEF Arrive
<1> QED
  BY <1>5, <1>6, <1>7, <1>8, <1>9 DEF Next

(* Only a listener that has failed, a reader that has nobody left to pass a *)
(* message on to, or a writer that has nobody left to write for leaves the  *)
(* server stuck.                                                            *)
LEMMA WhoGetsStuck ==
  ASSUME [Next]_vars, server' = "stuck"
  PROVE  \/ server = "stuck" /\ listener' = listener
         \/ listener' = "failed"
         \/ \E i \in DOMAIN conns : PassOnFails(i) \/ WriteFails(i)
<1>1. ASSUME NEW i \in DOMAIN conns,
             Leave(i) \/ (\E msg \in {"Ping", "Blocks"} : Read(i, msg)) \/ Reader(i) \/ Writer(i)
      PROVE  (server' = server /\ listener' = listener) \/ PassOnFails(i) \/ WriteFails(i)
  BY <1>1 DEF Leave, Read, Reader, PassOn, ReadEnds, Writer, Write, ReportDropped, connectVars
<1>2. ASSUME NEW w \in Worker, NetworkWorker(w) \/ PopOrphan(w) \/ PanicOverOrphans(w)
      PROVE  server' = server /\ listener' = listener
  BY <1>2 DEF NetworkWorker, Take, LoseServer, Answer, InsertBlock, FindPoison,
       Announcer, Announce, AnnounceFails, PopOrphan,
              PanicOverOrphans, connectVars
<1>3. DispatchControl => (server' = server /\ listener' = listener) \/ server' = "gone"
  BY DEF DispatchControl, Connect, Broadcast, Accept, AcceptFails, RemovePeer, connectVars
<1>4. \/ \E a \in Caller : Arrive(a)
      \/ InsertMined \/ Announcer(MinerWorker) \/ ApiPing \/ AskToConnect
      \/ UNCHANGED vars
      => server' = server /\ listener' = listener
  BY DEF Arrive, InsertMined, Announcer, Announce, AnnounceFails, ApiPing, AskToConnect,
         vars, connectVars
<1>5. ListenerFails => listener' = "failed"
  BY DEF ListenerFails
<1> QED
  BY <1>1, <1>2, <1>3, <1>4, <1>5 DEF Next

LEMMA StuckStep ==
  ASSUME MutexInv, PeersInv, StuckForACause, [Next]_vars
  PROVE  StuckForACause'
<1> SUFFICES ASSUME server' = "stuck"
             PROVE  \/ listener' = "failed" \/ WorkersEnded'
                    \/ \E i \in DOMAIN conns' : ~HasOwnAddress(i)'
  BY DEF StuckForACause
<1>1. WorkersEnded => WorkersEnded'
  BY EndedStaysEnded
<1>2. ASSUME NEW i \in DOMAIN conns, ~HasOwnAddress(i)
      PROVE  \E j \in DOMAIN conns' : ~HasOwnAddress(j)'
  BY <1>2, ConnsGrowStep DEF PeersInv, ConnsGrow, HasOwnAddress
<1>3. ASSUME NEW i \in DOMAIN conns, WriteFails(i)
      PROVE  ~HasOwnAddress(i)
  BY <1>3 DEF WriteFails, HasHandle, Range, PeersInv, ServedInv
<1>4. ASSUME NEW i \in DOMAIN conns, PassOnFails(i)
      PROVE  WorkersEnded
  BY <1>4 DEF PassOnFails
<1>5. server = "stuck" =>
        listener = "failed" \/ WorkersEnded \/ \E i \in DOMAIN conns : ~HasOwnAddress(i)
  BY DEF StuckForACause
<1> QED
  BY <1>1, <1>2, <1>3, <1>4, <1>5, WhoGetsStuck

(* The thread of the tasks dies under the server only when accept() has     *)
(* failed, when all workers have ended, or when two connections have come   *)
(* from one address: no departure of a peer with its own address does it.   *)
THEOREM ServerStuckForACause == Spec => []StuckForACause
<1>1. Init => MutexInv /\ PeersInv /\ StuckForACause
  BY MutexInit, PeersInit DEF Init, StuckForACause
<1>2. MutexInv /\ PeersInv /\ StuckForACause /\ [Next]_vars
        => MutexInv' /\ PeersInv' /\ StuckForACause'
  BY MutexStep, PeersStep, StuckStep
<1> QED
  BY <1>1, <1>2, PTL DEF Spec

(***************************************************************************)
(* Type correctness                                                         *)
(***************************************************************************)

Message == [conn : Nat, msg : {"Ping", "Blocks"}]

(* The channels stay within their capacities. *)
RoomInv ==
  /\ Len(control) <= ControlCap
  /\ messages \in Seq(Message) /\ Len(messages) <= MsgCap

(* The handle kept for an address is that of a connection from there. *)
HandleInv ==
  \A a \in DOMAIN peers : peers[a] \in DOMAIN conns /\ conns[peers[a]].addr = a

PhaseInv ==
  /\ server \in {"running", "stuck", "gone"}
  /\ \A t \in Thread : thread[t].at \in {"idle", "handling", "announcing", "ended"}
  /\ asking \in {"idle", "waiting", "ended"}
  /\ listener \in {"accepting", "failed"}

LEMMA LongerQueue ==
  ASSUME NEW S, NEW seq \in Seq(S), NEW e, NEW next, next = Append(seq, e)
  PROVE  Len(next) = Len(seq) + 1
<1>1. seq \in Seq(S \union {e}) /\ e \in S \union {e}
  BY SeqMonotonic
<1> QED
  BY <1>1, AppendProperties

LEMMA ShorterQueue ==
  ASSUME NEW S, NEW seq \in Seq(S), seq # << >>, NEW next, next = Tail(seq)
  PROVE  Len(next) \in Nat /\ Len(next) < Len(seq) /\ next \in Seq(S)
<1>1. Len(next) = Len(seq) - 1 /\ Len(seq) \in Nat \ {0} /\ next \in Seq(S)
  BY HeadTailProperties, EmptySeq
<1> QED
  BY <1>1

(* Whoever sends on the control channel waits for room.                     *)
LEMMA ControlStep ==
  ASSUME [Next]_vars
  PROVE  \/ control' = control
         \/ control # << >> /\ control' = Tail(control)
         \/ ControlHasRoom /\ \E e : control' = Append(control, e)
<1>1. CASE (\E a \in Caller : Arrive(a)) \/ ListenerFails \/ ApiPing \/ AskToConnect
           \/ InsertMined \/ UNCHANGED vars
  BY <1>1 DEF Arrive, ListenerFails, ApiPing, AskToConnect, InsertMined, vars
<1>2. ASSUME NEW i \in DOMAIN conns,
             Leave(i) \/ (\E msg \in {"Ping", "Blocks"} : Read(i, msg)) \/ Reader(i) \/ Writer(i)
      PROVE  control' = control \/ (ControlHasRoom /\ \E e : control' = Append(control, e))
  BY <1>2 DEF Leave, Read, Reader, PassOn, PassOnFails, ReadEnds, Writer, Write,
              ReportDropped, WriteFails
<1>3. CASE DispatchControl
  BY <1>3 DEF DispatchControl, Connect, Broadcast, Accept, AcceptFails, RemovePeer, Receive
<1>4. ASSUME NEW t, Announcer(t)
      PROVE  control' = control \/ (ControlHasRoom /\ \E e : control' = Append(control, e))
  BY <1>4 DEF Announcer, Announce, AnnounceFails
<1>5. ASSUME NEW w \in Worker, NetworkWorker(w) \/ PopOrphan(w) \/ PanicOverOrphans(w),
             ~Announcer(w)
      PROVE  control' = control \/ (ControlHasRoom /\ \E e : control' = Append(control, e))
  BY <1>5 DEF NetworkWorker, Take, LoseServer, Answer, InsertBlock, FindPoison, PopOrphan,
              PanicOverOrphans
<1> QED
  BY <1>1, <1>2, <1>3, <1>4, <1>5 DEF Next

(* So does a reader, which passes on what it has read.                      *)
LEMMA MessagesStep ==
  ASSUME Typed, [Next]_vars
  PROVE  \/ messages' = messages
         \/ messages # << >> /\ messages' = Tail(messages)
         \/ Len(messages) < MsgCap /\ \E e \in Message : messages' = Append(messages, e)
<1>1. CASE (\E a \in Caller : Arrive(a)) \/ ListenerFails \/ ApiPing \/ AskToConnect
           \/ InsertMined \/ DispatchControl \/ UNCHANGED vars
  BY <1>1 DEF Arrive, ListenerFails, ApiPing, AskToConnect, InsertMined, DispatchControl, Connect,
              Broadcast,
              Accept, AcceptFails, RemovePeer, vars
<1>2. ASSUME NEW i \in DOMAIN conns, PassOn(i)
      PROVE  Len(messages) < MsgCap /\ \E e \in Message : messages' = Append(messages, e)
  <2>1. conns[i] \in Conn /\ conns[i].read # << >> /\ i \in Nat
    BY <1>2, TypedDomains DEF PassOn
  <2>2. conns[i].read = <<"Ping">> \/ conns[i].read = <<"Blocks">>
    BY <2>1 DEF Conn
  <2>3. conns[i].read[1] \in {"Ping", "Blocks"}
    BY <2>2
  <2>4. [conn |-> i, msg |-> conns[i].read[1]] \in Message
    BY <2>1, <2>3 DEF Message
  <2> QED
    BY <1>2, <2>4 DEF PassOn
<1>3. ASSUME NEW i \in DOMAIN conns,
             Leave(i) \/ (\E msg \in {"Ping", "Blocks"} : Read(i, msg)) \/ Reader(i) \/ Writer(i),
             ~PassOn(i)
      PROVE  messages' = messages
  BY <1>3 DEF Leave, Read, Reader, PassOnFails, ReadEnds, Writer, Write, ReportDropped,
              WriteFails
<1>4. ASSUME NEW t, Announcer(t)
      PROVE  messages' = messages
  BY <1>4 DEF Announcer, Announce, AnnounceFails
<1>5. ASSUME NEW w \in Worker, NetworkWorker(w) \/ PopOrphan(w) \/ PanicOverOrphans(w),
             ~Announcer(w)
      PROVE  messages' = messages \/ (messages # << >> /\ messages' = Tail(messages))
  BY <1>5 DEF NetworkWorker, Take, LoseServer, Answer, InsertBlock, FindPoison, PopOrphan,
              PanicOverOrphans
<1> QED
  BY <1>1, <1>2, <1>3, <1>4, <1>5 DEF Next

LEMMA RoomStep ==
  ASSUME Typed, RoomInv, [Next]_vars
  PROVE  RoomInv'
<1>1. Len(control) \in Nat /\ ControlCap \in Nat /\ Len(messages) \in Nat /\ MsgCap \in Nat
  BY ServerAssumption, LenProperties DEF Typed, RoomInv
<1>2. Len(control') <= ControlCap
  <2>1. CASE control # << >> /\ control' = Tail(control)
    <3>1. Len(control') \in Nat /\ Len(control') < Len(control)
      BY <2>1, ShorterQueue DEF Typed
    <3> QED
      BY <1>1, <3>1 DEF RoomInv
  <2>2. ASSUME ControlHasRoom, NEW e, control' = Append(control, e)
        PROVE  Len(control') <= ControlCap
    <3>1. Len(control') = Len(control) + 1
      BY <2>2, LongerQueue DEF Typed
    <3> QED
      BY <1>1, <2>2, <3>1 DEF ControlHasRoom
  <2>3. CASE control' = control
    BY <2>3 DEF RoomInv
  <2> QED
    BY <2>1, <2>2, <2>3, ControlStep
<1>3. messages' \in Seq(Message) /\ Len(messages') <= MsgCap
  <2>1. CASE messages # << >> /\ messages' = Tail(messages)
    <3>1. Len(messages') \in Nat /\ Len(messages') < Len(messages) /\ messages' \in Seq(Message)
      BY <2>1, ShorterQueue DEF RoomInv
    <3> QED
      BY <1>1, <3>1 DEF RoomInv
  <2>2. ASSUME Len(messages) < MsgCap, NEW e \in Message, messages' = Append(messages, e)
        PROVE  messages' \in Seq(Message) /\ Len(messages') <= MsgCap
    <3>1. Len(messages') = Len(messages) + 1 /\ messages' \in Seq(Message)
      BY <2>2, AppendProperties DEF RoomInv
    <3> QED
      BY <1>1, <2>2, <3>1
  <2>3. CASE messages' = messages
    BY <2>3 DEF RoomInv
  <2> QED
    BY <2>1, <2>2, <2>3, MessagesStep
<1> QED
  BY <1>2, <1>3 DEF RoomInv

(* What dispatch_control does to the map of peers.                          *)
LEMMA HandlesRegistered ==
  ASSUME HandleInv, ConnsGrow, NEW i \in DOMAIN conns', Register(i)
  PROVE  HandleInv'
<1> DEFINE addr == conns'[i].addr
<1>1. /\ DOMAIN peers' = DOMAIN peers \union {addr}
      /\ \A a \in DOMAIN peers' : peers'[a] = IF a = addr THEN i ELSE peers[a]
  BY DEF Register
<1> SUFFICES ASSUME NEW a \in DOMAIN peers'
             PROVE  peers'[a] \in DOMAIN conns' /\ conns'[peers'[a]].addr = a
  BY DEF HandleInv
<1>2. CASE a = addr
  BY <1>1, <1>2
<1>3. CASE a # addr
  <2>1. a \in DOMAIN peers /\ peers'[a] = peers[a]
    BY <1>1, <1>3
  <2> QED
    BY <2>1 DEF HandleInv, ConnsGrow
<1> QED
  BY <1>2, <1>3

LEMMA HandlesStep ==
  ASSUME PeersInv, HandleInv, [Next]_vars
  PROVE  HandleInv'
<1>1. Typed /\ ConnsGrow
  BY ConnsGrowStep DEF PeersInv
<1>2. CASE peers' = peers
  BY <1>1, <1>2 DEF HandleInv, ConnsGrow
<1>3. CASE DispatchControl
  <2>1. ASSUME conns' = Append(conns, Started(Accepted(Head(control).addr))),
               Register(Len(conns) + 1)
        PROVE  HandleInv'
    <3>1. Len(conns) + 1 \in DOMAIN conns'
      <4> DEFINE c == Started(Accepted(Head(control).addr))
      <4>1. conns' = Append(conns, c)
        BY <2>1
      <4> HIDE DEF c
      <4>2. conns \in Seq(Conn \union {c}) /\ c \in Conn \union {c}
        BY <1>1, SeqMonotonic DEF Typed
      <4>3. DOMAIN conns' = 1 .. (Len(conns) + 1) /\ Len(conns) \in Nat
        BY <4>1, <4>2, Sent
      <4> QED
        BY <4>3
    <3> DEFINE n == Len(conns) + 1
    <3>2. n \in DOMAIN conns' /\ Register(n)
      BY <2>1, <3>1
    <3> HIDE DEF n
    <3> QED
      BY <1>1, <3>2, HandlesRegistered
  <2>2. CASE Accept
    <3> DEFINE i == Head(control).conn
    <3>1. Receive("GetNewPeer") /\ Register(i)
      BY <2>2 DEF Accept
    <3>2. i \in DOMAIN conns
      BY <3>1, ReceivedSignal DEF PeersInv, PendingInv, Pending
    <3>3. i \in DOMAIN conns'
      BY <1>1, <3>2 DEF ConnsGrow
    <3> HIDE DEF i
    <3> QED
      BY <1>1, <3>1, <3>3, HandlesRegistered
  <2>3. CASE AcceptFails
    BY <2>3 DEF AcceptFails, HandleInv
  <2>4. CASE RemovePeer
    <3>1. /\ DOMAIN peers' \subseteq DOMAIN peers
          /\ \A a \in DOMAIN peers' : peers'[a] = peers[a]
      BY <2>4 DEF RemovePeer
    <3> QED
      BY <1>1, <3>1 DEF HandleInv, ConnsGrow
  <2>5. CASE Broadcast
    BY <1>2, <2>5 DEF Broadcast
  <2> QED
    BY <1>2, <1>3, <2>1, <2>2, <2>3, <2>4, <2>5 DEF DispatchControl, Connect
<1>4. ASSUME NEW i \in DOMAIN conns,
             Leave(i) \/ (\E msg \in {"Ping", "Blocks"} : Read(i, msg)) \/ Reader(i) \/ Writer(i)
      PROVE  peers' = peers
  BY <1>4 DEF Leave, Read, Reader, PassOn, PassOnFails, ReadEnds, Writer, Write,
              ReportDropped, WriteFails
<1>5. ASSUME NEW w \in Worker, NetworkWorker(w) \/ PopOrphan(w) \/ PanicOverOrphans(w)
      PROVE  peers' = peers
  BY <1>5 DEF NetworkWorker, Take, LoseServer, Answer, InsertBlock, FindPoison,
              Announcer, Announce, AnnounceFails, PopOrphan,
              PanicOverOrphans
<1>6. CASE (\E a \in Caller : Arrive(a)) \/ ListenerFails \/ ApiPing \/ AskToConnect
           \/ InsertMined \/ Announcer(MinerWorker) \/ UNCHANGED vars
  BY <1>2, <1>6 DEF Arrive, ListenerFails, ApiPing, AskToConnect, InsertMined, Announcer, Announce,
                    AnnounceFails, vars
<1> QED
  BY <1>2, <1>3, <1>4, <1>5, <1>6 DEF Next

LEMMA ThreadsStep ==
  ASSUME MutexInv, PhaseInv, [Next]_vars
  PROVE  \A t \in Thread : thread'[t].at \in {"idle", "handling", "announcing", "ended"}
<1>1. CASE thread' = thread
  BY <1>1 DEF PhaseInv
<1>2. ASSUME NEW u, NEW what, Set(u, what), what.at \in {"idle", "handling", "announcing", "ended"}
      PROVE  \A t \in Thread : thread'[t].at \in {"idle", "handling", "announcing", "ended"}
  BY <1>2 DEF MutexInv, PhaseInv, Set
<1>3. /\ Idle.at = "idle" /\ Ended.at = "ended"
      /\ \A i, b, n : Announcing(i, b, n).at = "announcing"
      /\ \A i, msg : Handling(i, msg).at = "handling"
  BY DEF Idle, Ended, Announcing, Handling
<1>4. ASSUME NEW u, Announcer(u)
      PROVE  \A t \in Thread : thread'[t].at \in {"idle", "handling", "announcing", "ended"}
  BY <1>2, <1>3, <1>4 DEF Announcer, Announce, AnnounceFails
<1>5. ASSUME NEW w \in Worker, NetworkWorker(w) \/ PopOrphan(w) \/ PanicOverOrphans(w)
      PROVE  \A t \in Thread : thread'[t].at \in {"idle", "handling", "announcing", "ended"}
  <2>1. CASE Take(w)
    <3>1. Set(w, Handling(Head(messages).conn, Head(messages).msg))
      BY <2>1 DEF Take
    <3> QED
      BY <1>2, <1>3, <3>1
  <2>2. CASE LoseServer(w) \/ Answer(w) \/ FindPoison(w) \/ PanicOverOrphans(w)
    BY <1>2, <1>3, <2>2 DEF LoseServer, Answer, FindPoison, PanicOverOrphans
  <2>3. CASE InsertBlock(w)
    <3>1. Set(w, Announcing(thread[w].conn, stored + 1, 0))
      BY <2>3 DEF InsertBlock
    <3> QED
      BY <1>2, <1>3, <3>1
  <2>4. CASE PopOrphan(w)
    <3>1. Set(w, Announcing(thread[w].conn, thread[w].block, thread[w].popped + 1))
      BY <2>4 DEF PopOrphan
    <3> QED
      BY <1>2, <1>3, <3>1
  <2> QED
    BY <1>4, <1>5, <2>1, <2>2, <2>3, <2>4 DEF NetworkWorker
<1>6. CASE InsertMined
  <2>1. Set(MinerWorker, Announcing(0, stored + 1, 0)) \/ Set(MinerWorker, Ended)
    BY <1>6 DEF InsertMined
  <2> QED
    BY <1>2, <1>3, <2>1
<1>7. ASSUME NEW i \in DOMAIN conns,
             Leave(i) \/ (\E msg \in {"Ping", "Blocks"} : Read(i, msg)) \/ Reader(i) \/ Writer(i)
      PROVE  thread' = thread
  BY <1>7 DEF Leave, Read, Reader, PassOn, PassOnFails, ReadEnds, Writer, Write,
              ReportDropped, WriteFails, threadVars
<1>8. CASE (\E a \in Caller : Arrive(a)) \/ ListenerFails \/ DispatchControl \/ ApiPing
           \/ AskToConnect \/ UNCHANGED vars
  BY <1>8, <1>1 DEF Arrive, ListenerFails, DispatchControl, Connect, Broadcast, Accept, AcceptFails,
                    RemovePeer, ApiPing, AskToConnect, threadVars, vars
<1> QED
  BY <1>1, <1>4, <1>5, <1>6, <1>7, <1>8 DEF Next

LEMMA PhasesStep ==
  ASSUME MutexInv, PhaseInv, [Next]_vars
  PROVE  PhaseInv'
<1> USE DEF connectVars
<1>1. ASSUME NEW i \in DOMAIN conns,
             Leave(i) \/ (\E msg \in {"Ping", "Blocks"} : Read(i, msg)) \/ Reader(i) \/ Writer(i)
      PROVE  server' \in {server, "stuck"} /\ asking' = asking /\ listener' = listener
  BY <1>1 DEF Leave, Read, Reader, PassOn, PassOnFails, ReadEnds, Writer, Write,
              ReportDropped, WriteFails
<1>2. ASSUME NEW w \in Worker, NetworkWorker(w) \/ PopOrphan(w) \/ PanicOverOrphans(w)
      PROVE  server' = server /\ asking' = asking /\ listener' = listener
  BY <1>2 DEF NetworkWorker, Take, LoseServer, Answer, InsertBlock, FindPoison,
              Announcer, Announce, AnnounceFails, PopOrphan,
              PanicOverOrphans
<1>3. DispatchControl => server' \in {server, "gone"} /\ asking' \in {asking, "idle"}
                          /\ listener' = listener
  BY DEF DispatchControl, Connect, Broadcast, Accept, AcceptFails, RemovePeer
<1>4. AskToConnect => server' = server /\ asking' \in {"waiting", "ended"} /\ listener' = listener
  BY DEF AskToConnect
<1>5. \/ \E a \in Caller : Arrive(a)
      \/ InsertMined \/ Announcer(MinerWorker) \/ ApiPing
      \/ UNCHANGED vars
      => server' = server /\ asking' = asking /\ listener' = listener
  BY DEF Arrive, InsertMined, Announcer, Announce, AnnounceFails, ApiPing, vars
<1>6. ListenerFails => server' = "stuck" /\ asking' = asking /\ listener' = "failed"
  BY DEF ListenerFails
<1>7. /\ server' \in {server, "stuck", "gone"} /\ asking' \in {asking, "idle", "waiting", "ended"}
      /\ listener' \in {listener, "failed"}
  BY <1>1, <1>2, <1>3, <1>4, <1>5, <1>6 DEF Next
<1> QED
  BY <1>7, ThreadsStep DEF PhaseInv

(* Every variable keeps its type: among others, the channels stay within    *)
(* their capacities, a stream waits in the channel only before its tasks    *)
(* start, and a handle is kept under the address of its connection.         *)
THEOREM ServerTypeCorrect == Spec => []TypeOK
<1>1. Init => MutexInv /\ PeersInv /\ RoomInv /\ HandleInv /\ PhaseInv
  <2> SUFFICES ASSUME Init
               PROVE  RoomInv /\ HandleInv /\ PhaseInv
    BY MutexInit, PeersInit
  <2>1. RoomInv
    BY EmptySeq, ServerAssumption DEF Init, RoomInv
  <2>2. HandleInv /\ PhaseInv
    BY DEF Init, HandleInv, PhaseInv, Idle
  <2> QED
    BY <2>1, <2>2
<1>2. MutexInv /\ PeersInv /\ RoomInv /\ HandleInv /\ PhaseInv /\ [Next]_vars
        => MutexInv' /\ PeersInv' /\ RoomInv' /\ HandleInv' /\ PhaseInv'
  BY MutexStep, PeersStep, RoomStep, HandlesStep, PhasesStep DEF PeersInv
<1>3. MutexInv /\ PeersInv /\ RoomInv /\ HandleInv /\ PhaseInv => TypeOK
  <2> SUFFICES ASSUME MutexInv, PeersInv, RoomInv, HandleInv, PhaseInv
               PROVE  TypeOK
    OBVIOUS
  <2>1. \A i \in DOMAIN conns :
          /\ conns[i].remote \in {"up", "gone"}
          /\ conns[i].reader \in {"none", "reading", "done"}
          /\ conns[i].writer \in {"none", "waiting", "failed", "done"}
          /\ conns[i].queued \in Nat
    BY TypedDomains DEF PeersInv, Conn
  <2>2. poisoned \in BOOLEAN /\ stored \in Nat /\ unannounced \subseteq 1 .. stored
    BY DEF MutexInv
  <2> QED
    BY <2>1, <2>2 DEF PeersInv, PendingInv, Pending, RoomInv, HandleInv, PhaseInv, TypeOK
<1> QED
  BY <1>1, <1>2, <1>3, PTL DEF Spec

================================================================================
