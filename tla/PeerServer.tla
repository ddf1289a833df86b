------------------------------ MODULE PeerServer ------------------------------
(***************************************************************************)
(* The server of one node and its connections: the tasks of                *)
(* src/network/server.rs (dispatch_control, listener_loop, and a reader and *)
(* a writer per connection), the handles of src/network/peer.rs, the thread *)
(* of src/main.rs that connects to the known peers, and the threads that    *)
(* use the server: network workers, the miner's worker, the API.            *)
(*                                                                         *)
(* All tasks run on one thread.  A panic in a task ends that thread.  If    *)
(* the task is dispatch_control, it drops the receiving end of the control  *)
(* channel and the last reference to the executor, which drops the other    *)
(* tasks: the server is gone, and sending to it fails.  If it is any other  *)
(* task, dispatch_control keeps the executor alive without anyone running   *)
(* it: the server is stuck, its channel accepts signals until it is full.   *)
(*                                                                         *)
(* Messages are reduced to what a worker does with them: Ping stands for    *)
(* those it answers to the sender, Blocks for those it handles with the     *)
(* chain's mutex locked and announces.  A broadcast carries the number of   *)
(* the block that it announces, or 0.  Of a write queue only the length     *)
(* matters.  That a stream is readable or writable is a choice; so is how   *)
(* connect() and, for a connection that is already gone, accept() end.      *)
(***************************************************************************)
EXTENDS Naturals, SequencesExt

CONSTANTS
  Caller,       \* the addresses from which other nodes connect to this one
  Listed,       \* known_peer: the addresses this node connects to, in order
  Worker,       \* the network worker threads
  MinerWorker,  \* the miner's worker thread
  ControlCap,   \* 10000 in the code: capacity of the control channel
  MsgCap,       \* 10000 in the code: capacity of the message channel
  MaxConns,     \* bound: how many connections are made
  MaxEvents,    \* bound: how many messages arrive, blocks are mined, pings asked for
  MaxOrphans    \* bound: how many orphans of one parent are broadcast

ASSUME ServerAssumption ==
  /\ MinerWorker \notin Worker
  /\ Listed \in Seq({Listed[k] : k \in DOMAIN Listed})
  /\ Caller \intersect {Listed[k] : k \in DOMAIN Listed} = {}
  /\ ControlCap \in Nat \ {0} /\ MsgCap \in Nat \ {0}
  /\ {MaxConns, MaxEvents, MaxOrphans} \subseteq Nat

VARIABLES
  server,       \* the thread of the tasks: running, stuck or gone
  control,      \* control_chan, to dispatch_control
  peers,        \* peers: the connection whose handle is kept for an address
  conns,        \* the connections in the order they were made
  messages,     \* msg_chan, from the readers to the workers
  thread,       \* what a network worker or the miner's worker is doing
  poisoned,     \* a thread has panicked with the chain's mutex locked
  connecting,   \* the known peers that are left to connect to
  asking,       \* the connecting thread: idle, waiting for a result, or ended
  listener,     \* listener_loop: accepting or failed
  stored,       \* how many blocks have been inserted here, which are numbered so
  unannounced,  \* those that dispatch_control has not broadcast
  used          \* how much of MaxEvents is used up

blockVars == <<stored, unannounced>>
threadVars == <<thread, poisoned, blockVars>>
connectVars == <<connecting, asking, listener>>
vars == <<server, control, peers, conns, messages, threadVars, connectVars, used>>

Thread == Worker \union {MinerWorker}

ConnectNewPeer(a) == [signal |-> "ConnectNewPeer", addr |-> a]
GetNewPeer(i) == [signal |-> "GetNewPeer", conn |-> i]
DroppedPeer(a) == [signal |-> "DroppedPeer", addr |-> a]
BroadcastMessage(b) == [signal |-> "BroadcastMessage", block |-> b]

(* A connection: its reader and writer once it is registered, the message   *)
(* its reader holds (one or none), and the length of its write queue.       *)
Accepted(a) ==
  [addr |-> a, remote |-> "up", reader |-> "none", read |-> << >>,
   writer |-> "none", queued |-> 0]
Started(conn) == [conn EXCEPT !.reader = "reading", !.writer = "waiting"]
Dropped(conn) ==
  [conn EXCEPT !.reader = "done", !.read = << >>, !.writer = "done", !.queued = 0]

(* What a thread does.  Who announces has inserted a block, b, and holds    *)
(* the chain's mutex; popped orphans have left the buffer since.            *)
Idle == [at |-> "idle"]
Ended == [at |-> "ended"]
Handling(i, msg) == [at |-> "handling", conn |-> i, msg |-> msg]
Announcing(i, b, popped) ==
  [at |-> "announcing", conn |-> i, block |-> b, popped |-> popped]

Init ==
  /\ server = "running"
  /\ control = << >>
  /\ peers = << >>
  /\ conns = << >>
  /\ messages = << >>
  /\ thread = [t \in Thread |-> Idle]
  /\ poisoned = FALSE
  /\ connecting = Listed
  /\ asking = "idle"
  /\ listener = "accepting"
  /\ stored = 0
  /\ unannounced = {}
  /\ used = 0

Running == server = "running"
ControlHasRoom == Len(control) < ControlCap
ChainIsFree == (\A t \in Thread : thread[t].at # "announcing") /\ ~poisoned
WorkersEnded == \A w \in Worker : thread[w] = Ended

(* Whoever has a sender of the connection's write queue: the map of peers,  *)
(* the reader, the message channel and the worker on a message of its.      *)
HasHandle(i) ==
  \/ i \in Range(peers)
  \/ conns[i].reader = "reading"
  \/ \E k \in DOMAIN messages : messages[k].conn = i
  \/ \E w \in Worker : thread[w].at \in {"handling", "announcing"} /\ thread[w].conn = i

(* Handle::write: a failure, when the writer has ended, is ignored.         *)
Written(conn) ==
  IF conn.writer = "waiting" THEN [conn EXCEPT !.queued = @ + 1] ELSE conn

UseUp == used < MaxEvents /\ used' = used + 1
Set(t, what) == thread' = [thread EXCEPT ![t] = what]

(* insert() adds a block. *)
Store == stored' = stored + 1 /\ unannounced' = unannounced \union {stored + 1}

SetConn(i, conn) == conns' = [conns EXCEPT ![i] = conn]

--------------------------------------------------------------------------------
(* The world outside *)

(* A faulty listener does not wait for room. *)
ArriveUnbounded(a) ==
  /\ Running /\ Len(conns) < MaxConns
  /\ \A i \in DOMAIN conns : conns[i].addr = a => conns[i].remote = "gone"
  /\ conns' = Append(conns, Accepted(a))
  /\ control' = Append(control, GetNewPeer(Len(conns) + 1))
  /\ UNCHANGED <<server, peers, messages, threadVars, connectVars, used>>

(* A node connects; listener_loop passes the stream on.  Two connections    *)
(* from one address cannot exist at the same time.                          *)
Arrive(a) ==
  /\ Running /\ ControlHasRoom /\ Len(conns) < MaxConns
  /\ \A i \in DOMAIN conns : conns[i].addr = a => conns[i].remote = "gone"
  /\ conns' = Append(conns, Accepted(a))
  /\ control' = Append(control, GetNewPeer(Len(conns) + 1))
  /\ UNCHANGED <<server, peers, messages, threadVars, connectVars, used>>

(* accept() on the listening socket fails, as it does for a node that       *)
(* connects when the process has no file descriptor left: the error ends    *)
(* listener_loop, whose caller unwraps it.                                  *)
ListenerFails ==
  /\ Running /\ Len(conns) < MaxConns
  /\ listener' = "failed"
  /\ server' = "stuck"
  /\ UNCHANGED <<control, peers, conns, messages, threadVars, connecting, asking, used>>

(* The other end closes or resets the connection. *)
Leave(i) ==
  /\ conns[i].remote = "up"
  /\ SetConn(i, [conns[i] EXCEPT !.remote = "gone"])
  /\ UNCHANGED <<server, control, peers, messages, threadVars, connectVars, used>>

--------------------------------------------------------------------------------
(* dispatch_control, one signal at a time *)

Receive(signal) ==
  /\ Running /\ control # << >> /\ Head(control).signal = signal
  /\ control' = Tail(control)

(* register(): start the tasks and keep the handle under the address.       *)
Register(i) ==
  LET addr == conns'[i].addr
  IN  peers' = [a \in DOMAIN peers \union {addr} |-> IF a = addr THEN i ELSE peers[a]]

(* The connecting thread gets the result: it goes on to the next address,   *)
(* or tries the same again one second later.                                *)
Connect ==
  /\ Receive("ConnectNewPeer")
  /\ asking' = "idle"
  /\ \/ /\ Len(conns) < MaxConns
        /\ conns' = Append(conns, Started(Accepted(Head(control).addr)))
        /\ Register(Len(conns) + 1)
        /\ connecting' = Tail(connecting)
     \/ UNCHANGED <<conns, peers, connecting>>
  /\ UNCHANGED <<server, messages, threadVars, listener, used>>

(* A faulty server gives its writers bounded queues and waits for room. *)
BroadcastToBoundedQueues ==
  /\ Receive("BroadcastMessage")
  /\ \A i \in Range(peers) : conns[i].writer = "waiting" => conns[i].queued < 1
  /\ conns' = [i \in DOMAIN conns |->
                 IF i \in Range(peers) THEN Written(conns[i]) ELSE conns[i]]
  /\ unannounced' = unannounced \ {Head(control).block}
  /\ UNCHANGED <<server, peers, messages, thread, poisoned, stored, connectVars, used>>

Broadcast ==
  /\ Receive("BroadcastMessage")
  /\ conns' = [i \in DOMAIN conns |->
                 IF i \in Range(peers) THEN Written(conns[i]) ELSE conns[i]]
  /\ unannounced' = unannounced \ {Head(control).block}
  /\ UNCHANGED <<server, peers, messages, thread, poisoned, stored, connectVars, used>>

(* A faulty server starts the tasks and does not keep the handle. *)
AcceptWithoutHandle ==
  /\ Receive("GetNewPeer")
  /\ LET i == Head(control).conn
     IN  SetConn(i, Started(conns[i]))
  /\ UNCHANGED <<server, peers, messages, threadVars, connectVars, used>>

(* A stream that still has an address is registered.                        *)
Accept ==
  /\ Receive("GetNewPeer")
  /\ LET i == Head(control).conn
     IN  SetConn(i, Started(conns[i])) /\ Register(i)
  /\ UNCHANGED <<server, messages, threadVars, connectVars, used>>

(* A stream that was reset has none: the error ends dispatch_control, whose *)
(* caller unwraps it.  Streams that are still in the channel stay there.    *)
AcceptFails ==
  /\ Receive("GetNewPeer")
  /\ conns[Head(control).conn].remote = "gone"
  /\ server' = "gone"
  /\ peers' = << >>
  /\ conns' = [i \in DOMAIN conns |->
                 IF conns[i].writer = "none" THEN conns[i] ELSE Dropped(conns[i])]
  /\ UNCHANGED <<messages, threadVars, connectVars, used>>

(* A faulty server forgets to remove the handle. *)
KeepPeer ==
  /\ Receive("DroppedPeer")
  /\ UNCHANGED <<server, peers, conns, messages, threadVars, connectVars, used>>

RemovePeer ==
  /\ Receive("DroppedPeer")
  /\ peers' = [a \in DOMAIN peers \ {Head(control).addr} |-> peers[a]]
  /\ UNCHANGED <<server, conns, messages, threadVars, connectVars, used>>

DispatchControl == Connect \/ Broadcast \/ Accept \/ AcceptFails \/ RemovePeer

--------------------------------------------------------------------------------
(* The reader and the writer of a connection *)

Read(i, msg) ==
  /\ Running
  /\ conns[i].reader = "reading" /\ conns[i].read = << >> /\ conns[i].remote = "up"
  /\ UseUp
  /\ SetConn(i, [conns[i] EXCEPT !.read = <<msg>>])
  /\ UNCHANGED <<server, control, peers, messages, threadVars, connectVars>>

PassOn(i) ==
  /\ Running
  /\ conns[i].read # << >> /\ ~WorkersEnded
  /\ Len(messages) < MsgCap
  /\ messages' = Append(messages, [conn |-> i, msg |-> conns[i].read[1]])
  /\ SetConn(i, [conns[i] EXCEPT !.read = << >>])
  /\ UNCHANGED <<server, control, peers, threadVars, connectVars, used>>

(* The channel is closed when its last receiver is gone: the reader panics. *)
PassOnFails(i) ==
  /\ Running
  /\ conns[i].read # << >> /\ WorkersEnded
  /\ server' = "stuck"
  /\ UNCHANGED <<control, peers, conns, messages, threadVars, connectVars, used>>

(* A faulty reader also reports the peer that has left. *)
ReadEndsWithReport(i) ==
  /\ Running
  /\ conns[i].reader = "reading" /\ conns[i].read = << >> /\ conns[i].remote = "gone"
  /\ ControlHasRoom
  /\ control' = Append(control, DroppedPeer(conns[i].addr))
  /\ SetConn(i, [conns[i] EXCEPT !.reader = "done"])
  /\ UNCHANGED <<server, peers, messages, threadVars, connectVars, used>>

ReadEnds(i) ==
  /\ Running
  /\ conns[i].reader = "reading" /\ conns[i].read = << >> /\ conns[i].remote = "gone"
  /\ SetConn(i, [conns[i] EXCEPT !.reader = "done"])
  /\ UNCHANGED <<server, control, peers, messages, threadVars, connectVars, used>>

Reader(i) == PassOn(i) \/ PassOnFails(i) \/ ReadEnds(i)

(* A write to a peer that has left can succeed or fail. *)
Write(i) ==
  /\ Running
  /\ conns[i].writer = "waiting" /\ conns[i].queued > 0
  /\ \/ SetConn(i, [conns[i] EXCEPT !.queued = @ - 1])
     \/ /\ conns[i].remote = "gone"
        /\ SetConn(i, [conns[i] EXCEPT !.writer = "failed", !.queued = 0])
  /\ UNCHANGED <<server, control, peers, messages, threadVars, connectVars, used>>

ReportDropped(i) ==
  /\ Running /\ ControlHasRoom
  /\ conns[i].writer = "failed"
  /\ control' = Append(control, DroppedPeer(conns[i].addr))
  /\ SetConn(i, [conns[i] EXCEPT !.writer = "done"])
  /\ UNCHANGED <<server, peers, messages, threadVars, connectVars, used>>

(* The queue is empty and no one can add to it: next() returns None, which  *)
(* the writer unwraps.                                                      *)
WriteFails(i) ==
  /\ Running
  /\ conns[i].writer = "waiting" /\ conns[i].queued = 0 /\ ~HasHandle(i)
  /\ server' = "stuck"
  /\ UNCHANGED <<control, peers, conns, messages, threadVars, connectVars, used>>

Writer(i) == Write(i) \/ ReportDropped(i) \/ WriteFails(i)

--------------------------------------------------------------------------------
(* The threads that use the server *)

Take(w) ==
  /\ thread[w] = Idle /\ messages # << >>
  /\ Set(w, Handling(Head(messages).conn, Head(messages).msg))
  /\ messages' = Tail(messages)
  /\ UNCHANGED <<server, control, peers, conns, poisoned, blockVars, connectVars, used>>

(* A faulty worker keeps waiting for messages. *)
WaitForServer(w) ==
  /\ thread[w] = Idle /\ messages = << >> /\ server = "gone"
  /\ UNCHANGED vars

(* The readers are gone, and with them all senders of messages. *)
LoseServer(w) ==
  /\ thread[w] = Idle /\ messages = << >> /\ server = "gone"
  /\ Set(w, Ended)
  /\ UNCHANGED <<server, control, peers, conns, messages, poisoned, blockVars,
                 connectVars, used>>

Answer(w) ==
  /\ thread[w].at = "handling" /\ thread[w].msg = "Ping"
  /\ SetConn(thread[w].conn, Written(conns[thread[w].conn]))
  /\ Set(w, Idle)
  /\ UNCHANGED <<server, control, peers, messages, poisoned, blockVars, connectVars, used>>

InsertBlock(w) ==
  /\ thread[w].at = "handling" /\ thread[w].msg = "Blocks"
  /\ ChainIsFree
  /\ Store
  /\ Set(w, Announcing(thread[w].conn, stored + 1, 0))
  /\ UNCHANGED <<server, control, peers, conns, messages, poisoned, connectVars, used>>

(* A child of the block is in the worker's orphan buffer: it is broadcast.   *)
PopOrphan(w) ==
  /\ thread[w].at = "announcing"
  /\ thread[w].popped < MaxOrphans
  /\ server # "gone" /\ ControlHasRoom
  /\ control' = Append(control, BroadcastMessage(0))
  /\ Set(w, Announcing(thread[w].conn, thread[w].block, thread[w].popped + 1))
  /\ UNCHANGED <<server, peers, conns, messages, poisoned, blockVars, connectVars,
                 used>>

(* With two orphans gone, and a third in the buffer before, the loop reads  *)
(* past the end of it (BlockGossip has the loop): the block is inserted and *)
(* will not be announced.                                                   *)
PanicOverOrphans(w) ==
  /\ thread[w].at = "announcing" /\ thread[w].popped >= 2
  /\ Set(w, Ended)
  /\ poisoned' = TRUE
  /\ UNCHANGED <<server, control, peers, conns, messages, blockVars, connectVars, used>>

(* lock().unwrap() on the poisoned mutex. *)
FindPoison(w) ==
  /\ thread[w].at = "handling" /\ thread[w].msg = "Blocks"
  /\ poisoned
  /\ Set(w, Ended)
  /\ UNCHANGED <<server, control, peers, conns, messages, poisoned, blockVars,
                 connectVars, used>>

(* The miner's worker gets a block. *)
InsertMined ==
  /\ thread[MinerWorker] = Idle
  /\ UseUp
  /\ \/ /\ ChainIsFree
        /\ Store
        /\ Set(MinerWorker, Announcing(0, stored + 1, 0))
     \/ /\ poisoned
        /\ Set(MinerWorker, Ended)
        /\ UNCHANGED blockVars
  /\ UNCHANGED <<server, control, peers, conns, messages, poisoned, connectVars>>

(* Handle::broadcast with the chain's mutex locked. *)
Announce(t) ==
  /\ thread[t].at = "announcing"
  /\ server # "gone" /\ ControlHasRoom
  /\ control' = Append(control, BroadcastMessage(thread[t].block))
  /\ Set(t, Idle)
  /\ UNCHANGED <<server, peers, conns, messages, poisoned, blockVars, connectVars, used>>

(* A faulty broadcast ignores that the server is gone. *)
AnnounceToNobody(t) ==
  /\ thread[t].at = "announcing"
  /\ server = "gone"
  /\ Set(t, Idle)
  /\ UNCHANGED <<server, control, peers, conns, messages, poisoned, blockVars,
                 connectVars, used>>

(* The send fails and is unwrapped. *)
AnnounceFails(t) ==
  /\ thread[t].at = "announcing"
  /\ server = "gone"
  /\ Set(t, Ended)
  /\ poisoned' = TRUE
  /\ UNCHANGED <<server, control, peers, conns, messages, blockVars, connectVars, used>>

Announcer(t) == Announce(t) \/ AnnounceFails(t)

NetworkWorker(w) ==
  Take(w) \/ LoseServer(w) \/ Answer(w) \/ InsertBlock(w) \/ FindPoison(w) \/ Announcer(w)

(* /network/ping; the thread of the request panics if the server is gone.   *)
ApiPing ==
  /\ server # "gone" /\ ControlHasRoom
  /\ UseUp
  /\ control' = Append(control, BroadcastMessage(0))
  /\ UNCHANGED <<server, peers, conns, messages, threadVars, connectVars>>

(* The connecting thread asks for a connection, or panics. *)
AskToConnect ==
  /\ connecting # << >> /\ asking = "idle"
  /\ \/ /\ server # "gone" /\ ControlHasRoom
        /\ control' = Append(control, ConnectNewPeer(Head(connecting)))
        /\ asking' = "waiting"
     \/ /\ server = "gone"
        /\ asking' = "ended"
        /\ UNCHANGED control
  /\ UNCHANGED <<server, peers, conns, messages, threadVars, connecting, listener, used>>

--------------------------------------------------------------------------------
Next ==
  \/ \E a \in Caller : Arrive(a)
  \/ ListenerFails
  \/ \E i \in DOMAIN conns :
       Leave(i) \/ (\E msg \in {"Ping", "Blocks"} : Read(i, msg)) \/ Reader(i) \/ Writer(i)
  \/ DispatchControl
  \/ \E w \in Worker : NetworkWorker(w) \/ PopOrphan(w) \/ PanicOverOrphans(w)
  \/ InsertMined \/ Announcer(MinerWorker)
  \/ ApiPing
  \/ AskToConnect

(* dispatch_control is polled while its thread runs, and a call to          *)
(* connect() returns; the threads of the workers run.  The fairness of who  *)
(* sends on the control channel is strong: the only one who competes for    *)
(* room for ever, the connecting thread, sleeps a second between two tries. *)
(* Nothing makes others connect, leave or send, or the miner find blocks,   *)
(* nor do the properties need that a peer reads, or that its reader or its  *)
(* writer notices its departure.                                            *)
Fairness ==
  /\ WF_vars(DispatchControl)
  /\ \A i \in 1 .. MaxConns : SF_vars(i \in DOMAIN conns /\ ReportDropped(i))
  /\ \A w \in Worker : WF_vars(NetworkWorker(w))
  /\ \A t \in Thread : SF_vars(Announcer(t))

Spec == Init /\ [][Next]_vars /\ Fairness

--------------------------------------------------------------------------------
(* The broadcasts that wait in the control channel announce these blocks.   *)
Queued == {control[k].block : k \in {l \in DOMAIN control : control[l].signal = "BroadcastMessage"}}

(* The address of a connection has not been used by another one.            *)
HasOwnAddress(i) ==
  \A j \in DOMAIN conns : conns[j].addr = conns[i].addr => j = i

(* Type correctness.                                                        *)
TypeOK ==
  /\ server \in {"running", "stuck", "gone"}
  /\ Len(control) <= ControlCap
  /\ \A k \in DOMAIN control :
       control[k].signal = "GetNewPeer" =>
         control[k].conn \in DOMAIN conns /\ conns[control[k].conn].writer = "none"
  /\ \A a \in DOMAIN peers : peers[a] \in DOMAIN conns /\ conns[peers[a]].addr = a
  /\ \A i \in DOMAIN conns :
       /\ conns[i].remote \in {"up", "gone"}
       /\ conns[i].reader \in {"none", "reading", "done"}
       /\ conns[i].writer \in {"none", "waiting", "failed", "done"}
       /\ conns[i].queued \in Nat
  /\ Len(messages) <= MsgCap
  /\ \A t \in Thread : thread[t].at \in {"idle", "handling", "announcing", "ended"}
  /\ poisoned \in BOOLEAN
  /\ asking \in {"idle", "waiting", "ended"}
  /\ listener \in {"accepting", "failed"}
  /\ stored \in Nat
  /\ unannounced \subseteq 1 .. stored

(* A peer whose connection is up and whose address is its own gets what is  *)
(* broadcast, in whatever order the tasks, the departures of other peers    *)
(* and the signals about them take place.                                   *)
PeersAreServed ==
  \A i \in DOMAIN conns :
    conns[i].writer = "waiting" /\ HasOwnAddress(i) => i \in Range(peers)

(* The thread of the tasks dies for one of three causes only: accept() has  *)
(* failed, every worker has ended, or an address has been used twice.  In   *)
(* particular a departing peer with an address of its own makes no reader   *)
(* and no writer panic, although each of them unwraps the result of a       *)
(* channel whose other ends come and go.                                    *)
StuckForACause ==
  server = "stuck" =>
    listener = "failed" \/ WorkersEnded \/ \E i \in DOMAIN conns : ~HasOwnAddress(i)

(* Of all blocks that a node has stored, at most one has neither been       *)
(* written to the peers by dispatch_control nor waits in its channel: the   *)
(* one whose thread holds the chain's mutex or has panicked with it, over   *)
(* the orphan buffer or a lost server.  (What waits in the channel of a     *)
(* stuck or lost server, no more than its capacity, is never sent.)         *)
StoredIsAnnounced == \E b \in 0 .. stored : unannounced \ {b} \subseteq Queued

(* The chain's mutex is unlocked again after every announcement handed to   *)
(* the bounded control channel with it locked, or its holder has died and   *)
(* poisoned it, unless the server is stuck: dispatch_control never waits    *)
(* for a reader, a writer or a worker in its turn, nor for a peer that does *)
(* not read.                                                                *)
MutexIsReleased == ~ChainIsFree ~> ChainIsFree \/ poisoned \/ server = "stuck"

(* The handles of peers to which writing has failed are removed, although   *)
(* a writer reports it on a bounded channel that everyone else fills.       *)
DeadPeersAreForgotten ==
  (\E i \in Range(peers) : conns[i].writer = "failed")
    ~> \/ \A i \in Range(peers) : conns[i].writer \notin {"failed", "done"}
       \/ server = "stuck"

(* Once the server is gone, every worker that is not stuck ends: none waits *)
(* for messages that cannot come or for a mutex that nobody will unlock.    *)
WorkersFollowServer == server = "gone" ~> WorkersEnded

(* src/network/server.rs: the loop that endlessly accepts incoming peers.   *)
(* A peer that connects and stays is registered, unless the node's threads  *)
(* have died first.                                                         *)
EndlesslyAccepts ==
  \A i \in 1 .. MaxConns :
    (i \in DOMAIN conns /\ conns[i].writer = "none")
      ~> /\ i \in DOMAIN conns
         /\ conns[i].writer # "none" \/ conns[i].remote = "gone" \/ server = "stuck"

================================================================================
