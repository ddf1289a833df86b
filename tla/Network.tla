-------------------------------- MODULE Network --------------------------------
(***************************************************************************)
(* What carries messages between nodes and to the threads that work on      *)
(* them: the server's control channel and its broadcasts                    *)
(* (src/network/server.rs), the write queues of the peers                   *)
(* (src/network/peer.rs) and the receiving end of the network worker        *)
(* threads (src/network/worker.rs).                                         *)
(*                                                                         *)
(* A link stands for a peer's write queue, the connection and the reader    *)
(* task, all first-in first-out.  The channel into which the reader tasks   *)
(* merge the links is left out: a worker takes the first message of any     *)
(* link, which are the orders in which the merged channel can deliver.      *)
(* Connections are neither made nor lost here.                              *)
(***************************************************************************)
EXTENDS Naturals, SequencesExt

CONSTANTS
  Node,
  Worker,  \* the network worker threads of a node
  Peers    \* Peers[n]: the nodes that n is connected to

ASSUME NetworkAssumption ==
  /\ Peers \in [Node -> SUBSET Node]
  /\ \A n \in Node, m \in Node : m \in Peers[n] => n \in Peers[m] /\ m # n

VARIABLES
  control,  \* control[n]: the server's queue of messages to broadcast
  link,     \* link[n][m]: the messages on their way from n to m
  worker    \* worker[n][w]: the message that w works on, or its condition

networkVars == <<control, link, worker>>

Idle == [state |-> "idle"]
Dead == [state |-> "dead"]
Busy(m, msg) == [state |-> "busy", from |-> m, msg |-> msg]

InitNetwork ==
  /\ control = [n \in Node |-> << >>]
  /\ link = [n \in Node |-> [m \in Node |-> << >>]]
  /\ worker = [n \in Node |-> [w \in Worker |-> Idle]]

(* ServerHandle::broadcast: the caller only queues a control signal. *)
Broadcast(n, msgs) == control' = [control EXCEPT ![n] = @ \o msgs]

(* peer.write: straight into the write queue of the peer that was heard. *)
Write(n, m, msg) == link' = [link EXCEPT ![n][m] = Append(@, msg)]

(* A faulty server: the oldest broadcast goes to one peer only. *)
ForwardToOne(n) ==
  /\ control[n] # << >>
  /\ control' = [control EXCEPT ![n] = Tail(@)]
  /\ link' = [link EXCEPT ![n][CHOOSE m \in Peers[n] : TRUE] =
                Append(@, Head(control[n]))]
  /\ UNCHANGED worker

(* dispatch_control: the oldest broadcast goes to every peer's write queue. *)
Forward(n) ==
  /\ control[n] # << >>
  /\ control' = [control EXCEPT ![n] = Tail(@)]
  /\ link' = [link EXCEPT ![n] =
                [m \in Node |-> IF m \in Peers[n]
                                  THEN Append(@[m], Head(control[n]))
                                  ELSE @[m]]]
  /\ UNCHANGED worker

(* A faulty channel: the last message comes out first. *)
ReceiveLast(n, w, m) ==
  /\ worker[n][w] = Idle
  /\ link[m][n] # << >>
  /\ worker' = [worker EXCEPT ![n][w] = Busy(m, Last(link[m][n]))]
  /\ link' = [link EXCEPT ![m][n] = Front(@)]
  /\ UNCHANGED control

(* msg_chan.recv(): an idle worker has its next message; it holds no mutex. *)
Receive(n, w, m) ==
  /\ worker[n][w] = Idle
  /\ link[m][n] # << >>
  /\ worker' = [worker EXCEPT ![n][w] = Busy(m, Head(link[m][n]))]
  /\ link' = [link EXCEPT ![m][n] = Tail(@)]
  /\ UNCHANGED control

(* The worker is in the arm of worker_loop for messages of this type. *)
WorksOn(n, w, type) ==
  /\ worker[n][w].state = "busy"
  /\ worker[n][w].msg.type = type

Finish(n, w) == worker' = [worker EXCEPT ![n][w] = Idle]

(* The messages that n has sent and that nobody has dealt with yet. *)
Undelivered(n) ==
  Range(control[n])
    \union (UNION {Range(link[n][m]) : m \in Node})
    \union {worker[k[1]][k[2]].msg :
              k \in {j \in Node \X Worker :
                       /\ worker[j[1]][j[2]].state = "busy"
                       /\ worker[j[1]][j[2]].from = n}}

(* The variables have the right shape, for what the user of this module     *)
(* takes for a message and for the condition of a worker.                   *)
NetworkTypeOK(IsMsg(_), IsCond(_)) ==
  \A n \in Node :
    /\ control[n] \in Seq(Range(control[n]))
    /\ \A i \in DOMAIN control[n] : IsMsg(control[n][i])
    /\ \A m \in Node : /\ link[n][m] \in Seq(Range(link[n][m]))
                       /\ \A i \in DOMAIN link[n][m] : IsMsg(link[n][m][i])
    /\ \A w \in Worker : IsCond(worker[n][w])

================================================================================
