--------------------------- MODULE ReliableBridge ----------------------------
(***************************************************************************)
(* One direction between two devices of reliable_bridge.hpp: the ROS       *)
(* thread appends messages to a queue, a sender thread sleeps on a         *)
(* condition variable and, once notified, moves the queue into a ZMQ push  *)
(* socket; the other device's receiver thread takes them from a pull       *)
(* socket and calls the callback registered for them.  Every device has    *)
(* such a queue, thread and socket of its own for every other one, so one  *)
(* pair shows what they all do.                                            *)
(*                                                                         *)
(* The threads interleave at the statements that touch what they share.    *)
(* The mutex is held around push, around pop and from the top of the       *)
(* sender's loop into its wait, so each of these is one step; empty(),     *)
(* front() and size() are read without it, and are steps of their own.     *)
(*                                                                         *)
(* Messages are numbered as they are accepted.  The ZMQ sockets, external  *)
(* to this code, keep the order; a connection that breaks, or a peer that  *)
(* restarts, loses what had not arrived.                                   *)
(***************************************************************************)
EXTENDS Naturals, Sequences

CONSTANTS
  QueueSize,   \* queue_size
  WireSize,    \* messages the sockets hold before send blocks
  MaxMsgs      \* bound: messages sent

ASSUME SizeAssumption == QueueSize \in Nat /\ WireSize \in Nat \ {0} /\ MaxMsgs \in Nat

VARIABLES
  queue,       \* send_data[ind]
  producer,    \* the ROS thread in send_msg_to_one: "idle", "checked", "pushed"
  sender,      \* the sender thread: "start", "waiting", "check", "send", "pop",
               \* or "ended"
  running,     \* thread_flag
  wire,        \* sent and not yet received
  linked,      \* is the peer connected?
  registered,  \* has the peer registered a callback for the topic?
  accepted,    \* history: messages accepted, numbered from 1
  delivered,   \* history: messages the peer's callback was called with
  lost         \* history: has any message been lost?

threadVars == <<producer, sender, running>>
peerVars == <<linked, registered>>
vars == <<queue, threadVars, wire, peerVars, accepted, delivered, lost>>

Init ==
  /\ queue = <<>>
  /\ producer = "idle"
  /\ sender = "start"
  /\ running = TRUE
  /\ wire = <<>>
  /\ linked = FALSE
  /\ registered = FALSE
  /\ accepted = 0
  /\ delivered = <<>>
  /\ lost = FALSE

\* The messages of the queue that are not in the socket as well.
Unsent == IF sender = "pop" THEN Tail(queue) ELSE queue

-----------------------------------------------------------------------------
(* send_msg_to_one.                                                        *)

\* Mutant: the queue is never full.
RoomAlways == queue \in Seq(Nat)

Room == Len(queue) <= QueueSize

\* The size is read before the mutex is taken.  Without room: -1.
SendChecks ==
  /\ running
  /\ producer = "idle"
  /\ accepted < MaxMsgs
  /\ Room
  /\ producer' = "checked"
  /\ UNCHANGED <<queue, sender, running, wire, peerVars, accepted, delivered, lost>>

SendPushes ==
  /\ producer = "checked"
  /\ producer' = "pushed"
  /\ accepted' = accepted + 1
  /\ queue' = Append(queue, accepted + 1)
  /\ UNCHANGED <<sender, running, wire, peerVars, delivered, lost>>

\* Only a thread that waits hears it.
SendNotifies ==
  /\ producer = "pushed"
  /\ producer' = "idle"
  /\ sender' = IF sender = "waiting" THEN "check" ELSE sender
  /\ UNCHANGED <<queue, running, wire, peerVars, accepted, delivered, lost>>

-----------------------------------------------------------------------------
(* transport_msg_thread.                                                   *)

StartsWaiting ==
  /\ sender = "start"
  /\ sender' = "waiting"
  /\ UNCHANGED <<queue, producer, running, wire, peerVars, accepted, delivered, lost>>

\* A condition variable may wake a thread nobody notified.
WakesSpuriously ==
  /\ sender = "waiting"
  /\ sender' = "check"
  /\ UNCHANGED <<queue, producer, running, wire, peerVars, accepted, delivered, lost>>

ChecksQueue ==
  /\ sender = "check"
  /\ sender' = IF queue = <<>> THEN "start" ELSE "send"
  /\ UNCHANGED <<queue, producer, running, wire, peerVars, accepted, delivered, lost>>

\* send blocks while the peer is away or slow.
SocketSends ==
  /\ sender = "send"
  /\ linked
  /\ Len(wire) < WireSize
  /\ wire' = Append(wire, Head(queue))
  /\ sender' = "pop"
  /\ UNCHANGED <<queue, producer, running, peerVars, accepted, delivered, lost>>

\* Or it is interrupted, and the message is tried again.
SocketFails ==
  /\ sender = "send"
  /\ sender' = "check"
  /\ UNCHANGED <<queue, producer, running, wire, peerVars, accepted, delivered, lost>>

\* Mutant: the thread goes back to sleep after one message.
NextOne == "start"

NextRound == "check"

\* Mutant: the newest message is removed instead of the one just sent.
DropBack == SubSeq(queue, 1, Len(queue) - 1)

DropFront == Tail(queue)

Pops ==
  /\ sender = "pop"
  /\ queue' = DropFront
  /\ sender' = NextRound
  /\ UNCHANGED <<producer, running, wire, peerVars, accepted, delivered, lost>>

\* StopThread, called by the ROS thread at the end of the process: what is
\* queued goes down with it.
StopThread ==
  /\ running
  /\ producer = "idle"
  /\ running' = FALSE
  /\ sender' = "ended"
  /\ queue' = <<>>
  /\ lost' = (lost \/ Unsent # <<>>)
  /\ UNCHANGED <<producer, wire, peerVars, accepted, delivered>>

-----------------------------------------------------------------------------
(* The peer: its receiver thread, and its connection.                      *)

\* A message nobody registered for is dropped.
Receives ==
  /\ wire # <<>>
  /\ wire' = Tail(wire)
  /\ IF registered
       THEN delivered' = Append(delivered, Head(wire)) /\ UNCHANGED lost
       ELSE lost' = TRUE /\ UNCHANGED delivered
  /\ UNCHANGED <<queue, threadVars, peerVars, accepted>>

\* The threads run before the callbacks are registered.
Registers ==
  /\ registered' = TRUE
  /\ UNCHANGED <<queue, threadVars, wire, linked, accepted, delivered, lost>>

Connects ==
  /\ running
  /\ linked' = TRUE
  /\ UNCHANGED <<queue, threadVars, wire, registered, accepted, delivered, lost>>

\* What has not reached the peer by now will not.
Disconnects ==
  /\ linked
  /\ linked' = FALSE
  /\ \E n \in 0..Len(wire) :
       /\ wire' = SubSeq(wire, 1, n)
       /\ lost' = (lost \/ n < Len(wire))
  /\ UNCHANGED <<queue, threadVars, registered, accepted, delivered>>

PeerRestarts ==
  /\ linked' = FALSE
  /\ registered' = FALSE
  /\ wire' = <<>>
  /\ lost' = (lost \/ wire # <<>>)
  /\ UNCHANGED <<queue, threadVars, accepted, delivered>>

-----------------------------------------------------------------------------
Next ==
  \/ SendChecks \/ SendPushes \/ SendNotifies
  \/ StartsWaiting \/ WakesSpuriously \/ ChecksQueue
  \/ SocketSends \/ SocketFails \/ Pops \/ StopThread
  \/ Receives \/ Registers \/ Connects \/ Disconnects \/ PeerRestarts

Spec == Init /\ [][Next]_vars

(***************************************************************************)
(* Fairness.  Threads are scheduled, the peer comes back (ZMQ reconnects   *)
(* by itself) and one day stays, and a send that is possible again and     *)
(* again succeeds in the end.  Nobody has to send anything, and no thread  *)
(* has to wake up without a notification.                                  *)
(***************************************************************************)
FairSpec ==
  /\ Spec
  /\ WF_vars(SendPushes) /\ WF_vars(SendNotifies)
  /\ WF_vars(StartsWaiting) /\ WF_vars(ChecksQueue) /\ WF_vars(Pops)
  /\ SF_vars(SocketSends)
  /\ WF_vars(Receives) /\ WF_vars(Registers) /\ WF_vars(~linked /\ Connects)
  /\ <>[][~Disconnects /\ ~PeerRestarts]_vars

-----------------------------------------------------------------------------
(* What must hold.                                                         *)

TypeOK ==
  /\ queue \in Seq(Nat) /\ Len(queue) <= QueueSize + 1
  /\ producer \in {"idle", "checked", "pushed"}
  /\ sender \in {"start", "waiting", "check", "send", "pop", "ended"}
  /\ running \in BOOLEAN
  /\ wire \in Seq(Nat) /\ Len(wire) <= WireSize
  /\ linked \in BOOLEAN /\ registered \in BOOLEAN
  /\ accepted \in 0..MaxMsgs
  /\ delivered \in Seq(Nat)
  /\ lost \in BOOLEAN

\* Every message accepted is in one place and in its place: delivered, in the
\* socket or in the queue, in this order, with none missing, unless the
\* connection, the peer or the process failed.
NothingLost ==
  ~lost => delivered \o wire \o Unsent = [i \in 1..accepted |-> i]

\* "It can guarantee the data transfer to the device in the strict order":
\* queue, threads and sockets together are a channel that may lose messages
\* and never swaps or repeats them.
Channel == INSTANCE OrderedChannel WITH
  sent <- accepted, pending <- wire \o Unsent

ImplementsChannel == Channel!Spec

\* A sender that hears a notification empties the queue, whatever it finds in
\* there, the messages of notifications it did not hear included.
NotifiedSends ==
  (sender = "waiting" /\ producer = "pushed") ~> (queue = <<>>)

-----------------------------------------------------------------------------
(* What the repository says and the code does not do.                      *)

\* "This function will push the data in queue and the send thread will send
\* the data immediately" (send_msg_to_one): the queue does not stay filled
\* when no further message comes.
SendsImmediately == (queue # <<>>) ~> (queue = <<>>)
=============================================================================
