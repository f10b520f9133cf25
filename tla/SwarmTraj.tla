------------------------------ MODULE SwarmTraj ------------------------------
(***************************************************************************)
(* The trajectories the drones of a swarm tell each other about: every     *)
(* planner broadcasts the trajectory it flies and stores, in               *)
(* traj_.swarm_traj, the ones it receives (RecvBroadcastMINCOTrajCallback  *)
(* of diff_replan_fsm.cpp).  It plans around what is stored, replans when  *)
(* a new one comes too close, and its first plan waits for the drones      *)
(* before it (SEQUENTIAL_START).                                           *)
(*                                                                         *)
(* The drones are numbered from 0, as the code requires.  A trajectory is  *)
(* its start time, the only field the callback orders by: the k-th         *)
(* broadcast of a drone starts at k.  The radio may lose a broadcast,      *)
(* deliver it late, out of order or more than once; one from a clock that  *)
(* is 10 s off is dropped, which is a loss.  Whether a trajectory is far   *)
(* from the receiver is geometry and may be either way.                    *)
(***************************************************************************)
EXTENDS Integers

CONSTANTS
  N,              \* drones
  MaxBroadcasts   \* bound: broadcasts of each drone

Drones == 0..(N - 1)

ASSUME SizeAssumption == N \in Nat \ {0} /\ MaxBroadcasts \in [Drones -> Nat]

VARIABLES
  sent,     \* the start time of each drone's last broadcast, 0 before the first
  size,     \* swarm_traj.size()
  valid,    \* valid[r][s]: swarm_traj[s].drone_id = s, at drone r
  start,    \* start[r][s]: swarm_traj[s].start_time, 0 in a blank entry
  pre,      \* have_recv_pre_agent_
  planned,  \* history: drones that have planned
  braked    \* history: drones that were stopped before they had planned

vars == <<sent, size, valid, start, pre, planned, braked>>

Init ==
  /\ sent = [d \in Drones |-> 0]
  /\ size = [d \in Drones |-> 0]
  /\ valid = [d \in Drones |-> [s \in Drones |-> FALSE]]
  /\ start = [d \in Drones |-> [s \in Drones |-> 0]]
  /\ pre = [d \in Drones |-> FALSE]
  /\ planned = {}
  /\ braked = {}

\* SEQUENTIAL_START waits for the drones before this one.  Once there is a
\* trajectory, the braking one included, the safety check and a conflict with
\* another drone plan without asking.
MayPlan(d) == d = 0 \/ pre[d] \/ sent[d] > 0

Broadcast(d) == sent' = [sent EXCEPT ![d] = @ + 1]

\* A plan succeeds and is broadcast: the first one, or a later one.
PlanAndBroadcast(d) ==
  /\ MayPlan(d)
  /\ sent[d] < MaxBroadcasts[d]
  /\ Broadcast(d)
  /\ planned' = planned \union {d}
  /\ UNCHANGED <<size, valid, start, pre, braked>>

\* An ordered stop broadcasts the braking trajectory, flying or not.  (The
\* bound leaves a broadcast for the plan.)
BrakeAndBroadcast(d) ==
  /\ sent[d] + 1 < MaxBroadcasts[d]
  /\ Broadcast(d)
  /\ braked' = IF d \in planned THEN braked ELSE braked \union {d}
  /\ UNCHANGED <<size, valid, start, pre, planned>>

-----------------------------------------------------------------------------
(* RecvBroadcastMINCOTrajCallback.                                         *)

\* Out of order or duplicated, as the entry's drone_id and time tell.
OutOfOrder(r, s, k) == size[r] > s /\ valid[r][s] /\ k <= start[r][s]

\* Mutant: the time of an invalidated entry is not looked at.
NeverOld(r, s, k) == FALSE

\* "Old traj received": the entry may be invalid, its time still counts.
Old(r, s, k) == k <= start[r][s]

\* Blank entries fill the store up to s.
Filled(r, s) == IF size[r] <= s THEN s + 1 ELSE size[r]

\* Mutant: a far trajectory is ignored in any case.
AcceptNear(r, far) == ~far

\* A far trajectory is accepted if no previous agent was received.
Accept(r, far) == ~far \/ ~pre[r]

\* Mutant: the entries of the drones before this one are not looked at.
PreHeardAnyone(r, heard) == size'[r] >= r /\ r > 0

\* The loop over the drones before r ends at the first that is not valid, and
\* sets the flag at each one before that.
PreHeard(r, heard) == size'[r] >= r /\ r > 0 /\ heard[0]

\* One's own broadcast, relayed back, or one that is no news.
Ignores(r, s, k) == r = s \/ OutOfOrder(r, s, k)

\* The store grows for a message that is then ignored.
RecvOld(r, s, k) ==
  /\ ~Ignores(r, s, k)
  /\ Old(r, s, k)
  /\ size' = [size EXCEPT ![r] = Filled(r, s)]
  /\ UNCHANGED <<sent, valid, start, pre, planned, braked>>

\* Stored.  (If it collides with the receiver's own trajectory the receiver
\* replans: SwarmConflict of ReplanFSM.)
RecvStored(r, s, k, far) ==
  /\ ~Ignores(r, s, k)
  /\ ~Old(r, s, k)
  /\ Accept(r, far)
  /\ size' = [size EXCEPT ![r] = Filled(r, s)]
  /\ valid' = [valid EXCEPT ![r][s] = TRUE]
  /\ start' = [start EXCEPT ![r][s] = k]
  /\ pre' = [pre EXCEPT ![r] = @ \/ PreHeard(r, valid'[r])]
  /\ UNCHANGED <<sent, planned, braked>>

\* Far away: what was known of the drone is no longer valid, its time stays.
RecvFar(r, s, k) ==
  /\ ~Ignores(r, s, k)
  /\ ~Old(r, s, k)
  /\ ~Accept(r, TRUE)
  /\ size' = [size EXCEPT ![r] = Filled(r, s)]
  /\ valid' = [valid EXCEPT ![r][s] = FALSE]
  /\ UNCHANGED <<sent, start, pre, planned, braked>>

Recv(r, s, k) ==
  \/ RecvOld(r, s, k)
  \/ \E far \in BOOLEAN : RecvStored(r, s, k, far)
  \/ RecvFar(r, s, k)

\* Any broadcast so far may arrive at any drone, now or again.
Deliver(r, s) == \E k \in 1..sent[s] : Recv(r, s, k)

\* What arrives from far away.  (Until pre is set it makes no difference.)
DeliverFar(r, s) == \E k \in 1..sent[s] : RecvStored(r, s, k, TRUE) \/ RecvFar(r, s, k)

-----------------------------------------------------------------------------
Next ==
  \/ \E d \in Drones : PlanAndBroadcast(d) \/ BrakeAndBroadcast(d)
  \/ \E r, s \in Drones : Deliver(r, s)

Spec == Init /\ [][Next]_vars

\* Planning succeeds one day, and the radio does not lose every broadcast of a
\* drone to one after it, however far apart they are.
FairSpec ==
  /\ Spec
  /\ \A d \in Drones :
       /\ WF_vars(PlanAndBroadcast(d))
       /\ \A s \in 0..(d - 1) : WF_vars(DeliverFar(d, s))

-----------------------------------------------------------------------------
(* What must hold.                                                         *)

TypeOK ==
  /\ sent \in [Drones -> Nat]
  /\ size \in [Drones -> 0..N]
  /\ valid \in [Drones -> [Drones -> BOOLEAN]]
  /\ start \in [Drones -> [Drones -> Nat]]
  /\ pre \in [Drones -> BOOLEAN]
  /\ planned \subseteq Drones /\ braked \subseteq Drones

\* The order of the start: a drone that has planned knows where drone 0 flies,
\* and has heard of another drone no earlier than the one before it.  Not of
\* every drone before it: the loop sets the flag at drone 0 already.  And not if
\* it was stopped before its first plan: the braking trajectory lets it through.
StartsInOrder ==
  \A d \in planned \ ({0} \union braked) :
    /\ start[d][0] \in 1..sent[0]
    /\ \E s \in Drones : s >= d - 1 /\ sent[s] > 0 /\ s < size[d]

\* However broadcasts are reordered, repeated and invalidated as too far, a
\* stored trajectory is never replaced by an older one.
NeverGoesBack ==
  [][\A r, s \in Drones : start'[r][s] >= start[r][s]]_vars

\* Nobody waits for ever: every drone takes off, wherever the others are.
EveryoneStarts == <>(planned = Drones)
=============================================================================
