---------------------------- MODULE MissionReturn ----------------------------
(***************************************************************************)
(* The return of a preset mission, mission_return_node.cpp: on a trigger   *)
(* it flies the mission's waypoints backwards to Home, through the same    *)
(* command gate as the manual return (whose node is then not running).     *)
(*                                                                         *)
(* The node is one thread.  A service call to the gate blocks it: the      *)
(* handler is two actions, up to the call and from its result on.  Unlike  *)
(* the manual return it is RETURNING, with its clock running, before the   *)
(* gate has answered, it may be triggered or reset in almost any state,    *)
(* and a reset whose call fails changes nothing.                           *)
(*                                                                         *)
(* A call may fail with the gate up and after it has switched: the node    *)
(* sees call() return false and cannot tell.  A request whose connection   *)
(* broke before the gate read it is not served later.                      *)
(*                                                                         *)
(* Data: every waypoint the node loads is a key point, which the planner   *)
(* keeps, so the planned path is the whole mission backwards; whether the  *)
(* map leaves it free is decided outside.  A refused trigger (RETURNING,   *)
(* no waypoints, no map, no safe path) changes nothing.  A vehicle at p is *)
(* within the home tolerance of p.  Time is the waypoint the profile has   *)
(* reached.                                                                *)
(***************************************************************************)
EXTENDS CommandGate, SequencesExt

CONSTANTS
  Mission,      \* mission_waypoints_: Home, then the preset waypoints
  QueueSize,    \* depth of the return command queue (50 in the code)
  CallFaults    \* may a call to a running gate not reach it, break, or lose
                \* its answer?

ASSUME MissionAssumption == Mission \in Seq(Pos) /\ Len(Mission) >= 2
ASSUME FaultAssumption == CallFaults \in BOOLEAN /\ QueueSize \in Nat \ {0}

VARIABLES
  state,      \* state_
  pc,         \* "spin", or the gate service the thread is blocked in
  call,       \* progress of that call
  lostReset,  \* history: the gate served a reset the node believes failed
  odom,       \* latest_odom_, NoPos until have_odom_
  path,       \* result_.return_waypoints
  clock,      \* the waypoint that the time since start_time_ leads to
  returnQ,    \* return commands on their way to the gate
  vehicle     \* where the vehicle is

nodeVars == <<state, pc, call, lostReset, odom, path, clock>>
vars == <<gateVars, nodeVars, returnQ, vehicle>>

States == {"READY", "RETURNING", "FINISHED", "FAILED"}
Home == Mission[1]

Init ==
  /\ GateInit
  /\ state = "READY"
  /\ pc = "spin"
  /\ call = "idle"
  /\ lostReset = FALSE
  /\ odom = NoPos
  /\ path = <<>>
  /\ clock = 0
  /\ returnQ = <<>>
  /\ vehicle \in Pos

OdomCallback ==
  /\ pc = "spin"
  /\ odom' = vehicle
  /\ UNCHANGED <<gateVars, state, pc, call, lostReset, path, clock, returnQ, vehicle>>

-----------------------------------------------------------------------------
(* The trigger service.                                                    *)

TriggerAllowed == state # "RETURNING"

\* Mutant: a failed call goes unnoticed.
CallIgnored == "RETURNING"

CallFailed == "FAILED"

Unreachable == ~gateUp \/ CallFaults

\* The call returns: answered, broken by the end of the gate, or by the network.
CallEnded == call \in {"replied", "broken"} \/ CallFaults

\* What call() may return.  An answer may be lost on its way back.
Answers ==
  IF call # "replied" THEN {FALSE} ELSE IF CallFaults THEN BOOLEAN ELSE {TRUE}

\* Planned, and RETURNING at once; the call to the gate then blocks.
TriggerCall ==
  /\ pc = "spin"
  /\ TriggerAllowed
  /\ gateUp
  /\ path' = Reverse(Mission)
  /\ clock' = 1
  /\ state' = "RETURNING"
  /\ pc' = "set_manual_return"
  /\ call' = "requested"
  /\ UNCHANGED <<gateVars, lostReset, odom, returnQ, vehicle>>

\* Planned, but the gate cannot be called.
TriggerFails ==
  /\ pc = "spin"
  /\ TriggerAllowed
  /\ Unreachable
  /\ path' = Reverse(Mission)
  /\ clock' = 1
  /\ state' = CallFailed
  /\ UNCHANGED <<gateVars, pc, call, lostReset, odom, returnQ, vehicle>>

TriggerReturns ==
  /\ pc = "set_manual_return"
  /\ CallEnded
  /\ pc' = "spin"
  /\ call' = "idle"
  /\ \E answered \in Answers :
       /\ state' = IF answered THEN state ELSE CallFailed
       /\ lostReset' = (lostReset /\ ~answered)
  /\ UNCHANGED <<gateVars, odom, path, clock, returnQ, vehicle>>

-----------------------------------------------------------------------------
(* The reset service.  A call that fails leaves everything as it was, also *)
(* when the gate has switched and only the answer was lost.                *)

ResetCall ==
  /\ pc = "spin"
  /\ gateUp
  /\ pc' = "set_normal"
  /\ call' = "requested"
  /\ UNCHANGED <<gateVars, state, lostReset, odom, path, clock, returnQ, vehicle>>

\* Mutant: the run is cleared without calling the gate, as the other node does.
ClearUncalled == state' = "READY" /\ path' = <<>>

\* No gate, no reset.
ClearUnreached == UNCHANGED <<state, path>>

ResetUnreachable ==
  /\ pc = "spin"
  /\ Unreachable
  /\ ClearUnreached
  /\ UNCHANGED <<gateVars, pc, call, lostReset, odom, clock, returnQ, vehicle>>

ResetReturns ==
  /\ pc = "set_normal"
  /\ CallEnded
  /\ pc' = "spin"
  /\ call' = "idle"
  /\ \E answered \in Answers :
       /\ IF answered
            THEN state' = "READY" /\ path' = <<>>
            ELSE UNCHANGED <<state, path>>
       /\ lostReset' = (~answered /\ (call = "replied" \/ lostReset))
  /\ UNCHANGED <<gateVars, odom, clock, returnQ, vehicle>>

-----------------------------------------------------------------------------
(* The executor timer.                                                     *)

TimeLeft == state = "RETURNING" /\ clock < Len(path)

\* The clock goes on whatever the thread does.
ClockTicks ==
  /\ TimeLeft
  /\ clock' = clock + 1
  /\ UNCHANGED <<gateVars, state, pc, call, lostReset, odom, path, returnQ, vehicle>>

\* A full queue loses its oldest command; without a gate nobody listens.
Publish(p) ==
  returnQ' = IF ~gateUp THEN returnQ
             ELSE IF Len(returnQ) < QueueSize THEN Append(returnQ, p)
             ELSE Append(Tail(returnQ), p)

\* At the end of the profile and, as far as there is odometry, at Home.
Arrived == clock = Len(path) /\ odom \in {NoPos, Last(path)}

Execute ==
  /\ pc = "spin"
  /\ state = "RETURNING"
  /\ Publish(path[clock])
  /\ state' = IF Arrived THEN "FINISHED" ELSE state
  /\ UNCHANGED <<gateVars, pc, call, lostReset, odom, path, clock, vehicle>>

\* Mutant: the hold is at the beginning of the path.
HoldAtStart == path[1]

HoldPoint == Last(path)

ExecuteHold ==
  /\ pc = "spin"
  /\ state = "FINISHED"
  /\ Publish(HoldPoint)
  /\ UNCHANGED <<gateVars, nodeVars, vehicle>>

-----------------------------------------------------------------------------
(* The gate process and its clients, as in ManualReturn.                   *)

Serve(service, s) ==
  /\ pc = service
  /\ call = "requested"
  /\ SwitchTo(s, "node")
  /\ call' = "replied"
  /\ UNCHANGED <<state, pc, lostReset, odom, path, clock, returnQ, vehicle>>

OperatorSwitch(s) ==
  /\ SwitchTo(s, "operator")
  /\ UNCHANGED <<nodeVars, returnQ, vehicle>>

NormalCommand(p) ==
  /\ NormalCallback(p)
  /\ UNCHANGED <<nodeVars, returnQ, vehicle>>

ReturnCommand ==
  /\ returnQ # <<>>
  /\ ReturnCallback(Head(returnQ))
  /\ returnQ' = Tail(returnQ)
  /\ UNCHANGED <<nodeVars, vehicle>>

\* An unanswered call breaks; an answer that was sent may still arrive.
GateCrashes ==
  /\ GateCrash
  /\ \/ call = "requested" /\ call' = "broken"
     \/ call = "replied" /\ call' \in {"replied", "broken"}
     \/ call \in {"idle", "broken"} /\ UNCHANGED call
  /\ returnQ' = <<>>
  /\ UNCHANGED <<state, pc, lostReset, odom, path, clock, vehicle>>

GateStarts ==
  /\ GateStart
  /\ UNCHANGED <<nodeVars, returnQ, vehicle>>

\* The controller flies the vehicle to the last command it received; odometry
\* is faster than the vehicle.
VehicleMoves ==
  /\ follows # NoCommand
  /\ vehicle # follows.pos
  /\ odom \in {NoPos, vehicle}
  /\ vehicle' = follows.pos
  /\ UNCHANGED <<gateVars, nodeVars, returnQ>>

-----------------------------------------------------------------------------
Trigger == TriggerCall \/ TriggerFails
Reset == ResetCall \/ ResetUnreachable

Next ==
  \/ OdomCallback
  \/ Trigger \/ TriggerReturns
  \/ Reset \/ ResetReturns
  \/ ClockTicks \/ Execute \/ ExecuteHold
  \/ Serve("set_manual_return", "MANUAL_RETURN") \/ Serve("set_normal", "NORMAL")
  \/ \E s \in Source : OperatorSwitch(s)
  \/ \E p \in Pos : NormalCommand(p)
  \/ ReturnCommand
  \/ GateCrashes \/ GateStarts
  \/ VehicleMoves

Spec == Init /\ [][Next]_vars

(***************************************************************************)
(* Fairness.  The executor's timer keeps firing while the node spins, time *)
(* passes, calls are answered, ROS delivers what is queued, odometry keeps *)
(* coming and the controller flies where it is told to.  Nothing is        *)
(* assumed of the operator, of the normal stream or of a stopped gate.     *)
(***************************************************************************)
FairSpec ==
  /\ Spec
  /\ WF_vars(TriggerReturns)
  /\ WF_vars(ResetReturns)
  /\ WF_vars(ClockTicks)
  /\ WF_vars(Execute)
  /\ WF_vars(ExecuteHold)
  /\ WF_vars(Serve("set_manual_return", "MANUAL_RETURN"))
  /\ WF_vars(Serve("set_normal", "NORMAL"))
  /\ WF_vars(ReturnCommand)
  /\ WF_vars(OdomCallback)
  /\ WF_vars(VehicleMoves)

-----------------------------------------------------------------------------
(* What must hold.                                                         *)

TypeOK ==
  /\ GateTypeOK
  /\ state \in States
  /\ pc \in {"spin", "set_manual_return", "set_normal"}
  /\ call \in {"idle", "requested", "replied", "broken"}
  /\ lostReset \in BOOLEAN
  /\ odom \in Pos \union {NoPos}
  /\ path \in {<<>>, Reverse(Mission)}
  /\ clock \in 0..Len(Mission)
  /\ returnQ \in Seq(Pos)
  /\ vehicle \in Pos

Undisturbed == by = "node"

\* The executor publishes: the call that armed the gate has ended well.
InControl == pc = "spin" /\ state \in {"RETURNING", "FINISHED"}

\* While the executor publishes, the gate listens to it, unless the operator or
\* a restart of the gate changed that, or a reset was served of which the node
\* never got the answer.  RETURNING is set before the gate is called: every
\* other way a call can end (unsent, broken before or after the gate switched,
\* its answer lost) has to make it true or undo it.
ControlKept == InControl /\ source = "NORMAL" => ~Undisturbed \/ lostReset

\* READY means that the controller has been given back: a reset that could not
\* reach the gate, or got no answer, does not report the node ready.
ReadyIsReleased ==
  state = "READY" /\ pc = "spin" /\ source = "MANUAL_RETURN" => ~Undisturbed

\* The normal stream cannot take the controller back during a return, unless a
\* reset whose answer was lost has let it in.
NormalNeverRetakes ==
  [][InControl /\ Undisturbed /\ ~lostReset /\ follows.src = "MANUAL_RETURN"
       => follows'.src = "MANUAL_RETURN"]_vars

\* A return gets the drone to Home and holds it there, also when the node
\* announced Home without any odometry, unless the return is called off, an
\* attempt at that was served but not answered, or somebody else takes the
\* controller.
ReturnArrives ==
  (state = "RETURNING" /\ InControl /\ Undisturbed)
    ~> \/ state = "FINISHED" /\ vehicle = Home
       \/ ~InControl \/ ~Undisturbed \/ lostReset
=============================================================================
