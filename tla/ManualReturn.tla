----------------------------- MODULE ManualReturn ----------------------------
(***************************************************************************)
(* The manual return of manual_return_node.cpp: it records where the drone *)
(* flew, and on a trigger flies the recorded path back, taking the         *)
(* controller over through the command gate.                               *)
(*                                                                         *)
(* The node is one thread (ros::spin): odometry, the 10 Hz recorder, the   *)
(* 100 Hz executor and the two services never overlap.  But a call to the  *)
(* gate blocks that thread while the gate, the traj_server behind it, the  *)
(* operator and the vehicle go on: such a handler is two actions here, up  *)
(* to the call and from its result on, with pc between them.               *)
(*                                                                         *)
(* Data: a position is an element of Pos, two positions being "close" when *)
(* they are equal; a vehicle at p is within the home tolerance of p and    *)
(* slower than the finish threshold.  Time: the takeover delay may be over *)
(* at any moment, and the speed profile is an index into the path that     *)
(* time moves forward.                                                     *)
(***************************************************************************)
EXTENDS CommandGate, SequencesExt

CONSTANTS
  EnableOutput,    \* enable_return_command_output
  RequireTakeover, \* require_control_takeover
  MaxHistory,      \* bound: samples recorded before a trigger
  QueueSize,       \* depth of the return command queue (50 in the code)
  CallFaults,      \* may a call to a running gate not reach it, break, or
                   \* lose its answer?
  DelayDrains,     \* is control_takeover_delay longer than a command's transit?
  OdomLive,        \* is the odometry faster than the vehicle?
  WrongFrames      \* may odometry in another frame arrive?

ASSUME FlagAssumption ==
  {EnableOutput, RequireTakeover, CallFaults, DelayDrains, OdomLive, WrongFrames}
    \subseteq BOOLEAN
ASSUME BoundAssumption == MaxHistory \in Nat /\ QueueSize \in Nat \ {0}

VARIABLES
  state,        \* state_
  pc,           \* "spin", or the gate service the thread is blocked in
  call,         \* progress of that call
  odom,         \* latest_odom_, NoPos until have_odom_
  frameError,   \* frame_error_
  history,      \* history_
  path,         \* last_result_.return_waypoints
  step,         \* the waypoint the profile has reached, 0 before a return
  stopSent,     \* has /mandatory_stop_to_planner, a latched topic, been published?
  returnQ,      \* return commands on their way to the gate
  vehicle,      \* where the vehicle is
  home          \* history: first sample since recording began

nodeVars == <<state, pc, call, odom, frameError, history, path, step, stopSent>>
vars == <<gateVars, nodeVars, returnQ, vehicle, home>>

\* PLANNING lasts as long as the trigger handler, which nothing interrupts.
States == {"RECORDING", "WAITING_FOR_TAKEOVER", "RETURNING", "FINISHED", "FAILED"}

Init ==
  /\ GateInit
  /\ state = "RECORDING"
  /\ pc = "spin"
  /\ call = "idle"
  /\ odom = NoPos
  /\ frameError = FALSE
  /\ history = <<>>
  /\ path = <<>>
  /\ step = 0
  /\ stopSent = FALSE
  /\ returnQ = <<>>
  /\ vehicle \in Pos
  /\ home = NoPos

-----------------------------------------------------------------------------
(* Recording.                                                              *)

HaveOdom == odom # NoPos

OdomCallback ==
  /\ pc = "spin"
  /\ odom' = vehicle
  /\ UNCHANGED <<gateVars, state, pc, call, frameError, history, path, step,
                 stopSent, returnQ, vehicle, home>>

OdomWrongFrame ==
  /\ WrongFrames
  /\ pc = "spin"
  /\ frameError' = TRUE
  /\ UNCHANGED <<gateVars, state, pc, call, odom, history, path, step,
                 stopSent, returnQ, vehicle, home>>

RecordTimer ==
  /\ pc = "spin"
  /\ state = "RECORDING"
  /\ HaveOdom
  /\ Len(history) < MaxHistory
  /\ history' = Append(history, odom)
  /\ home' = IF history = <<>> THEN odom ELSE home
  /\ UNCHANGED <<gateVars, state, pc, call, odom, frameError, path, step,
                 stopSent, returnQ, vehicle>>

-----------------------------------------------------------------------------
(* The trigger service.                                                    *)

\* The history with the trigger-time pose as its last point.
Frozen == IF HaveOdom THEN Append(history, odom) ELSE history

\* planManualReturn: the samples in reverse, thinned, both ends kept (the last
\* raised to the landing handoff, which is "close").  A vehicle that never
\* moved leaves fewer than two distinct points: no path.
ReturnPaths(h) ==
  {p \in UNION {[1..n -> Pos] : n \in 2..Len(h)} :
     /\ \A i \in 1..(Len(p) - 1) : p[i] # p[i + 1]
     /\ \E kept \in [1..Len(p) -> 1..Len(h)] :
          /\ kept[1] = 1 /\ kept[Len(p)] = Len(h)
          /\ \A i \in 1..(Len(p) - 1) : kept[i] < kept[i + 1]
          /\ \A i \in 1..Len(p) : p[i] = Reverse(h)[kept[i]]}

TriggerRefused == frameError \/ (RequireTakeover /\ ~EnableOutput)

\* Refused, or planning failed, which it may for reasons outside this model.
TriggerFails ==
  /\ pc = "spin"
  /\ state = "RECORDING"
  /\ state' = "FAILED"
  /\ UNCHANGED <<gateVars, pc, call, odom, frameError, history, path, step,
                 stopSent, returnQ, vehicle, home>>

TriggerPlans ==
  /\ pc = "spin"
  /\ state = "RECORDING"
  /\ ~TriggerRefused
  /\ path' \in ReturnPaths(Frozen)
  /\ state' = IF EnableOutput THEN "WAITING_FOR_TAKEOVER" ELSE "FINISHED"
  /\ stopSent' = TRUE
  /\ UNCHANGED <<gateVars, pc, call, odom, frameError, history, step,
                 returnQ, vehicle, home>>

-----------------------------------------------------------------------------
(* The executor timer: taking control over.                                *)

\* Mutant: the takeover does not wait.
DelaySkipped == TRUE

DelayOver == DelayDrains => returnQ = <<>>

GateUnreachable == ~gateUp \/ CallFaults

\* The call returns: answered, broken by the end of the gate, or by the network.
CallEnded == call \in {"replied", "broken"} \/ CallFaults

\* What call() may return.  An answer may be lost on its way back.
Answers ==
  IF call # "replied" THEN {FALSE} ELSE IF CallFaults THEN BOOLEAN ELSE {TRUE}

TakeoverCall ==
  /\ pc = "spin"
  /\ state = "WAITING_FOR_TAKEOVER"
  /\ DelayOver
  /\ gateUp
  /\ pc' = "set_manual_return"
  /\ call' = "requested"
  /\ UNCHANGED <<gateVars, state, odom, frameError, history, path, step,
                 stopSent, returnQ, vehicle, home>>

\* The service does not exist, or cannot be reached.
TakeoverUnreachable ==
  /\ pc = "spin"
  /\ state = "WAITING_FOR_TAKEOVER"
  /\ DelayOver
  /\ GateUnreachable
  /\ state' = "FAILED"
  /\ UNCHANGED <<gateVars, pc, call, odom, frameError, history, path, step,
                 stopSent, returnQ, vehicle, home>>

TakeoverReturns ==
  /\ pc = "set_manual_return"
  /\ CallEnded
  /\ pc' = "spin"
  /\ call' = "idle"
  /\ \E answered \in Answers :
       IF answered
         THEN state' = "RETURNING" /\ step' = 1
         ELSE state' = "FAILED" /\ UNCHANGED step
  /\ UNCHANGED <<gateVars, odom, frameError, history, path, stopSent,
                 returnQ, vehicle, home>>

-----------------------------------------------------------------------------
(* The executor timer: streaming the path, then holding Home.              *)

\* A full queue loses its oldest command; without a gate nobody listens.
Publish(p) ==
  returnQ' = IF ~gateUp THEN returnQ
             ELSE IF Len(returnQ) < QueueSize THEN Append(returnQ, p)
             ELSE Append(Tail(returnQ), p)

\* Mutant: the end of the path is missed by one.
ArrivedPastTheEnd(s) == s > Len(path) /\ odom = Last(path)

Arrived(s) == s = Len(path) /\ odom = Last(path)

StepReturn(s) ==
  /\ pc = "spin"
  /\ state = "RETURNING"
  /\ s \in step..Len(path)
  /\ step' = s
  /\ Publish(path[s])
  /\ state' = IF Arrived(s) THEN "FINISHED" ELSE state
  /\ UNCHANGED <<gateVars, pc, call, odom, frameError, history, path,
                 stopSent, vehicle, home>>

\* Mutant: the hold uses the first waypoint, the trigger pose.
HoldAtTrigger == path[1]

HoldPoint == Last(path)

PublishHomeHold ==
  /\ pc = "spin"
  /\ state = "FINISHED"
  /\ EnableOutput
  /\ Publish(HoldPoint)
  /\ UNCHANGED <<gateVars, nodeVars, vehicle, home>>

-----------------------------------------------------------------------------
(* The reset service.                                                      *)

\* Mutant: the reset clears the run but not the state.
ClearRunKeepsState ==
  /\ state' = IF state = "FINISHED" THEN state ELSE "RECORDING"
  /\ history' = <<>>
  /\ path' = IF state = "FINISHED" THEN path ELSE <<>>
  /\ step' = 0
  /\ home' = IF state = "FINISHED" THEN home ELSE NoPos

\* Mutant: a reset in mid-return is accepted.
ResetAlwaysAllowed == state \in States

ResetAllowed == state \in {"RECORDING", "FINISHED", "FAILED"}

\* Mutant: the reset forgets the recorded samples.
ClearRunKeepsHistory ==
  /\ state' = "RECORDING"
  /\ path' = <<>>
  /\ step' = 0
  /\ home' = NoPos
  /\ UNCHANGED history

ClearRun ==
  /\ state' = "RECORDING"
  /\ history' = <<>>
  /\ path' = <<>>
  /\ step' = 0
  /\ home' = NoPos

ResetCall ==
  /\ pc = "spin"
  /\ ResetAllowed
  /\ EnableOutput
  /\ gateUp
  /\ pc' = "set_normal"
  /\ call' = "requested"
  /\ UNCHANGED <<gateVars, state, odom, frameError, history, path, step,
                 stopSent, returnQ, vehicle, home>>

\* No gate to reset, or none that answers: the run is cleared all the same.
ResetUnreachable ==
  /\ pc = "spin"
  /\ ResetAllowed
  /\ EnableOutput => GateUnreachable
  /\ ClearRun
  /\ UNCHANGED <<gateVars, pc, call, odom, frameError, stopSent, returnQ,
                 vehicle>>

\* Whatever the call returned.
ResetReturns ==
  /\ pc = "set_normal"
  /\ CallEnded
  /\ pc' = "spin"
  /\ call' = "idle"
  /\ ClearRun
  /\ UNCHANGED <<gateVars, odom, frameError, stopSent, returnQ, vehicle>>

-----------------------------------------------------------------------------
(* The gate process and its clients.                                       *)

SetManualReturn ==
  /\ pc = "set_manual_return"
  /\ call = "requested"
  /\ SwitchTo("MANUAL_RETURN", "node")
  /\ call' = "replied"
  /\ UNCHANGED <<state, pc, odom, frameError, history, path, step, stopSent,
                 returnQ, vehicle, home>>

SetNormal ==
  /\ pc = "set_normal"
  /\ call = "requested"
  /\ SwitchTo("NORMAL", "node")
  /\ call' = "replied"
  /\ UNCHANGED <<state, pc, odom, frameError, history, path, step, stopSent,
                 returnQ, vehicle, home>>

\* Both services are public: anyone may call them at any time.
OperatorSwitch(s) ==
  /\ SwitchTo(s, "operator")
  /\ UNCHANGED <<nodeVars, returnQ, vehicle, home>>

NormalCommand(p) ==
  /\ NormalCallback(p)
  /\ UNCHANGED <<nodeVars, returnQ, vehicle, home>>

ReturnCommand ==
  /\ returnQ # <<>>
  /\ ReturnCallback(Head(returnQ))
  /\ returnQ' = Tail(returnQ)
  /\ UNCHANGED <<nodeVars, vehicle, home>>

\* An unanswered call breaks; an answer that was sent may still arrive.
GateCrashes ==
  /\ GateCrash
  /\ \/ call = "requested" /\ call' = "broken"
     \/ call = "replied" /\ call' \in {"replied", "broken"}
     \/ call \in {"idle", "broken"} /\ UNCHANGED call
  /\ returnQ' = <<>>
  /\ UNCHANGED <<state, pc, odom, frameError, history, path, step, stopSent,
                 vehicle, home>>

GateStarts ==
  /\ GateStart
  /\ UNCHANGED <<nodeVars, returnQ, vehicle, home>>

\* The controller flies the vehicle to the last command it received.
VehicleMoves ==
  /\ follows # NoCommand
  /\ vehicle # follows.pos
  /\ OdomLive => odom \in {NoPos, vehicle}
  /\ vehicle' = follows.pos
  /\ UNCHANGED <<gateVars, nodeVars, returnQ, home>>

-----------------------------------------------------------------------------
Node ==
  \/ OdomCallback \/ OdomWrongFrame \/ RecordTimer
  \/ TriggerFails \/ TriggerPlans
  \/ TakeoverCall \/ TakeoverUnreachable \/ TakeoverReturns
  \/ \E s \in 1..(MaxHistory + 1) : StepReturn(s)
  \/ PublishHomeHold
  \/ ResetCall \/ ResetUnreachable \/ ResetReturns

Gate ==
  \/ SetManualReturn \/ SetNormal
  \/ \E s \in Source : OperatorSwitch(s)
  \/ \E p \in Pos : NormalCommand(p)
  \/ ReturnCommand
  \/ GateCrashes \/ GateStarts

Next == Node \/ Gate \/ VehicleMoves

Spec == Init /\ [][Next]_vars

(***************************************************************************)
(* Fairness.  The timers of the node keep firing while it spins, a service *)
(* call is answered, ROS delivers what is queued, odometry keeps coming    *)
(* and the controller flies where it is told to.  Nothing is assumed of    *)
(* the operator, of traj_server, or of a gate that stopped.                *)
(***************************************************************************)
ProfileAdvances == StepReturn(IF step < Len(path) THEN step + 1 ELSE step)

FairSpec ==
  /\ Spec
  /\ WF_vars(TakeoverCall \/ TakeoverUnreachable)
  /\ WF_vars(TakeoverReturns)
  /\ WF_vars(SetManualReturn)
  /\ WF_vars(ProfileAdvances)
  /\ WF_vars(PublishHomeHold)
  /\ WF_vars(ReturnCommand)
  /\ WF_vars(OdomCallback)
  /\ WF_vars(VehicleMoves)

-----------------------------------------------------------------------------
(* What must hold.                                                         *)

TypeOK ==
  /\ GateTypeOK
  /\ state \in States
  /\ pc \in {"spin", "set_manual_return", "set_normal"}
  /\ call \in {"idle", "requested", "replied", "broken"}
  /\ odom \in Pos \union {NoPos}
  /\ frameError \in BOOLEAN
  /\ history \in Seq(Pos)
  /\ path \in Seq(Pos)
  /\ step \in Nat
  /\ stopSent \in BOOLEAN
  /\ returnQ \in Seq(Pos)
  /\ vehicle \in Pos
  /\ home \in Pos \union {NoPos}

\* The last switch of the gate was the node's own doing.
Undisturbed == by = "node"

\* The executor has the controller: it took over and has not begun to give back.
InControl == EnableOutput /\ pc = "spin" /\ state \in {"RETURNING", "FINISHED"}

\* While the drone returns or holds Home, nothing the node itself did has
\* given the controller back to the normal stream: the gate stays in
\* MANUAL_RETURN until a reset (README "State machine").
ReturnKeepsControl == InControl /\ source = "NORMAL" => ~Undisturbed

\* The converse: a gate the node has armed always has an executor feeding it,
\* so the controller is never left listening to a stream that has ended.  A
\* failed takeover and a finished reset both leave the gate in NORMAL.
NoOrphanedControl ==
  source = "MANUAL_RETURN" /\ Undisturbed /\ pc = "spin" => InControl

\* A stale normal stream cannot take the controller back (README "Control
\* topology"): once the controller follows the return stream it keeps doing so
\* until the node begins a reset or someone else switches the gate.
NormalNeverRetakes ==
  [][InControl /\ Undisturbed /\ follows.src = "MANUAL_RETURN"
       => follows'.src = "MANUAL_RETURN"]_vars

\* The planned path ends where the flight began, however many runs, resets
\* and failed triggers came before: each run has its own Home.
PathLeadsHome == path # <<>> => Last(path) = home

\* A return command the controller accepts during a return belongs to that
\* return: commands of an earlier run, still in flight, are never flown.
OnlyThisRunsCommands ==
  [][InControl /\ Undisturbed /\ follows' # follows
       => follows'.pos \in Range(path)]_vars

\* A takeover always comes to an end, and a return under way reaches Home
\* unless the operator or a gate restart takes the controller away.
ReturnCompletes ==
  /\ (state = "WAITING_FOR_TAKEOVER") ~> (state \in {"RETURNING", "FAILED"})
  /\ (state = "RETURNING") ~> (state = "FINISHED" \/ ~Undisturbed)

\* Having finished, the drone is brought to Home: the hold points it there,
\* not where the last run began or ended.
HoldsHome ==
  (state = "FINISHED" /\ InControl /\ Undisturbed)
    ~> (vehicle = home \/ ~InControl \/ ~Undisturbed)

-----------------------------------------------------------------------------
(* The hand-over of control the node implements.                           *)

StatePhase ==
  [RECORDING            |-> "outbound",
   WAITING_FOR_TAKEOVER |-> "handover",
   RETURNING            |-> "homing",
   FINISHED             |-> IF EnableOutput THEN "holding" ELSE "planned",
   FAILED               |-> "failed"]

Phase == IF pc = "set_normal" THEN "resetting" ELSE StatePhase[state]

Handover == INSTANCE ControlHandover WITH
  phase <- Phase, owner <- source, cause <- by

\* The node and the gate together keep the promise of ControlHandover.
ImplementsHandover == Handover!Spec
=============================================================================
