------------------------------ MODULE ReplanFSM ------------------------------
(***************************************************************************)
(* The state machine of the flight planner, diff_replan_fsm.cpp: it takes  *)
(* goals, plans local trajectories towards them, replans while they are    *)
(* flown, and stops the drone when told to or when it finds no way.        *)
(*                                                                         *)
(* The node is one thread: the 100 Hz state machine, the 20 Hz safety      *)
(* check and the message callbacks do not overlap.  One of them breaks     *)
(* that rule: a goal that interrupts planning waits for the plan with a    *)
(* nested ros::spinOnce, in which every other callback, a second goal      *)
(* included, runs.  waits counts the goal callbacks suspended that way.    *)
(*                                                                         *)
(* Data: a goal is an element of Goals; a trajectory is the goal it was    *)
(* planned for and whether it reaches it or ends on the way.  What the     *)
(* map, the optimiser and the clock decide (is the goal occupied, does     *)
(* planning succeed, is it time to replan, is the drone stuck) may go      *)
(* either way at each step.                                                *)
(***************************************************************************)
EXTENDS Naturals, Sequences

CONSTANTS
  Goals,           \* goals and the points a goal in collision is moved to
  NoGoal,          \* final_goal_ before the first goal
  OnTheWay,        \* a local target short of the goal
  Waypoints,       \* the preset waypoints; <<>> when goals come by message
  RealWorld,       \* fsm/realworld_experiment: wait for a trigger
  MondifyGoal,     \* fsm/mondify_final_goal: move a goal in collision
  FailSafe,        \* fsm/fail_safe: leave EMERGENCY_STOP by itself
  StuckDetect,     \* fsm/enable_stuck_detect
  Predecessors,    \* drone_id >= 1: start after the drones before this one
  Swarm,           \* do other drones broadcast trajectories?
  DepthLoss,       \* may the depth camera time out?
  MaxFail,         \* MAX_REPLAN_FAIL_COUNT (10 in the code)
  MaxNest          \* bound: goal callbacks suspended at a time

ASSUME GoalAssumption ==
  /\ NoGoal \notin Goals
  /\ OnTheWay \notin Goals \union {NoGoal}
  /\ Waypoints \in Seq(Goals)
ASSUME SwitchAssumption ==
  {RealWorld, MondifyGoal, FailSafe, StuckDetect, Predecessors, Swarm, DepthLoss}
    \subseteq BOOLEAN
ASSUME CountAssumption == MaxFail \in Nat /\ MaxNest \in Nat \ {0}

VARIABLES
  fsm,          \* exec_state_
  haveOdom,     \* have_odom_
  haveTarget,   \* have_target_
  haveTrigger,  \* have_trigger_
  preAgents,    \* have_recv_pre_agent_
  needHover,    \* need_hover_stop_: stay stopped until a new goal
  escape,       \* flag_escape_emergency_: the braking trajectory is still to come
  failSafe,     \* enable_fail_safe_
  failCount,    \* replan_fail_count_
  goal,         \* final_goal_, where the global trajectory leads
  target,       \* local_target_pt_: the goal aimed at, or OnTheWay
  traj,         \* local_traj, which is also the last trajectory published
  monitored,    \* traj_id > 0: does the safety check look at traj?
  progress,     \* how far traj has been flown
  wpt,          \* wpt_id_ + 1
  waits,        \* goal callbacks suspended in planNextWaypoint
  halted        \* history: stopped for good, and no goal accepted since

trajVars == <<goal, target, traj, monitored, progress>>
missionVars == <<haveTarget, haveTrigger, wpt>>
stopVars == <<needHover, escape, failSafe, halted>>
vars == <<fsm, haveOdom, preAgents, failCount, waits, trajVars, missionVars, stopVars>>

States == {"INIT", "WAIT_TARGET", "GEN_NEW_TRAJ", "REPLAN_TRAJ", "EXEC_TRAJ",
           "EMERGENCY_STOP", "SEQUENTIAL_START"}
Kinds == {"none", "way", "arrival", "stop"}

Preset == Waypoints # <<>>
Touch == target = goal

Init ==
  /\ fsm = "INIT"
  /\ haveOdom = FALSE
  /\ haveTarget = Preset
  /\ haveTrigger = ~RealWorld
  /\ preAgents = FALSE
  /\ needHover = FALSE
  /\ escape = TRUE
  /\ failSafe = FailSafe
  /\ failCount = 0
  /\ goal = IF Preset THEN Waypoints[1] ELSE NoGoal
  /\ target = OnTheWay
  /\ traj = [goal |-> NoGoal, kind |-> "none"]
  /\ monitored = FALSE
  /\ progress = "early"
  /\ wpt = IF Preset THEN 1 ELSE 0
  /\ waits = IF Preset THEN 1 ELSE 0
  /\ halted = FALSE

-----------------------------------------------------------------------------
(* Building blocks of the callbacks.                                       *)

\* Mutant: the stop does not ask for a braking trajectory.
HaltUnbraked ==
  /\ fsm' = "EMERGENCY_STOP"
  /\ needHover' = TRUE
  /\ halted' = TRUE
  /\ UNCHANGED escape

\* Stop, and stay stopped until there is a new goal.
Halt ==
  /\ fsm' = "EMERGENCY_STOP"
  /\ needHover' = TRUE
  /\ escape' = TRUE
  /\ halted' = TRUE

Become(s) == fsm' = s /\ UNCHANGED <<needHover, escape, halted>>

\* planNextWaypoint: a new global trajectory.  The local one is still being
\* flown but no longer the current one: traj_id and duration are 0.
NewGlobalTraj(g) ==
  /\ goal' = g
  /\ monitored' = FALSE
  /\ haveTarget' = TRUE
  /\ UNCHANGED <<target, traj, progress>>

\* Mutant: the new trajectory is stored without a new traj_id.
AttemptUncounted(ok) ==
  \E g \in IF MondifyGoal THEN Goals \union {goal} ELSE {goal}, reaches \in BOOLEAN :
    /\ goal' = g
    /\ target' = IF reaches THEN g ELSE OnTheWay
    /\ haveTarget' = (haveTarget \/ g # goal)
    /\ traj' = IF ok THEN [goal |-> g, kind |-> IF reaches THEN "arrival" ELSE "way"] ELSE traj
    /\ monitored' = (monitored /\ g = goal)
    /\ progress' = IF ok THEN "early" ELSE progress

\* callReboundReplan, repeated until it succeeds or gives up.  A goal in
\* collision may first be moved, which makes a new global trajectory.
Attempt(ok) ==
  \E g \in IF MondifyGoal THEN Goals \union {goal} ELSE {goal}, reaches \in BOOLEAN :
    /\ goal' = g
    /\ target' = IF reaches THEN g ELSE OnTheWay
    /\ haveTarget' = (haveTarget \/ g # goal)
    /\ traj' = IF ok THEN [goal |-> g, kind |-> IF reaches THEN "arrival" ELSE "way"] ELSE traj
    /\ monitored' = (ok \/ (monitored /\ g = goal))
    /\ progress' = IF ok THEN "early" ELSE progress

TooManyFailures == failCount + 1 > MaxFail

-----------------------------------------------------------------------------
(* execFSMCallback, a step for each state.                                 *)

ExecInit ==
  /\ fsm = "INIT"
  /\ haveOdom
  /\ Become("WAIT_TARGET")
  /\ UNCHANGED <<haveOdom, preAgents, failSafe, failCount, waits, trajVars, missionVars>>

ExecWaitTarget ==
  /\ fsm = "WAIT_TARGET"
  /\ haveTarget
  /\ haveTrigger
  /\ Become("SEQUENTIAL_START")
  /\ UNCHANGED <<haveOdom, preAgents, failSafe, failCount, waits, trajVars, missionVars>>

Planning ==
  \/ fsm \in {"GEN_NEW_TRAJ", "REPLAN_TRAJ"}
  \/ fsm = "SEQUENTIAL_START" /\ (Predecessors => preAgents)

ExecPlanSucceeds ==
  /\ Planning
  /\ Attempt(TRUE)
  /\ failCount' = 0
  /\ fsm' = "EXEC_TRAJ"
  /\ escape' = (escape \/ fsm = "GEN_NEW_TRAJ")
  /\ UNCHANGED <<haveOdom, preAgents, haveTrigger, wpt, waits, needHover, failSafe, halted>>

\* Mutant: the failure is not counted.
FailsUncounted ==
  /\ Planning
  /\ Attempt(FALSE)
  /\ Become(fsm)
  /\ UNCHANGED <<haveOdom, preAgents, haveTrigger, wpt, waits, failCount, failSafe>>

\* The failure is counted; finishProcess ends the tick.
ExecPlanFails ==
  /\ Planning
  /\ Attempt(FALSE)
  /\ IF TooManyFailures
       THEN failCount' = 0 /\ Halt
       ELSE failCount' = failCount + 1 /\ Become(fsm)
  /\ UNCHANGED <<haveOdom, preAgents, haveTrigger, wpt, waits, failSafe>>

\* The goal is in an obstacle and may not be moved.
ExecGoalUnsafe ==
  /\ ~MondifyGoal
  /\ fsm = "EXEC_TRAJ" \/ (Planning /\ fsm # "REPLAN_TRAJ")
  /\ Halt
  /\ UNCHANGED <<haveOdom, preAgents, failSafe, failCount, waits, trajVars, missionVars>>

-----------------------------------------------------------------------------
(* EXEC_TRAJ: each case names the state the machine goes to.               *)

\* A duration of 0 is that of a trajectory that is no longer the current one.
Ended == progress = "over" \/ ~monitored

\* The goal is in collision: it is moved to a free point of the global path.
MovesGoal(s) ==
  /\ MondifyGoal
  /\ s = "REPLAN_TRAJ"
  /\ \E g \in Goals \ {goal} : NewGlobalTraj(g)
  /\ UNCHANGED <<haveTrigger, wpt>>

\* Mutant: the last waypoint but one ends the round.
LastWaypointEarly == wpt >= Len(Waypoints) - 1

LastWaypoint == wpt >= Len(Waypoints)

\* Is the point flown at within no_replan_thresh_ of the goal?  At the end of
\* a trajectory that reaches the goal it is; anywhere else it may be.
Nearness ==
  IF monitored /\ progress = "over" /\ traj = [goal |-> goal, kind |-> "arrival"]
    THEN {TRUE} ELSE BOOLEAN

\* Case 2 comes before the arrival test: near a waypoint that is not the last
\* one the next is assigned.
Assigns(near) == Preset /\ ~LastWaypoint /\ near

NextWaypoint(s, near) ==
  /\ Assigns(near)
  /\ s = "REPLAN_TRAJ"
  /\ wpt' = wpt + 1
  /\ NewGlobalTraj(Waypoints[wpt + 1])
  /\ UNCHANGED haveTrigger

\* Mutant: where the trajectory ends does not matter.
ArrivedAnywhere == Ended

Arrived == Ended /\ Touch

\* Case 3.  The preset mission is rewound and waits for the next trigger; that
\* the waypoint is the last one is not asked again.
Completes(s, near) ==
  /\ ~Assigns(near)
  /\ Arrived
  /\ s = "WAIT_TARGET"
  /\ haveTrigger' = FALSE
  /\ IF Preset
       THEN wpt' = 1 /\ NewGlobalTraj(Waypoints[1])
       ELSE haveTarget' = FALSE /\ UNCHANGED <<wpt, trajVars>>

TimeToReplan(s, near) ==
  /\ ~Assigns(near)
  /\ ~Arrived
  /\ s = "REPLAN_TRAJ"
  /\ UNCHANGED <<trajVars, missionVars>>

\* Also when the goal is in collision and there is nowhere to move it.
KeepsFlying(s, near) ==
  /\ Assigns(near) \/ Arrived => MondifyGoal
  /\ s = "EXEC_TRAJ"
  /\ UNCHANGED <<trajVars, missionVars>>

ExecTraj ==
  /\ fsm = "EXEC_TRAJ"
  /\ \E s \in States, near \in Nearness :
       /\ \/ MovesGoal(s) \/ NextWaypoint(s, near) \/ Completes(s, near)
          \/ TimeToReplan(s, near) \/ KeepsFlying(s, near)
       /\ Become(s) \/ (StuckDetect /\ Halt)
  /\ UNCHANGED <<haveOdom, preAgents, failSafe, failCount, waits>>

-----------------------------------------------------------------------------
(* EMERGENCY_STOP: brake once, then wait for the drone to stand still.     *)

\* Mutant: braking is asked for again and again.
BrakeAgain == escape' = escape

BrakeDone == escape' = FALSE

EmergencyBrake ==
  /\ fsm = "EMERGENCY_STOP"
  /\ escape
  /\ BrakeDone
  /\ traj' = [goal |-> NoGoal, kind |-> "stop"]
  /\ monitored' = TRUE
  /\ progress' = "early"
  /\ UNCHANGED <<fsm, haveOdom, preAgents, failCount, waits, goal, target,
                 missionVars, needHover, failSafe, halted>>

\* Mutant: the target survives the stop.
KeepTarget == UNCHANGED <<haveTarget, haveTrigger>>

DropTarget == haveTarget' = FALSE /\ haveTrigger' = FALSE

\* The drone stands still: plan on, or wait for a new goal.
EmergencyLeave ==
  /\ fsm = "EMERGENCY_STOP"
  /\ ~escape
  /\ failSafe
  /\ needHover' = FALSE
  /\ IF needHover
       THEN fsm' = "WAIT_TARGET" /\ DropTarget
       ELSE fsm' = "GEN_NEW_TRAJ" /\ UNCHANGED <<haveTarget, haveTrigger>>
  /\ UNCHANGED <<haveOdom, preAgents, failCount, waits, trajVars, wpt, escape,
                 failSafe, halted>>

-----------------------------------------------------------------------------
(* checkCollisionCallback.                                                 *)

Checks == fsm \notin {"WAIT_TARGET", "EMERGENCY_STOP"} /\ monitored

DepthStops(lost) == fsm' = IF lost THEN "EMERGENCY_STOP" ELSE fsm

\* The trajectory ahead is free.
SafetyFree(lost) ==
  /\ Checks
  /\ DepthStops(lost)
  /\ failSafe' = (failSafe /\ ~lost)
  /\ UNCHANGED <<haveOdom, preAgents, failCount, waits, trajVars, missionVars,
                 needHover, escape, halted>>

\* It is not, and a new one is found at once; or it is not, and the machine
\* replans or stops, whichever there is time for.
SafetyDanger(lost) ==
  /\ Checks
  /\ progress # "over"
  /\ failSafe' = (failSafe /\ ~lost)
  /\ \/ Attempt(TRUE) /\ fsm' = "EXEC_TRAJ"
     \/ Attempt(FALSE) /\ fsm' \in {"EMERGENCY_STOP", "REPLAN_TRAJ"}
  /\ UNCHANGED <<haveOdom, preAgents, failCount, waits, haveTrigger, wpt,
                 needHover, escape, halted>>

-----------------------------------------------------------------------------
(* Messages.                                                               *)

MandatoryStop ==
  /\ Halt
  /\ UNCHANGED <<haveOdom, preAgents, failSafe, failCount, waits, trajVars, missionVars>>

Odometry ==
  /\ haveOdom' = TRUE
  /\ UNCHANGED <<fsm, preAgents, failCount, waits, trajVars, missionVars, stopVars>>

Trigger ==
  /\ Preset
  /\ haveTrigger' = TRUE
  /\ UNCHANGED <<fsm, haveOdom, preAgents, failCount, waits, trajVars,
                 haveTarget, wpt, stopVars>>

\* Mutant: a goal during the flight does not interrupt it.
NeverInterrupts == FALSE

Interrupts == fsm = "EXEC_TRAJ"

\* Mutant: the goal is stored but does not count as a trigger.
StoredOnly == UNCHANGED haveTrigger

Accepted == haveTrigger' = TRUE

\* A goal that can be taken at once.
GoalTaken(g) ==
  /\ ~Preset
  /\ fsm \in {"WAIT_TARGET", "EXEC_TRAJ", "EMERGENCY_STOP"}
  /\ NewGlobalTraj(g)
  /\ Accepted
  /\ fsm' = IF Interrupts THEN "REPLAN_TRAJ" ELSE fsm
  /\ halted' = (halted /\ fsm = "EMERGENCY_STOP")
  /\ UNCHANGED <<haveOdom, preAgents, failCount, waits, wpt, needHover, escape, failSafe>>

\* A goal that has to wait for a plan: the callback is suspended.
GoalWaits(g) ==
  /\ ~Preset
  /\ fsm \notin {"WAIT_TARGET", "EXEC_TRAJ", "EMERGENCY_STOP"}
  /\ waits < MaxNest
  /\ NewGlobalTraj(g)
  /\ waits' = waits + 1
  /\ UNCHANGED <<fsm, haveOdom, preAgents, failCount, haveTrigger, wpt, stopVars>>

\* The plan is there: replan for the goal that waited.
GoalWaitEnds ==
  /\ waits > 0
  /\ fsm = "EXEC_TRAJ"
  /\ fsm' = "REPLAN_TRAJ"
  /\ haveTrigger' = (haveTrigger \/ ~Preset)
  /\ waits' = waits - 1
  /\ UNCHANGED <<haveOdom, preAgents, failCount, trajVars, haveTarget, wpt, stopVars>>

\* Half a second without one.
GoalWaitTimeout ==
  /\ waits > 0
  /\ waits' = waits - 1
  /\ UNCHANGED <<fsm, haveOdom, preAgents, failCount, trajVars, missionVars, stopVars>>

\* Another drone's trajectory comes too close to the first two thirds of this
\* one's, flown or not: the check does not look at the clock.
SwarmConflict ==
  /\ Swarm
  /\ monitored
  /\ Become("REPLAN_TRAJ")
  /\ UNCHANGED <<haveOdom, preAgents, failSafe, failCount, waits, trajVars, missionVars>>

PreAgentSeen ==
  /\ Swarm
  /\ preAgents' = TRUE
  /\ UNCHANGED <<fsm, haveOdom, failCount, waits, trajVars, missionVars, stopVars>>

\* The drone flies on.
Fly ==
  /\ traj.kind # "none"
  /\ progress # "over"
  /\ progress' = IF progress = "early" THEN "late" ELSE "over"
  /\ UNCHANGED <<fsm, haveOdom, preAgents, failCount, waits, goal, target, traj,
                 monitored, missionVars, stopVars>>

-----------------------------------------------------------------------------
Exec ==
  \/ ExecInit \/ ExecWaitTarget
  \/ ExecPlanSucceeds \/ ExecPlanFails \/ ExecGoalUnsafe
  \/ ExecTraj
  \/ EmergencyBrake \/ EmergencyLeave

Safety == \E lost \in {FALSE, DepthLoss} : SafetyFree(lost) \/ SafetyDanger(lost)

Messages ==
  \/ MandatoryStop \/ Odometry \/ Trigger
  \/ \E g \in Goals : GoalTaken(g) \/ GoalWaits(g)
  \/ GoalWaitEnds \/ GoalWaitTimeout
  \/ SwarmConflict \/ PreAgentSeen

Next == Exec \/ Safety \/ Messages \/ Fly

Spec == Init /\ [][Next]_vars

(***************************************************************************)
(* Fairness.  The state machine's timer keeps firing, odometry keeps       *)
(* coming, trajectories get flown, the drone comes to a standstill once    *)
(* its trajectory is over (or is the braking one), and whoever stops the   *)
(* drone leaves off one day.                                               *)
(***************************************************************************)
StandsStill == traj.kind = "stop" \/ progress = "over"

FairSpec ==
  /\ Spec
  /\ WF_vars(ExecInit \/ ExecWaitTarget)
  /\ WF_vars(ExecPlanSucceeds \/ ExecPlanFails \/ ExecGoalUnsafe)
  /\ WF_vars(EmergencyBrake)
  /\ WF_vars(StandsStill /\ EmergencyLeave)
  /\ WF_vars(Odometry)
  /\ WF_vars(Fly)
  /\ <>[][~MandatoryStop]_vars

-----------------------------------------------------------------------------
(* What must hold.                                                         *)

TypeOK ==
  /\ fsm \in States
  /\ haveOdom \in BOOLEAN /\ haveTarget \in BOOLEAN /\ haveTrigger \in BOOLEAN
  /\ preAgents \in BOOLEAN /\ needHover \in BOOLEAN /\ escape \in BOOLEAN
  /\ failSafe \in BOOLEAN /\ monitored \in BOOLEAN /\ halted \in BOOLEAN
  /\ failCount \in 0..MaxFail
  /\ goal \in Goals \union {NoGoal}
  /\ target \in Goals \union {NoGoal, OnTheWay}
  /\ traj \in [goal : Goals \union {NoGoal}, kind : Kinds]
  /\ progress \in {"early", "late", "over"}
  /\ wpt \in 0..Len(Waypoints)
  /\ waits \in 0..MaxNest

\* Whenever the machine is executing, what is flown was planned for the latest
\* goal, and the safety check watches it: a goal that comes in mid-flight, in
\* mid-plan or while another one waits is never executed with an old plan.
ExecutesCurrentGoal ==
  fsm = "EXEC_TRAJ" => traj.goal = goal /\ traj.kind \in {"way", "arrival"} /\ monitored

\* A stop that was ordered (by message, by the stuck detector, after too many
\* failures) really brakes: its first tick replaces the trajectory.
OrderedStopBrakes ==
  fsm = "EMERGENCY_STOP" /\ needHover /\ ~escape => traj.kind = "stop"

\* After such a stop the planner "only stops ... generating new trajectories"
\* (manual_return_planner/README.md): nothing but the braking trajectory is
\* published until a new goal has been accepted.
StopHolds == [][halted /\ traj' # traj => traj'.kind = "stop"]_vars

\* The machine reports a mission complete only at the end of a trajectory that
\* reaches the goal.
CompletesAtGoal ==
  [][fsm = "EXEC_TRAJ" /\ fsm' = "WAIT_TARGET"
       => progress = "over" /\ traj = [goal |-> goal, kind |-> "arrival"]]_vars

\* A preset round is reported over only at the last waypoint, and there: the
\* arrival test does not look at the number of the waypoint, so this rests on
\* the drone being near its goal, and being sent on, whenever it has arrived.
RoundEndsLast ==
  [][Preset /\ fsm = "EXEC_TRAJ" /\ fsm' = "WAIT_TARGET"
       => wpt = Len(Waypoints) /\ (~MondifyGoal => traj.goal = Waypoints[wpt])]_vars

\* An emergency stop ends unless the fail safe is off.
EmergencyEnds == (fsm = "EMERGENCY_STOP" /\ failSafe) ~> (fsm # "EMERGENCY_STOP")

\* Planning does not go on for ever: it succeeds or ends in a stop.
PlanningDecides ==
  Planning ~> (fsm \in {"EXEC_TRAJ", "EMERGENCY_STOP", "WAIT_TARGET"})

\* A goal that is kept while the machine waits for one is taken up.  With
\* realworld_experiment, as on the real drones, that takes its trigger: a goal
\* whose callback timed out before the first odometry was never accepted, and
\* waits until another one is.
GoalTakenUp ==
  (fsm = "WAIT_TARGET" /\ haveTarget /\ (RealWorld => haveTrigger))
    ~> (fsm # "WAIT_TARGET")
=============================================================================
