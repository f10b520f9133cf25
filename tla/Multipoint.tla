----------------------------- MODULE Multipoint -----------------------------
(***************************************************************************)
(* The multi-waypoint mission, multipointplan.cpp: it sends the planner    *)
(* one waypoint after the other, waits and turns where asked to, and may   *)
(* land at the last; a button of the remote control steps through takeoff, *)
(* start, back and land.                                                   *)
(*                                                                         *)
(* The node is one thread.  Its timer callback Point_send sleeps or spins  *)
(* in its middle, with the timer stopped, and other callbacks run there;   *)
(* pc tells where in Point_send the thread is.  Variables of the callback  *)
(* computed before such a place are used after it.                         *)
(*                                                                         *)
(* Data: a waypoint is its position and whether to wait there; within      *)
(* next_distance of a position is at it.  Yaw angles decide only whether   *)
(* to turn, and yaw commands, which nothing here reads, are left out, as   *)
(* are button presses ignored for coming too soon.  Plans are never empty  *)
(* when used, so the test at :244 never succeeds.                          *)
(*                                                                         *)
(* The planner, px4ctrl and the pilot are outside.  The planner flies to   *)
(* the point it is sent at a height of its own, which it reports to nobody *)
(* (goals outside its fence, which it ignores, are left out), and may move *)
(* it out of an obstacle, which it reports.  Arrival is measured here, in  *)
(* all three coordinates, against the point as sent or as reported.        *)
(***************************************************************************)
EXTENDS Integers, Sequences

CONSTANTS
  Pos,            \* positions
  NoPos,
  Level,          \* a position at the planner's height of one metre
  Clear,          \* where the planner moves goals that are in an obstacle
  StartPoints,    \* start_pytVector, from the file
  BackPoints,     \* back_pytVector
  YawAlign        \* enable_yaw_align

ASSUME PosAssumption ==
  NoPos \notin Pos /\ Clear \subseteq Pos /\ Level \in [Pos -> Pos]

Waypoint == [pos : Pos, waits : BOOLEAN]

ASSUME PlanAssumption ==
  /\ StartPoints \in Seq(Waypoint)
  /\ BackPoints \in Seq(Waypoint)
  /\ YawAlign \in BOOLEAN

VARIABLES
  auto_planning, auto_landing,  \* parameters, read once
  trigger,        \* a mission is on
  pytVector,      \* its waypoints
  counts,         \* how many of them were sent
  modified_goals, \* by index, from 0; NoPos where there is none
  near,           \* distance_ < next_distance, when last computed
  counts_pre,     \* its local, 0 outside: the waypoint being flown to
  pc,             \* where Point_send is
  odom,           \* odom_pos_
  px4,            \* px4_historical_status, the state of px4ctrl
  rc_step,        \* what the next press of the button does
  plans,          \* start and back commands on their way to this node
  reports,        \* goals the planner moved, on their way to this node
  target,         \* the planner's goal, moved or not
  vehicle,        \* where the vehicle is
  levelled,       \* history: that is not the goal last sent, but below or above
  reached,        \* history: it has been at the goal last sent
  misled          \* history: a report was taken for the wrong waypoint

missionVars == <<trigger, pytVector, counts, modified_goals, near, counts_pre>>
params == <<auto_planning, auto_landing>>
outside == <<target, vehicle>>
history == <<levelled, reached, misled>>
vars == <<params, missionVars, pc, odom, px4, rc_step, plans, reports, outside, history>>

Px4States == {"MANUAL_CTRL", "AUTO_TAKEOFF", "AUTO_HOVER", "CMD_CTRL", "AUTO_LAND"}
Steps == {"TAKEOFF", "MOVE", "BACK", "LAND"}
Size == Len(pytVector)
MaxSize == IF Len(StartPoints) > Len(BackPoints) THEN Len(StartPoints) ELSE Len(BackPoints)

Init ==
  /\ auto_planning \in BOOLEAN /\ auto_landing \in BOOLEAN
  /\ trigger = FALSE
  /\ pytVector = <<>>
  /\ counts = 0
  /\ modified_goals = [i \in 0..MaxSize - 1 |-> NoPos]
  /\ near = FALSE
  /\ counts_pre = 0
  /\ pc = "spin"
  /\ odom \in Pos
  /\ px4 = "MANUAL_CTRL"
  /\ rc_step = "TAKEOFF"
  /\ plans = <<>> /\ reports = <<>>
  /\ target = NoPos
  /\ vehicle = odom
  /\ levelled = FALSE /\ reached = FALSE /\ misled = FALSE

\* Callbacks run while the thread spins, in ros::spin or inside Point_send.
Listening == pc \in {"spin", "turnFirst", "wait", "turn"}

\* getCurrentTargetPoint
CurrentTarget(i) ==
  IF modified_goals[i] # NoPos THEN modified_goals[i] ELSE pytVector[i + 1].pos

\* A flight takes seconds, odometry comes a hundred times in one: whenever
\* Point_send goes on it has heard where the vehicle is.
OdomFresh == odom = vehicle

-----------------------------------------------------------------------------
(* Point_send, in the pieces between which callbacks or time may pass.     *)

\* waypointCallback of the planner: z := 1, whatever the height sent.
Received(p) == Level[p]

\* The planner takes the goal; a report still on its way is for the one before.
SendGoal(i) ==
  /\ target' = Received(CurrentTarget(i))
  /\ levelled' = (target' # CurrentTarget(i))
  /\ reached' = (vehicle = CurrentTarget(i))
  /\ reports' = [k \in DOMAIN reports |-> [reports[k] EXCEPT !.late = TRUE]]
  /\ misled' = FALSE
  /\ UNCHANGED vehicle

PointSend ==
  /\ pc = "spin"
  /\ trigger
  /\ OdomFresh
  /\ \/ counts = 0 /\ pc' = "first"
     \/ counts = 0 /\ YawAlign /\ pc' = "turnFirst"
     \/ counts > 0 /\ pc' = "check"
  /\ UNCHANGED <<params, missionVars, odom, px4, rc_step, plans, reports, outside, history>>

TurnedFirst ==
  /\ pc = "turnFirst"
  /\ OdomFresh
  /\ pc' = "first"
  /\ UNCHANGED <<params, missionVars, odom, px4, rc_step, plans, reports, outside, history>>

SendFirst ==
  /\ pc = "first"
  /\ SendGoal(0)
  /\ counts' = counts + 1
  /\ pc' = "check"
  /\ UNCHANGED <<params, trigger, pytVector, modified_goals, near, counts_pre, odom, px4, rc_step, plans>>

\* Mutant: measured to the waypoint as it was in the file.
NearUnmoved(i) == odom = pytVector[i + 1].pos

Near(i) == odom = CurrentTarget(i)

\* At a waypoint with another one to come: wait and turn there if asked to.
CheckArrival ==
  /\ pc = "check"
  /\ counts_pre' = counts - 1
  /\ near' = Near(counts - 1)
  /\ IF near' /\ counts < Size
       THEN \/ pytVector[counts].waits /\ pc' = "wait"
            \/ ~pytVector[counts].waits /\ pc' = "next"
            \/ ~pytVector[counts].waits /\ YawAlign /\ pc' = "turn"
       ELSE pc' = "end"
  /\ UNCHANGED <<params, trigger, pytVector, counts, modified_goals, odom, px4, rc_step, plans, reports, outside, history>>

Waited ==
  /\ pc = "wait"
  /\ OdomFresh
  /\ \/ pc' = "next"
     \/ YawAlign /\ pc' = "turn"
  /\ UNCHANGED <<params, missionVars, odom, px4, rc_step, plans, reports, outside, history>>

Turned ==
  /\ pc = "turn"
  /\ OdomFresh
  /\ pc' = "next"
  /\ UNCHANGED <<params, missionVars, odom, px4, rc_step, plans, reports, outside, history>>

\* counts may have been reset by a new plan since the arrival was found.
SendNext ==
  /\ pc = "next"
  /\ SendGoal(counts)
  /\ counts' = counts + 1
  /\ pc' = "end"
  /\ UNCHANGED <<params, trigger, pytVector, modified_goals, near, counts_pre, odom, px4, rc_step, plans>>

\* Mutant: the last waypoint is taken for one past the end.
FinalPast == counts_pre = Size

\* As of the arrival test, in the list as it is now.
AtFinal == counts_pre = Size - 1 /\ near

\* Land, at last.  distance_ is not read again before it is computed again.
EndTick ==
  /\ pc = "end"
  /\ pc' = "spin"
  /\ counts_pre' = 0
  /\ near' = FALSE
  /\ IF AtFinal /\ auto_landing /\ px4 = "AUTO_HOVER"
       THEN trigger' = FALSE /\ px4' = "AUTO_LAND"
       ELSE UNCHANGED <<trigger, px4>>
  /\ UNCHANGED <<params, pytVector, counts, modified_goals, odom, rc_step, plans, reports, outside, history>>

-----------------------------------------------------------------------------
(* The other callbacks.                                                    *)

OdomGoalCb ==
  /\ Listening
  /\ odom' = vehicle
  /\ UNCHANGED <<params, missionVars, pc, px4, rc_step, plans, reports, outside, history>>

\* A command topic this node both publishes and hears; the newest counts.
Command(plan) == plans' = <<plan>>

\* Mutant: the new plan goes on counting where the old one was.
CountOn == counts

CountAnew == 0

\* startplan_cb and backplan_cb
TakePlan ==
  /\ Listening
  /\ plans # <<>>
  /\ plans' = Tail(plans)
  /\ LET points == IF Head(plans) = "start" THEN StartPoints ELSE BackPoints
     IN  IF points = <<>>
           THEN UNCHANGED <<missionVars, history>>
           ELSE /\ pytVector' = points
                /\ counts' = CountAnew
                /\ trigger' = TRUE
                /\ UNCHANGED <<modified_goals, near, counts_pre, history>>
  /\ UNCHANGED <<params, pc, odom, px4, rc_step, reports, outside>>

GoalModifiedCallback ==
  /\ Listening
  /\ reports # <<>>
  /\ reports' = Tail(reports)
  /\ LET i == counts - 1
     IN  IF i < 0 \/ i >= Size
           THEN UNCHANGED <<missionVars, history>>
           ELSE /\ modified_goals' = [modified_goals EXCEPT ![i] = Head(reports).pos]
                /\ near' = (pc \in {"wait", "turn"} /\ Head(reports).pos = odom)
                /\ misled' = (misled \/ Head(reports).late)
                /\ UNCHANGED <<trigger, pytVector, counts, counts_pre, levelled, reached>>
  /\ UNCHANGED <<params, pc, odom, px4, rc_step, plans, outside>>

RcUnchanged == UNCHANGED <<params, missionVars, pc, odom, reports, outside, history>>

RcTakeoff ==
  /\ Listening
  /\ rc_step = "TAKEOFF" /\ px4 # "AUTO_HOVER"
  /\ rc_step' = "MOVE"
  /\ px4' = IF px4 = "MANUAL_CTRL" THEN "AUTO_TAKEOFF" ELSE px4
  /\ UNCHANGED plans
  /\ RcUnchanged

RcMove ==
  /\ Listening
  /\ rc_step = "MOVE" /\ px4 = "AUTO_HOVER" /\ ~auto_planning
  /\ rc_step' = "BACK"
  /\ Command("start")
  /\ UNCHANGED px4
  /\ RcUnchanged

RcBack ==
  /\ Listening
  /\ rc_step = "BACK" /\ px4 \in {"CMD_CTRL", "AUTO_HOVER"} /\ ~auto_planning
  /\ rc_step' = "LAND"
  /\ Command("back")
  /\ UNCHANGED px4
  /\ RcUnchanged

RcLand ==
  /\ Listening
  /\ rc_step = "LAND" /\ px4 = "AUTO_HOVER" /\ ~auto_landing
  /\ rc_step' = "TAKEOFF"
  /\ px4' = "AUTO_LAND"
  /\ UNCHANGED plans
  /\ RcUnchanged

-----------------------------------------------------------------------------
(* Outside the node.  A piece of Point_send takes no time a flight could   *)
(* be measured in and shares nothing with what happens outside but the     *)
(* messages it sends, so these steps are interleaved with callbacks only.  *)

UserCommands(plan) ==
  /\ Listening
  /\ Command(plan)
  /\ UNCHANGED <<params, missionVars, pc, odom, px4, rc_step, reports, outside, history>>

\* The goal is in an obstacle: the planner flies elsewhere and says so.
PlannerMovesGoal(p) ==
  /\ Listening
  /\ target # NoPos /\ vehicle # target
  /\ p # target
  /\ reports = <<>>
  /\ target' = p
  /\ reports' = <<[pos |-> p, late |-> FALSE]>>
  /\ levelled' = FALSE
  /\ reached' = (reached \/ vehicle = p)
  /\ UNCHANGED <<params, missionVars, pc, odom, px4, rc_step, plans, vehicle, misled>>

\* px4_mode_cb: a state message, and a change of state heard at once.
Px4ModeCb(from, to) ==
  /\ Listening
  /\ px4 = from
  /\ px4' = to
  /\ IF from = "AUTO_TAKEOFF" /\ to = "AUTO_HOVER" /\ auto_planning
       THEN Command("start") ELSE UNCHANGED plans
  /\ UNCHANGED <<params, missionVars, pc, odom, rc_step, reports, outside, history>>

TakeoffEnds == Px4ModeCb("AUTO_TAKEOFF", "AUTO_HOVER")
LandingEnds == Px4ModeCb("AUTO_LAND", "MANUAL_CTRL")
PilotTakesOver == \E s \in Px4States \ {"MANUAL_CTRL"} : Px4ModeCb(s, "MANUAL_CTRL")
PilotHandsBack == Px4ModeCb("MANUAL_CTRL", "AUTO_HOVER")

\* px4ctrl follows setpoints while there are any.
CommandsBegin == target # NoPos /\ vehicle # target /\ Px4ModeCb("AUTO_HOVER", "CMD_CTRL")
CommandsEnd == vehicle = target /\ Px4ModeCb("CMD_CTRL", "AUTO_HOVER")

VehicleMoves ==
  /\ Listening
  /\ px4 = "CMD_CTRL" /\ vehicle # target
  /\ vehicle' = target
  /\ reached' = (reached \/ ~levelled)
  /\ UNCHANGED <<params, missionVars, pc, odom, px4, rc_step, plans, reports, target, levelled, misled>>

-----------------------------------------------------------------------------
Point_send == PointSend \/ TurnedFirst \/ SendFirst \/ CheckArrival \/ Waited \/ Turned \/ SendNext \/ EndTick
RcCb == RcTakeoff \/ RcMove \/ RcBack \/ RcLand
Pilot == PilotTakesOver \/ PilotHandsBack
Px4Flies == TakeoffEnds \/ LandingEnds \/ CommandsBegin \/ CommandsEnd

Next ==
  \/ Point_send
  \/ OdomGoalCb \/ TakePlan \/ GoalModifiedCallback
  \/ RcCb
  \/ \E plan \in {"start", "back"} : UserCommands(plan)
  \/ \E p \in Clear : PlannerMovesGoal(p)
  \/ Px4Flies \/ Pilot
  \/ VehicleMoves

Spec == Init /\ [][Next]_vars

MovesGoal == \E p \in Clear : PlannerMovesGoal(p)
Hears == OdomGoalCb \/ GoalModifiedCallback
Flies == CommandsBegin \/ CommandsEnd \/ VehicleMoves

(***************************************************************************)
(* Fairness.  The node's thread runs and its messages get their turn       *)
(* among each other, px4ctrl and the vehicle follow the planner again and  *)
(* again if they are let, and one day the planner leaves its goal where it *)
(* is and no new plan is taken.  Nothing is assumed of the pilot and of    *)
(* the button.                                                             *)
(***************************************************************************)
FairSpec ==
  /\ Spec
  /\ WF_vars(Point_send)
  /\ SF_vars(Hears)
  /\ SF_vars(Flies)
  /\ <>[][~MovesGoal /\ ~TakePlan]_vars

-----------------------------------------------------------------------------
(* What must hold.                                                         *)

TypeOK ==
  /\ auto_planning \in BOOLEAN /\ auto_landing \in BOOLEAN /\ trigger \in BOOLEAN
  /\ pytVector \in {<<>>, StartPoints, BackPoints}
  /\ counts \in 0..Size
  /\ modified_goals \in [0..MaxSize - 1 -> Pos \union {NoPos}]
  /\ near \in BOOLEAN
  /\ counts_pre \in 0..MaxSize
  /\ pc \in {"spin", "turnFirst", "first", "check", "wait", "turn", "next", "end"}
  /\ odom \in Pos /\ vehicle \in Pos /\ target \in Pos \union {NoPos}
  /\ px4 \in Px4States
  /\ rc_step \in Steps
  /\ plans \in Seq({"start", "back"}) /\ Len(plans) <= 1
  /\ reports \in Seq([pos : Pos, late : BOOLEAN]) /\ Len(reports) <= 1

\* Types; and Point_send uses an index after callbacks have run in its middle: a
\* plan that replaced the list meanwhile, a shorter one included, leaves it in
\* range.
IndexInRange ==
  /\ TypeOK
  /\ pc \in {"wait", "turn", "next"} => counts < Size
  /\ pc \in {"turnFirst", "first"} => counts = 0 /\ Size > 0
  /\ pc = "check" => counts \in 1..Size

\* The next waypoint of a plan is sent only when the drone has been at the one
\* before, as sent or where the planner had moved it, unless a report that came
\* late was stored for the wrong waypoint.
NoWaypointSkipped ==
  [][pc = "next" /\ counts > 0 /\ pc' = "end" => reached \/ misled]_vars

Airborne == px4 \in {"AUTO_HOVER", "CMD_CTRL"}

\* With auto_landing a mission comes to its end, through waits, turns, moved
\* goals and changes of plan, unless somebody takes the drone down, a report
\* was stored for the wrong waypoint, or a waypoint is not at the planner's
\* height: there the drone hovers below or above it and nobody is told.
MissionEnds ==
  (auto_landing /\ trigger /\ Airborne) ~> (~trigger \/ ~Airborne \/ misled \/ levelled)
=============================================================================
