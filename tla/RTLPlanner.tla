----------------------------- MODULE RTLPlanner -----------------------------
(***************************************************************************)
(* The breadcrumb return, rtl_planner.cpp, and what it needs of the        *)
(* planner.  In flight the node drops breadcrumbs; on a trigger it stops   *)
(* the planner, waits a fixed time and flies back from one to the next by  *)
(* sending goals, again every second; at Home it lands and starts anew.    *)
(*                                                                         *)
(* The planner (diff_replan_fsm.cpp) is here what matters of it: it flies  *)
(* to its goal at a height of its own, or beside it when that is in an     *)
(* obstacle, and reports neither to this node; it stops when told or in    *)
(* danger; and leaving the stop it drops whatever goal it had, one sent    *)
(* during the stop included.  Users send it goals, and the pilot may fly.  *)
(*                                                                         *)
(* Data: the drone flies along a corridor, which may rise, positions are   *)
(* numbers on it and a flight is made of steps of one.  Arrival is         *)
(* measured to the breadcrumb as recorded.  Heading is free: at any        *)
(* message it may have turned far enough.  The fixed wait and the second   *)
(* between two goals may be over at any moment.  rtl_active_ holds just    *)
(* when the state is not IDLE.                                             *)
(***************************************************************************)
EXTENDS Integers, SequencesExt

CONSTANTS
  Far,          \* the end of the corridor
  Home,         \* home_pos_, one metre high
  Goals,        \* where users send the drone
  Level,        \* a place at the planner's height of one metre
  Blocked,      \* places the map takes for an obstacle
  Dist,         \* breadcrumb_dist_
  Arrival,      \* arrival_threshold_: nearer than that is there
  AutoLand      \* auto_land_

Pos == 0..Far
None == -1

ASSUME CorridorAssumption ==
  /\ Far \in Nat /\ Home \in Pos /\ Goals \subseteq Pos /\ Blocked \subseteq Pos
  /\ Level \in [Pos -> Pos] /\ Level[Home] = Home
  /\ Dist \in Nat \ {0} /\ Arrival \in Nat \ {0}
  /\ AutoLand \in BOOLEAN

\* A half metre and six in the code.
ASSUME ArrivalAssumption == Arrival <= Dist

VARIABLES
  state,            \* state_
  home_recorded,
  breadcrumbs,
  last_record_pos,
  rtl_idx,          \* counts from 0, below 0 past Home
  current_goal,
  odom,             \* odom_pos_
  stopped,          \* planner: EMERGENCY_STOP
  goal,             \* planner: its goal, or None
  landing,          \* px4ctrl: landing or landed
  vehicle           \* where the drone is

rtlVars == <<state, home_recorded, breadcrumbs, last_record_pos, rtl_idx, current_goal, odom>>
vars == <<rtlVars, stopped, goal, landing, vehicle>>

Gap(p, q) == IF p < q THEN q - p ELSE p - q

Init ==
  /\ state = "IDLE"
  /\ home_recorded = FALSE
  /\ breadcrumbs = <<>>
  /\ last_record_pos = Home
  /\ rtl_idx = 0
  /\ current_goal = None
  /\ odom = Home
  /\ stopped = FALSE
  /\ goal = None
  /\ landing = FALSE
  /\ vehicle = Home

-----------------------------------------------------------------------------
(* odomCallback: position, then Home, truncation or a new breadcrumb.      *)

HomeRecorded ==
  /\ ~home_recorded
  /\ home_recorded' = TRUE
  /\ odom' = vehicle
  /\ breadcrumbs' = Append(breadcrumbs, Home)
  /\ UNCHANGED <<state, last_record_pos, rtl_idx, current_goal, stopped, goal, landing, vehicle>>

\* Mutant: the last two breadcrumbs are left out.
NearButTwo(p) == {i \in 1..Len(breadcrumbs) - 2 : 2 * Gap(p, breadcrumbs[i]) < Dist}

\* Breadcrumbs, but for the last, that are near: the drone has come back.
Near(p) == {i \in 1..Len(breadcrumbs) - 1 : 2 * Gap(p, breadcrumbs[i]) < Dist}

\* resize(i + 1)
Truncated(n) == SubSeq(breadcrumbs, 1, n)

ComesBack ==
  /\ state = "IDLE" /\ home_recorded
  /\ odom' = vehicle
  /\ \E i \in Near(vehicle) :
       /\ \A k \in Near(vehicle) : i <= k
       /\ breadcrumbs' = Truncated(i)
  /\ last_record_pos' = vehicle
  /\ UNCHANGED <<state, home_recorded, rtl_idx, current_goal, stopped, goal, landing, vehicle>>

\* Mutant: breadcrumbs need not be that dense.
MovedTwice(p) == Gap(p, last_record_pos) > 2 * Dist

MovedEnough(p) == Gap(p, last_record_pos) > Dist

\* recordBreadcrumb, with whether the heading has turned.
Records(turned) ==
  /\ state = "IDLE" /\ home_recorded
  /\ Near(vehicle) = {}
  /\ turned \/ MovedEnough(vehicle)
  /\ odom' = vehicle
  /\ breadcrumbs' = Append(breadcrumbs, vehicle)
  /\ last_record_pos' = vehicle
  /\ UNCHANGED <<state, home_recorded, rtl_idx, current_goal, stopped, goal, landing, vehicle>>

OdomOnly ==
  /\ home_recorded
  /\ state = "IDLE" => Near(vehicle) = {} /\ ~MovedEnough(vehicle)
  /\ odom' = vehicle
  /\ UNCHANGED <<state, home_recorded, breadcrumbs, last_record_pos, rtl_idx, current_goal,
                 stopped, goal, landing, vehicle>>

OdomCallback ==
  \/ HomeRecorded \/ ComesBack \/ OdomOnly
  \/ \E turned \in BOOLEAN : Records(turned)

-----------------------------------------------------------------------------
(* The trigger and the timer.                                              *)

\* rtlTriggerCallback and startRTL; mandatoryStopCallback of the planner.
Trigger ==
  /\ state = "IDLE"
  /\ breadcrumbs # <<>>
  /\ state' = "RTL_STOPPING"
  /\ rtl_idx' = Len(breadcrumbs) - 1
  /\ stopped' = TRUE
  /\ UNCHANGED <<home_recorded, breadcrumbs, last_record_pos, current_goal, odom, goal, landing, vehicle>>

\* waypointCallback of the planner: z := 1, whatever the height sent.
Received(p) == Level[p]

\* The stop was long enough, for all this node knows.
ExecStart ==
  /\ state = "RTL_STOPPING"
  /\ state' = "RTL_EXECUTING"
  /\ current_goal' = breadcrumbs[rtl_idx + 1]
  /\ goal' = Received(current_goal')
  /\ UNCHANGED <<home_recorded, breadcrumbs, last_record_pos, rtl_idx, odom, stopped, landing, vehicle>>

\* Mutant: one goal is enough.
SentOnce == goal

SentAgain == Received(current_goal)

ThereYet == Gap(breadcrumbs[rtl_idx + 1], odom) < Arrival

ExecResend ==
  /\ state = "RTL_EXECUTING" /\ rtl_idx >= 0 /\ ~ThereYet
  /\ goal' = SentAgain
  /\ UNCHANGED <<rtlVars, stopped, landing, vehicle>>

\* On to the breadcrumb before; after the first, which is Home, to Home.
ExecArrives ==
  /\ state = "RTL_EXECUTING" /\ rtl_idx >= 0 /\ ThereYet
  /\ rtl_idx' = rtl_idx - 1
  /\ current_goal' = IF rtl_idx > 0 THEN breadcrumbs[rtl_idx] ELSE Home
  /\ goal' = Received(current_goal')
  /\ UNCHANGED <<state, home_recorded, breadcrumbs, last_record_pos, odom, stopped, landing, vehicle>>

\* Mutant: the first breadcrumb is not flown to.
LastButOne == rtl_idx <= 0

PastHome == rtl_idx < 0

ExecCompletes ==
  /\ state = "RTL_EXECUTING" /\ PastHome
  /\ goal' \in {goal, Received(current_goal)}
  /\ landing' = (landing \/ AutoLand)
  /\ breadcrumbs' = <<Home>>
  /\ last_record_pos' = Home
  /\ state' = "IDLE"
  /\ UNCHANGED <<home_recorded, rtl_idx, current_goal, odom, stopped, vehicle>>

-----------------------------------------------------------------------------
(* The planner, the drone and its users.                                   *)

\* EMERGENCY_STOP ends at a standstill and drops the target.
PlannerLeavesStop ==
  /\ stopped
  /\ stopped' = FALSE
  /\ goal' = None
  /\ UNCHANGED <<rtlVars, landing, vehicle>>

\* The safety check found a danger it could not plan around.
PlannerEmergency ==
  /\ goal # None
  /\ stopped' = TRUE
  /\ UNCHANGED <<rtlVars, goal, landing, vehicle>>

UserGoal(p) ==
  /\ goal' = Received(p)
  /\ UNCHANGED <<rtlVars, stopped, landing, vehicle>>

\* mondifyInCollisionFinalGoal: a goal in an obstacle is replaced by a free
\* place on the way, of which this node hears nothing.
PlannerMovesGoal(p) ==
  /\ goal \in Blocked
  /\ p \notin Blocked
  /\ goal' = p
  /\ UNCHANGED <<rtlVars, stopped, landing, vehicle>>

\* Odometry comes before take-off and then more often than the drone moves a
\* step; so does the timer, which needs one tick from the arrival at Home to the end.
MayMove ==
  /\ ~landing
  /\ odom = vehicle /\ home_recorded
  /\ ~(state = "RTL_EXECUTING" /\ rtl_idx < 0)

VehicleMoves ==
  /\ MayMove
  /\ ~stopped
  /\ goal # None /\ goal # vehicle
  /\ vehicle' = IF goal > vehicle THEN vehicle + 1 ELSE vehicle - 1
  /\ UNCHANGED <<rtlVars, stopped, goal, landing>>

\* To where no goal leads: above or below the planner's height, or close to
\* what the map takes for an obstacle.
PilotFlies(p) ==
  /\ MayMove
  /\ Gap(p, vehicle) = 1
  /\ vehicle' = p
  /\ UNCHANGED <<rtlVars, stopped, goal, landing>>

TakesOff ==
  /\ landing
  /\ landing' = FALSE
  /\ UNCHANGED <<rtlVars, stopped, goal, vehicle>>

-----------------------------------------------------------------------------
Exec == ExecStart \/ ExecResend \/ ExecArrives \/ ExecCompletes

Next ==
  \/ OdomCallback
  \/ Trigger
  \/ Exec
  \/ PlannerLeavesStop \/ PlannerEmergency
  \/ \E p \in Goals : UserGoal(p)
  \/ \E p \in Pos : PlannerMovesGoal(p)
  \/ VehicleMoves
  \/ \E p \in Pos : PilotFlies(p)
  \/ TakesOff

Spec == Init /\ [][Next]_vars

(***************************************************************************)
(* Fairness.  The node's timer fires, odometry comes, the planner leaves a *)
(* stop once the drone stands and flies to its goal when it has one, and   *)
(* one day it meets no more danger and users and pilot leave it alone.  A  *)
(* landed drone takes off again if a return is asked for.                  *)
(***************************************************************************)
Disturbed ==
  PlannerEmergency \/ (\E p \in Goals : UserGoal(p)) \/ (\E p \in Pos : PilotFlies(p))

FairSpec ==
  /\ Spec
  /\ WF_vars(OdomCallback)
  /\ WF_vars(ExecStart) /\ WF_vars(ExecResend) /\ WF_vars(ExecArrives) /\ WF_vars(ExecCompletes)
  /\ WF_vars(PlannerLeavesStop)
  /\ WF_vars(VehicleMoves)
  /\ WF_vars(TakesOff)
  /\ <>[][~Disturbed]_vars

-----------------------------------------------------------------------------
(* What must hold.                                                         *)

TypeOK ==
  /\ state \in {"IDLE", "RTL_STOPPING", "RTL_EXECUTING"}
  /\ home_recorded \in BOOLEAN
  /\ breadcrumbs \in Seq(Pos)
  /\ last_record_pos \in Pos /\ odom \in Pos /\ vehicle \in Pos
  /\ rtl_idx \in Int
  /\ state # "IDLE" => rtl_idx \in -1..Len(breadcrumbs) - 1
  /\ current_goal \in Pos \union {None} /\ goal \in Pos \union {None}
  /\ stopped \in BOOLEAN /\ landing \in BOOLEAN

\* Half as long again as the distance between breadcrumbs, for the drone may
\* have come back to the side of one.
LegLimit(p, q) == 2 * Gap(p, q) < 3 * Dist + 2

\* Types; and from wherever a return may be triggered the breadcrumbs lead to
\* Home by legs of bounded length, after truncations and earlier returns, too.
TrailLeadsHome ==
  /\ TypeOK
  /\ home_recorded =>
       /\ breadcrumbs # <<>> /\ breadcrumbs[1] = Home
       /\ \A i \in 1..Len(breadcrumbs) - 1 : LegLimit(breadcrumbs[i], breadcrumbs[i + 1])
       /\ state = "IDLE" => LegLimit(odom, Last(breadcrumbs))

\* A return does not visit one place twice: breadcrumbs that do not follow each
\* other are apart, whatever loops were flown.
TrailApart ==
  \A i, j \in 1..Len(breadcrumbs) :
    i + 1 < j => 2 * Gap(breadcrumbs[i], breadcrumbs[j]) >= Dist

\* The drone lands at Home, give or take a step that somebody else made it fly.
LandsAtHome == [][ExecCompletes => Gap(vehicle, Home) <= Arrival]_vars

\* The breadcrumb flown to is one the planner does not fly to: it was dropped too
\* far above or below the planner's height, or where there is an obstacle now.
OutOfReach ==
  /\ state # "IDLE" /\ rtl_idx >= 0
  /\ LET b == breadcrumbs[rtl_idx + 1]
     IN  Received(b) \in Blocked \/ Gap(Received(b), b) >= Arrival

\* A return ends, although the planner drops goals that reach it too early or
\* before a stop of its own, and users send it elsewhere, unless it comes to a
\* breadcrumb out of the planner's reach: there it goes on sending for ever.
ReturnEnds == (state # "IDLE") ~> (state = "IDLE" \/ OutOfReach)
=============================================================================
