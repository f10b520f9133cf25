-------------------------- MODULE MultipointProofs --------------------------
(***************************************************************************)
(* The mission, for every plan, every position and every way the planner   *)
(* moves goals: Point_send uses indices in range, although plans change    *)
(* in its middle, and sends no waypoint before the one it follows.         *)
(***************************************************************************)
EXTENDS Multipoint, SequenceTheorems, TLAPS

\* A mission that is on has waypoints, and setpoints come from a planner with
\* a goal.
IndexInv ==
  /\ IndexInRange
  /\ trigger => Size > 0
  /\ px4 = "CMD_CTRL" => target # NoPos

LateReport == reports = <<>> \/ Head(reports).late

\* The goal the planner flies to is the waypoint last sent as this node knows
\* it, the point one metre high below or above that, or the place a report still
\* on its way tells of.  A drone at the waypoint is there or came there since it
\* was sent.
RouteInv ==
  counts > 0 /\ ~misled =>
    LET here == CurrentTarget(counts - 1)
    IN  /\ target \in Pos
        /\ levelled => target # here
        /\ vehicle = target /\ ~levelled => reached
        /\ vehicle = here => reached
        /\ LateReport => target = IF levelled THEN Level[here] ELSE here
        /\ ~LateReport => target = Head(reports).pos /\ ~levelled

\* What Point_send measures arrival with is where the vehicle is.
FreshInv == pc \in {"first", "check"} => OdomFresh

\* While it waits or turns at a waypoint the vehicle has been there.
ArrivedInv ==
  pc \in {"wait", "turn", "next"} /\ counts > 0 /\ ~misled => reached

Inv == IndexInv /\ RouteInv /\ FreshInv /\ ArrivedInv

-----------------------------------------------------------------------------
(* Plans and indices.                                                      *)

\* A plan is no longer than the longer of the two.
LEMMA PlanFacts ==
  /\ MaxSize \in Nat
  /\ \A p \in {<<>>, StartPoints, BackPoints} :
       p \in Seq(Waypoint) /\ Len(p) \in Nat /\ Len(p) <= MaxSize
BY PlanAssumption DEF MaxSize

LEMMA TargetType ==
  ASSUME TypeOK, NEW i \in 0..Size - 1
  PROVE  CurrentTarget(i) \in Pos
<1>1. i \in 0..MaxSize - 1 /\ i + 1 \in 1..Len(pytVector) /\ pytVector \in Seq(Waypoint)
  BY PlanFacts DEF TypeOK, Size
<1>2. pytVector[i + 1] \in Waypoint  BY <1>1
<1>3. pytVector[i + 1].pos \in Pos  BY <1>2 DEF Waypoint
<1>4. modified_goals[i] \in Pos \union {NoPos}  BY <1>1 DEF TypeOK
<1> QED  BY <1>3, <1>4 DEF CurrentTarget

LEMMA TailShort ==
  ASSUME NEW S, NEW s \in Seq(S), s # <<>>, Len(s) <= 1
  PROVE  Head(s) \in S /\ Tail(s) \in Seq(S) /\ Len(Tail(s)) <= 1
BY HeadTailProperties

LEMMA CommandType ==
  ASSUME NEW plan \in {"start", "back"}, Command(plan)
  PROVE  plans' \in Seq({"start", "back"}) /\ Len(plans') <= 1
BY DEF Command

LEMMA IndexInit == Init => IndexInv
<1> SUFFICES ASSUME Init PROVE IndexInv
  OBVIOUS
<1>1. Size = 0  BY DEF Init, Size
<1>2. plans \in Seq({"start", "back"}) /\ Len(plans) <= 1
      /\ reports \in Seq([pos : Pos, late : BOOLEAN]) /\ Len(reports) <= 1
  BY DEF Init
<1>3. modified_goals \in [0..MaxSize - 1 -> Pos \union {NoPos}]  BY DEF Init
<1>4. counts \in 0..Size /\ counts_pre \in 0..MaxSize
  <2>1. MaxSize \in Nat  BY PlanFacts
  <2> QED  BY <1>1, <2>1 DEF Init
<1>5. px4 \in Px4States /\ rc_step \in Steps
  BY DEF Init, Px4States, Steps
<1>6. TypeOK
  <2> HIDE DEF Px4States, Steps
  <2> QED  BY <1>2, <1>3, <1>4, <1>5, Zenon DEF Init, TypeOK
<1> QED  BY <1>1, <1>6 DEF Init, IndexInv, IndexInRange

\* A goal sent is a waypoint of the plan as it is now.
LEMMA SendGoalType ==
  ASSUME TypeOK, NEW i \in 0..Size - 1, SendGoal(i)
  PROVE  /\ target' \in Pos /\ target' # NoPos /\ vehicle' = vehicle
         /\ reports' \in Seq([pos : Pos, late : BOOLEAN]) /\ Len(reports') <= 1
         /\ Len(reports') = Len(reports)
         /\ \A k \in 1..Len(reports') : reports'[k].late
<1> DEFINE Report == [pos : Pos, late : BOOLEAN]
<1>1. reports \in Seq(Report) /\ Len(reports) <= 1
  BY DEF TypeOK
<1>2. \A r \in Report : [r EXCEPT !.late = TRUE] \in Report /\ [r EXCEPT !.late = TRUE].late
  OBVIOUS
<1>3. reports' = [k \in DOMAIN reports |-> [reports[k] EXCEPT !.late = TRUE]]
  BY DEF SendGoal
<1> DEFINE late(r) == [r EXCEPT !.late = TRUE]
<1>4. \A r \in Report : late(r) \in Report /\ late(r).late  BY <1>2
<1>5. reports' = [k \in DOMAIN reports |-> late(reports[k])]  BY <1>3
<1> HIDE DEF Report, late
<1>6. DOMAIN reports = 1..Len(reports) /\ Len(reports) \in Nat
      /\ \A k \in 1..Len(reports) : reports[k] \in Report
  BY <1>1
<1>7. /\ reports' \in Seq(Report) /\ Len(reports') = Len(reports)
      /\ \A k \in 1..Len(reports') : reports'[k].late
  BY <1>4, <1>5, <1>6
<1>8. target' = Level[CurrentTarget(i)] /\ CurrentTarget(i) \in Pos
  BY TargetType DEF SendGoal, Received
<1> QED  BY <1>1, <1>7, <1>8, PosAssumption DEF SendGoal, Report

LEMMA IndexStep == IndexInv /\ [Next]_vars => IndexInv'
<1> SUFFICES ASSUME IndexInv, [Next]_vars PROVE IndexInv'
  OBVIOUS
<1> USE DEF IndexInv, IndexInRange, TypeOK, Size
<1>1. CASE PointSend
  BY <1>1 DEF PointSend, params, missionVars, outside, history
<1>2. CASE TurnedFirst \/ Waited \/ Turned
  BY <1>2 DEF TurnedFirst, Waited, Turned, params, missionVars, outside, history
<1>3. CASE SendFirst
  <2>1. counts = 0 /\ 0 \in 0..Size - 1 /\ SendGoal(0) /\ counts' = 1 /\ misled' = FALSE
    BY <1>3 DEF SendFirst, SendGoal
  <2> QED  BY <1>3, <2>1, SendGoalType DEF SendFirst, params
<1>4. CASE CheckArrival
  <2>1. MaxSize \in Nat /\ Len(pytVector) \in Nat /\ Len(pytVector) <= MaxSize
    BY PlanFacts
  <2>2. counts - 1 \in 0..MaxSize  BY <1>4, <2>1 DEF CheckArrival
  <2>3. near' \in BOOLEAN  BY <1>4 DEF CheckArrival, Near
  <2>4. \/ pc' \in {"wait", "turn", "next"} /\ counts < Len(pytVector)
        \/ pc' = "end"
    BY <1>4 DEF CheckArrival
  <2> QED  BY <1>4, <2>2, <2>3, <2>4 DEF CheckArrival, params, outside, history
<1>5. CASE SendNext
  <2>1. counts \in 0..Size - 1 /\ SendGoal(counts)
    BY <1>5 DEF SendNext
  <2> QED  BY <1>5, <2>1, SendGoalType DEF SendNext, params
<1>6. CASE EndTick
  <2>1. MaxSize \in Nat  BY PlanFacts
  <2>2. 0 \in 0..MaxSize  BY <2>1
  <2>3. /\ trigger' \in BOOLEAN /\ (trigger' => trigger)
        /\ px4' \in Px4States /\ (px4' = "CMD_CTRL" => px4 = "CMD_CTRL")
    BY <1>6 DEF EndTick, Px4States
  <2> QED  BY <1>6, <2>2, <2>3 DEF EndTick, params, outside, history
<1>7. CASE OdomGoalCb
  BY <1>7 DEF OdomGoalCb, params, missionVars, outside, history
<1>8. CASE TakePlan
  <2>1. plans' \in Seq({"start", "back"}) /\ Len(plans') <= 1
    BY <1>8 DEF TakePlan
  <2>2. CASE UNCHANGED <<missionVars, history>>
    BY <1>8, <2>1, <2>2 DEF TakePlan, params, missionVars, outside, history
  <2>3. CASE /\ pytVector' \in {StartPoints, BackPoints} /\ pytVector' # <<>>
             /\ counts' = 0 /\ trigger' = TRUE
             /\ UNCHANGED <<modified_goals, near, counts_pre, reached, misled>>
    <3>1. Len(pytVector') \in Nat /\ Len(pytVector') > 0
      BY <2>3, PlanFacts
    <3> QED  BY <1>8, <2>1, <2>3, <3>1 DEF TakePlan, Listening, params, outside
  <2> QED  BY <1>8, <2>2, <2>3 DEF TakePlan, CountAnew, history
<1>9. CASE GoalModifiedCallback
  <2>1. /\ reports # <<>> /\ Head(reports) \in [pos : Pos, late : BOOLEAN]
        /\ reports' \in Seq([pos : Pos, late : BOOLEAN]) /\ Len(reports') <= 1
    <3>1. reports # <<>> /\ reports' = Tail(reports)
          /\ reports \in Seq([pos : Pos, late : BOOLEAN]) /\ Len(reports) <= 1
      BY <1>9 DEF GoalModifiedCallback
    <3> QED  BY <3>1, TailShort
  <2>2. CASE UNCHANGED <<missionVars, history>>
    BY <1>9, <2>1, <2>2 DEF GoalModifiedCallback, params, missionVars, outside, history
  <2>3. CASE ~(counts - 1 < 0 \/ counts - 1 >= Size)
    BY <1>9, <2>1, <2>3 DEF GoalModifiedCallback, params, outside
  <2> QED  BY <1>9, <2>2, <2>3 DEF GoalModifiedCallback
<1>10. CASE RcCb
  <2>1. plans' \in Seq({"start", "back"}) /\ Len(plans') <= 1
    <3>1. plans' = plans \/ Command("start") \/ Command("back")
      BY <1>10 DEF RcCb, RcTakeoff, RcMove, RcBack, RcLand
    <3>2. CASE plans' = plans
      BY <3>2
    <3> QED  BY <3>1, <3>2, CommandType
  <2>2. /\ px4' \in Px4States /\ rc_step' \in Steps
        /\ px4' = "CMD_CTRL" => px4 = "CMD_CTRL"
    BY <1>10 DEF RcCb, RcTakeoff, RcMove, RcBack, RcLand, Px4States, Steps
  <2>3. RcUnchanged
    BY <1>10 DEF RcCb, RcTakeoff, RcMove, RcBack, RcLand
  <2> QED  BY <2>1, <2>2, <2>3 DEF RcUnchanged, params, missionVars, outside, history
<1>11. ASSUME NEW plan \in {"start", "back"}, UserCommands(plan)
       PROVE  IndexInv'
  BY <1>11 DEF UserCommands, Command, params, missionVars, outside, history
<1>12. ASSUME NEW p \in Clear, PlannerMovesGoal(p)
       PROVE  IndexInv'
  <2>1. p \in Pos  BY PosAssumption
  <2>2. reports' \in Seq([pos : Pos, late : BOOLEAN]) /\ Len(reports') = 1
    BY <1>12, <2>1 DEF PlannerMovesGoal
  <2>3. target' = p /\ p # NoPos  BY <1>12, <2>1, PosAssumption DEF PlannerMovesGoal
  <2> QED  BY <1>12, <2>1, <2>2, <2>3 DEF PlannerMovesGoal, params, missionVars
<1>13. CASE Px4Flies \/ Pilot
  <2>1. PICK from \in Px4States, to \in Px4States :
          Px4ModeCb(from, to) /\ (to = "CMD_CTRL" => target # NoPos)
    BY <1>13 DEF Px4Flies, Pilot, TakeoffEnds, LandingEnds, PilotTakesOver, PilotHandsBack,
       CommandsBegin, CommandsEnd, Px4States
  <2>2. plans' \in Seq({"start", "back"}) /\ Len(plans') <= 1
    <3>1. CASE plans' = plans
      BY <3>1
    <3>2. CASE Command("start")
      BY <3>2, CommandType
    <3> QED  BY <2>1, <3>1, <3>2 DEF Px4ModeCb
  <2>3. px4' = to  BY <2>1 DEF Px4ModeCb
  <2> QED  BY <2>1, <2>2, <2>3 DEF Px4ModeCb, params, missionVars, outside, history
<1>14. CASE VehicleMoves
  <2>1. target \in Pos  BY <1>14 DEF VehicleMoves
  <2> QED  BY <1>14, <2>1 DEF VehicleMoves, params, missionVars
<1>15. CASE UNCHANGED vars
  BY <1>15 DEF vars, params, missionVars, outside, history
<1> QED
  BY <1>1, <1>2, <1>3, <1>4, <1>5, <1>6, <1>7, <1>8, <1>9, <1>10, <1>11, <1>12, <1>13,
     <1>14, <1>15 DEF Next, Point_send

\* Point_send uses its indices in range, whatever plan has replaced the list
\* since it computed them, a shorter one included.
THEOREM Indexed == Spec => []IndexInRange
<1>1. IndexInv => IndexInRange  BY DEF IndexInv
<1> QED  BY <1>1, IndexInit, IndexStep, PTL DEF Spec
-----------------------------------------------------------------------------
(* Where the planner flies and what this node thinks.                      *)

\* After a goal was sent, everything on its way is about an earlier one.
LEMMA SendGoalRoute ==
  ASSUME IndexInv, SendGoal(counts), counts < Size, counts' = counts + 1,
         UNCHANGED <<pytVector, modified_goals>>
  PROVE  RouteInv'
<1> USE DEF IndexInv, IndexInRange
<1>1. counts \in 0..Size - 1 /\ counts' - 1 = counts
  BY DEF TypeOK, Size
<1>2. /\ target' \in Pos /\ target' = Level[CurrentTarget(counts)]
      /\ levelled' = (target' # CurrentTarget(counts))
      /\ reports' = <<>> \/ Head(reports').late
  <2>1. Len(reports') <= 1 /\ reports' \in Seq([pos : Pos, late : BOOLEAN])
        /\ \A k \in 1..Len(reports') : reports'[k].late
    BY <1>1, SendGoalType
  <2>2. reports' = <<>> \/ (1 \in 1..Len(reports') /\ Head(reports') = reports'[1])
    BY <2>1
  <2>3. target' \in Pos  BY <1>1, SendGoalType
  <2> QED  BY <2>1, <2>2, <2>3 DEF SendGoal, Received
<1>3. CurrentTarget(counts - 1)' = CurrentTarget(counts)
  BY <1>1 DEF CurrentTarget
<1>4. vehicle' = CurrentTarget(counts) => reached'
  BY DEF SendGoal
<1> QED  BY <1>2, <1>3, <1>4 DEF RouteInv, LateReport

LEMMA RouteStep == Inv /\ [Next]_vars => RouteInv'
<1> SUFFICES ASSUME Inv, [Next]_vars PROVE RouteInv'
  OBVIOUS
<1> USE DEF Inv
<1>1. CASE UNCHANGED <<counts, misled, target, vehicle, levelled, reached, reports,
                       pytVector, modified_goals>>
  BY <1>1 DEF RouteInv, LateReport, CurrentTarget
<1>2. CASE SendFirst
  <2>1. counts = 0 /\ counts < Size /\ SendGoal(counts)
    BY <1>2 DEF SendFirst, IndexInv, IndexInRange, TypeOK, Size
  <2> QED  BY <1>2, <2>1, SendGoalRoute DEF SendFirst
<1>3. CASE SendNext
  <2>1. counts < Size  BY <1>3 DEF SendNext, IndexInv, IndexInRange
  <2> QED  BY <1>3, <2>1, SendGoalRoute DEF SendNext
<1>4. CASE TakePlan
  <2>1. counts' = 0 \/ UNCHANGED <<missionVars, history>>
    BY <1>4 DEF TakePlan, CountAnew
  <2>2. CASE counts' = 0
    BY <2>2 DEF RouteInv
  <2>3. CASE UNCHANGED <<missionVars, history>>
    BY <1>1, <1>4, <2>3 DEF TakePlan, missionVars, history, outside
  <2> QED  BY <2>1, <2>2, <2>3
<1>5. CASE GoalModifiedCallback
  <2> SUFFICES ASSUME counts' > 0, ~misled'
               PROVE  RouteInv'
    BY DEF RouteInv
  <2>1. counts' = counts /\ counts \in 1..Size /\ Size <= MaxSize
    <3>1. counts \in 0..Size /\ Size <= MaxSize /\ Size \in Nat
      BY PlanFacts DEF IndexInv, IndexInRange, TypeOK, Size
    <3> QED  BY <1>5, <3>1 DEF GoalModifiedCallback, missionVars
  <2>2. ~(counts - 1 < 0 \/ counts - 1 >= Size)
    BY <2>1 DEF Size
  <2>3. /\ reports # <<>> /\ reports' = Tail(reports)
        /\ modified_goals' = [modified_goals EXCEPT ![counts - 1] = Head(reports).pos]
        /\ misled' = (misled \/ Head(reports).late)
        /\ UNCHANGED <<pytVector, levelled, reached, target, vehicle>>
    BY <1>5, <2>2 DEF GoalModifiedCallback, outside
  <2>4. ~misled /\ ~Head(reports).late  BY <2>3
  <2>5. /\ target \in Pos /\ ~levelled /\ target = Head(reports).pos
        /\ vehicle = target => reached
    BY <2>1, <2>3, <2>4 DEF RouteInv, LateReport
  <2>6. reports' = <<>>
    BY <2>3 DEF IndexInv, IndexInRange, TypeOK
  <2>7. counts - 1 \in 0..MaxSize - 1
    BY <2>1, PlanFacts DEF Size, IndexInv, IndexInRange, TypeOK
  <2>8. modified_goals'[counts - 1] = target
    BY <2>3, <2>5, <2>7 DEF IndexInv, IndexInRange, TypeOK
  <2>9. CurrentTarget(counts - 1)' = target
    BY <2>1, <2>5, <2>8, PosAssumption DEF CurrentTarget
  <2> QED  BY <2>1, <2>3, <2>5, <2>6, <2>9 DEF RouteInv, LateReport
<1>6. ASSUME NEW p \in Clear, PlannerMovesGoal(p)
      PROVE  RouteInv'
  <2> SUFFICES ASSUME counts > 0, ~misled
               PROVE  RouteInv'
    BY <1>6 DEF RouteInv, PlannerMovesGoal, missionVars
  <2>1. /\ target' = p /\ p \in Pos /\ p # target /\ vehicle # target
        /\ levelled' = FALSE
        /\ reached' = (reached \/ vehicle = p)
        /\ UNCHANGED <<counts, pytVector, modified_goals, vehicle, misled>>
    BY <1>6, PosAssumption DEF PlannerMovesGoal, missionVars
  <2>2. reports' # <<>> /\ ~Head(reports').late /\ Head(reports').pos = p
    BY <1>6 DEF PlannerMovesGoal
  <2>3. CurrentTarget(counts - 1)' = CurrentTarget(counts - 1)
    BY <2>1 DEF CurrentTarget
  <2>4. vehicle = CurrentTarget(counts - 1) => reached
    BY DEF RouteInv
  <2> QED  BY <2>1, <2>2, <2>3, <2>4 DEF RouteInv, LateReport
<1>7. CASE VehicleMoves
  <2>1. CurrentTarget(counts - 1)' = CurrentTarget(counts - 1)
    BY <1>7 DEF CurrentTarget, VehicleMoves, missionVars
  <2> QED  BY <1>7, <2>1 DEF RouteInv, LateReport, VehicleMoves, missionVars
<1>8. CASE PointSend \/ TurnedFirst \/ CheckArrival \/ Waited \/ Turned \/ EndTick
           \/ UNCHANGED vars
  BY <1>1, <1>8 DEF PointSend, TurnedFirst, CheckArrival, Waited, Turned, EndTick, vars,
     missionVars, outside, history
<1>9. CASE OdomGoalCb \/ RcCb \/ Px4Flies \/ Pilot
           \/ (\E plan \in {"start", "back"} : UserCommands(plan))
  BY <1>1, <1>9 DEF OdomGoalCb, RcCb, RcTakeoff, RcMove, RcBack, RcLand, RcUnchanged,
     Px4Flies, Pilot, TakeoffEnds, LandingEnds, PilotTakesOver, PilotHandsBack,
     CommandsBegin, CommandsEnd, Px4ModeCb, UserCommands, missionVars, outside, history
<1> QED
  BY <1>2, <1>3, <1>4, <1>5, <1>6, <1>7, <1>8, <1>9 DEF Next, Point_send

LEMMA FreshStep == Inv /\ [Next]_vars => FreshInv'
<1> SUFFICES ASSUME Inv, [Next]_vars PROVE FreshInv'
  OBVIOUS
<1> USE DEF Inv, FreshInv, OdomFresh
<1>1. CASE UNCHANGED <<odom, vehicle>> /\ (pc' = pc \/ pc' \notin {"first", "check"})
  BY <1>1
<1>2. CASE PointSend \/ TurnedFirst
  BY <1>2 DEF PointSend, TurnedFirst, outside
<1>3. CASE SendFirst
  BY <1>3 DEF SendFirst, SendGoal
<1>4. CASE CheckArrival \/ Waited \/ Turned \/ EndTick \/ UNCHANGED vars
  BY <1>1, <1>4 DEF CheckArrival, Waited, Turned, EndTick, vars, outside
<1>5. CASE SendNext
  BY <1>5 DEF SendNext, SendGoal
<1>6. CASE OdomGoalCb \/ VehicleMoves
  BY <1>6 DEF OdomGoalCb, VehicleMoves, Listening
<1>7. CASE TakePlan \/ GoalModifiedCallback \/ (\E p \in Clear : PlannerMovesGoal(p))
  BY <1>1, <1>7 DEF TakePlan, GoalModifiedCallback, PlannerMovesGoal, outside
<1>8. CASE RcCb \/ Px4Flies \/ Pilot \/ (\E plan \in {"start", "back"} : UserCommands(plan))
  BY <1>1, <1>8 DEF RcCb, RcTakeoff, RcMove, RcBack, RcLand, RcUnchanged,
     Px4Flies, Pilot, TakeoffEnds, LandingEnds, PilotTakesOver, PilotHandsBack,
     CommandsBegin, CommandsEnd, Px4ModeCb, UserCommands, outside
<1> QED
  BY <1>2, <1>3, <1>4, <1>5, <1>6, <1>7, <1>8 DEF Next, Point_send

LEMMA ArrivedStep == Inv /\ [Next]_vars => ArrivedInv'
<1> SUFFICES ASSUME Inv, [Next]_vars PROVE ArrivedInv'
  OBVIOUS
<1> USE DEF Inv, ArrivedInv
<1>1. CASE /\ UNCHANGED <<counts, misled, reached>>
           /\ \/ pc \in {"wait", "turn", "next"}
              \/ pc' \notin {"wait", "turn", "next"}
  BY <1>1
<1>2. CASE CheckArrival
  <2> SUFFICES ASSUME near', counts > 0, ~misled
               PROVE  reached
    BY <1>2 DEF CheckArrival, history
  <2>1. vehicle = CurrentTarget(counts - 1)
    BY <1>2 DEF CheckArrival, Near, FreshInv, OdomFresh
  <2> QED  BY <2>1 DEF RouteInv
<1>3. CASE PointSend \/ TurnedFirst \/ EndTick \/ Waited \/ Turned \/ UNCHANGED vars
  BY <1>1, <1>3 DEF PointSend, TurnedFirst, EndTick, Waited, Turned, vars, missionVars,
     outside, history
<1>4. CASE SendFirst \/ SendNext
  BY <1>4 DEF SendFirst, SendNext
<1>5. CASE TakePlan
  <2>1. counts' = 0 \/ UNCHANGED <<counts, misled, reached>>
    BY <1>5 DEF TakePlan, CountAnew, missionVars, history
  <2> QED  BY <1>5, <2>1 DEF TakePlan, outside
<1>6. CASE GoalModifiedCallback
  <2>1. counts' = counts /\ (misled => misled') /\ UNCHANGED <<pc, reached>>
    BY <1>6 DEF GoalModifiedCallback, missionVars, history, outside
  <2> QED  BY <2>1
<1>7. ASSUME NEW p \in Clear, PlannerMovesGoal(p)
      PROVE  ArrivedInv'
  BY <1>7 DEF PlannerMovesGoal, missionVars
<1>8. CASE VehicleMoves
  BY <1>8 DEF VehicleMoves, missionVars
<1>9. CASE OdomGoalCb \/ RcCb \/ Px4Flies \/ Pilot
           \/ (\E plan \in {"start", "back"} : UserCommands(plan))
  BY <1>9 DEF OdomGoalCb, RcCb, RcTakeoff, RcMove, RcBack, RcLand, RcUnchanged,
     Px4Flies, Pilot, TakeoffEnds, LandingEnds, PilotTakesOver, PilotHandsBack,
     CommandsBegin, CommandsEnd, Px4ModeCb, UserCommands, missionVars, outside, history
<1> QED
  BY <1>2, <1>3, <1>4, <1>5, <1>6, <1>7, <1>8, <1>9 DEF Next, Point_send

\* What the node knows of the goal, and the planner of it, in all interleavings
\* of plans, reports and Point_send: they differ by the height the planner gives
\* every goal, or by a report on its way.
THEOREM RouteCorrect == Spec => []Inv
<1>1. Init => Inv
  BY IndexInit DEF Init, Inv, RouteInv, FreshInv, ArrivedInv
<1>2. Inv /\ [Next]_vars => Inv'
  BY IndexStep, RouteStep, FreshStep, ArrivedStep DEF Inv
<1> QED  BY <1>1, <1>2, PTL DEF Spec

\* The next waypoint of a plan is sent only when the drone has been at the one
\* before, as sent or where the planner had moved it, unless a report that came
\* late was stored for the wrong waypoint.
THEOREM NoneSkipped == Spec => NoWaypointSkipped
<1>1. Inv /\ [Next]_vars
        => [pc = "next" /\ counts > 0 /\ pc' = "end" => reached \/ misled]_vars
  BY DEF Inv, ArrivedInv, RouteInv
<1> QED  BY <1>1, RouteCorrect, PTL DEF Spec, NoWaypointSkipped
=============================================================================
