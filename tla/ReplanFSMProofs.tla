--------------------------- MODULE ReplanFSMProofs ---------------------------
(***************************************************************************)
(* Proofs about the planner's state machine, for every set of goals, every *)
(* round of waypoints, every configuration and every limit.                *)
(*                                                                         *)
(* Inv is inductive whatever the configuration; RoundInv is, on top of it, *)
(* when waypoints are given in advance and stay where they are; StopInv    *)
(* when no other drone's trajectories arrive.                              *)
(***************************************************************************)
EXTENDS ReplanFSM, TLAPS

\* While it executes, the machine is heading for the goal exactly when the
\* trajectory it flies reaches it.
ArrivalKnown == fsm = "EXEC_TRAJ" => (traj.kind = "arrival" <=> target = goal)

Inv == TypeOK /\ ExecutesCurrentGoal /\ ArrivalKnown

\* Nothing leaves a stop except its own exit, which waits for a new target.
HaltInv ==
  halted => \/ fsm = "EMERGENCY_STOP" /\ needHover
            \/ fsm = "WAIT_TARGET" /\ ~haveTarget

HoverInv == needHover => fsm = "EMERGENCY_STOP"

StopInv == HaltInv /\ HoverInv /\ OrderedStopBrakes

USE GoalAssumption, SwitchAssumption, CountAssumption

-----------------------------------------------------------------------------
(* What the building blocks do to the data.                                *)

TrajType ==
  /\ goal \in Goals \union {NoGoal}
  /\ target \in Goals \union {NoGoal, OnTheWay}
  /\ traj \in [goal : Goals \union {NoGoal}, kind : Kinds]
  /\ monitored \in BOOLEAN
  /\ progress \in {"early", "late", "over"}
  /\ haveTarget \in BOOLEAN

\* An attempt to plan keeps the types; when it succeeds the trajectory is one
\* to the goal, is watched, and reaches the goal if and only if it aims at it.
LEMMA AttemptLemma ==
  ASSUME TrajType, NEW ok \in BOOLEAN, Attempt(ok)
  PROVE  /\ TrajType'
         /\ ok => /\ traj'.goal = goal' /\ traj'.kind \in {"way", "arrival"} /\ monitored'
                  /\ traj'.kind = "arrival" <=> target' = goal'
<1>1. PICK g \in IF MondifyGoal THEN Goals \union {goal} ELSE {goal}, reaches \in BOOLEAN :
        /\ goal' = g
        /\ target' = IF reaches THEN g ELSE OnTheWay
        /\ haveTarget' = (haveTarget \/ g # goal)
        /\ traj' = IF ok THEN [goal |-> g, kind |-> IF reaches THEN "arrival" ELSE "way"] ELSE traj
        /\ monitored' = (ok \/ (monitored /\ g = goal))
        /\ progress' = IF ok THEN "early" ELSE progress
  BY DEF Attempt
<1>2. g \in Goals \union {NoGoal}  BY DEF TrajType
<1>3. TrajType'
  BY <1>1, <1>2 DEF TrajType, Kinds
<1>4. ok => /\ traj'.goal = goal' /\ traj'.kind \in {"way", "arrival"} /\ monitored'
            /\ traj'.kind = "arrival" <=> target' = goal'
  BY <1>1, <1>2
<1> QED  BY <1>3, <1>4

\* A new global trajectory keeps the types.
LEMMA NewGlobalLemma ==
  ASSUME TrajType, NEW g \in Goals, NewGlobalTraj(g)
  PROVE  TrajType'
BY DEF TrajType, NewGlobalTraj

\* The preset waypoints are goals.
LEMMA WaypointLemma ==
  ASSUME NEW i \in 1..Len(Waypoints)
  PROVE  Waypoints[i] \in Goals
OBVIOUS

LEMMA PresetLemma == Preset <=> Len(Waypoints) >= 1
BY DEF Preset

-----------------------------------------------------------------------------
(* The invariant that needs no assumption.                                 *)

LEMMA InitInv == Init => Inv
<1> SUFFICES ASSUME Init PROVE Inv  OBVIOUS
<1> USE DEF Init
<1>1. goal \in Goals \union {NoGoal} /\ wpt \in 0..Len(Waypoints)
  <2>1. CASE Preset
    BY <2>1, PresetLemma, WaypointLemma
  <2>2. CASE ~Preset
    BY <2>2, PresetLemma
  <2> QED  BY <2>1, <2>2
<1>2. haveTarget \in BOOLEAN /\ waits \in 0..MaxNest
  BY DEF Preset
<1>5. haveTrigger \in BOOLEAN /\ failSafe \in BOOLEAN
  BY SwitchAssumption
<1>6. traj \in [goal : Goals \union {NoGoal}, kind : Kinds] /\ failCount \in 0..MaxFail
  BY CountAssumption DEF Kinds
<1>7. fsm \in States /\ target \in Goals \union {NoGoal, OnTheWay}
  BY DEF States
<1>3. TypeOK  BY <1>1, <1>2, <1>5, <1>6, <1>7 DEF TypeOK
<1>4. ExecutesCurrentGoal /\ ArrivalKnown
  BY DEF ExecutesCurrentGoal, ArrivalKnown
<1> QED  BY <1>3, <1>4 DEF Inv

\* The steps of the state machine that plan.
LEMMA PlanStep ==
  ASSUME Inv, ExecPlanSucceeds \/ ExecPlanFails
  PROVE  Inv'
<1> USE DEF Inv
<1>1. TrajType  BY DEF TypeOK, TrajType
<1>2. CASE ExecPlanSucceeds
  <2>1. Attempt(TRUE)  BY <1>2 DEF ExecPlanSucceeds
  <2>2. /\ TrajType'
        /\ traj'.goal = goal' /\ traj'.kind \in {"way", "arrival"} /\ monitored'
        /\ traj'.kind = "arrival" <=> target' = goal'
    BY <2>1, <1>1, AttemptLemma
  <2>3. TypeOK'
    BY <2>2, <1>2 DEF ExecPlanSucceeds, TypeOK, TrajType, States
  <2> QED  BY <2>2, <2>3, <1>2 DEF ExecPlanSucceeds, ExecutesCurrentGoal, ArrivalKnown
<1>3. CASE ExecPlanFails
  <2>1. Attempt(FALSE)  BY <1>3 DEF ExecPlanFails
  <2>2. TrajType'  BY <2>1, <1>1, AttemptLemma
  <2>3. fsm' \in {fsm, "EMERGENCY_STOP"} /\ fsm # "EXEC_TRAJ"
    BY <1>3 DEF ExecPlanFails, Planning, Halt, Become
  <2>4. failCount' \in 0..MaxFail
    BY <1>3 DEF ExecPlanFails, TooManyFailures, TypeOK
  <2>5. needHover' \in BOOLEAN /\ escape' \in BOOLEAN /\ halted' \in BOOLEAN
    BY <1>3 DEF ExecPlanFails, Halt, Become, TypeOK
  <2>6. TypeOK'
    BY <2>2, <2>3, <2>4, <2>5, <1>3 DEF ExecPlanFails, TypeOK, TrajType, States
  <2> QED  BY <2>3, <2>6 DEF ExecutesCurrentGoal, ArrivalKnown
<1> QED  BY <1>2, <1>3

\* What EXEC_TRAJ may do, whatever the stuck detector adds to it.
ExecCase(s, near) ==
  \/ MovesGoal(s) \/ NextWaypoint(s, near) \/ Completes(s, near)
  \/ TimeToReplan(s, near) \/ KeepsFlying(s, near)

LEMMA ExecCaseLemma ==
  ASSUME Inv, NEW s \in States, NEW near \in BOOLEAN, ExecCase(s, near)
  PROVE  /\ TrajType' /\ haveTrigger' \in BOOLEAN /\ wpt' \in 0..Len(Waypoints)
         /\ s = "EXEC_TRAJ" => UNCHANGED <<trajVars, missionVars>>
<1> USE DEF Inv
<1>1. TrajType /\ haveTrigger \in BOOLEAN /\ wpt \in 0..Len(Waypoints)
  BY DEF TypeOK, TrajType
<1>2. CASE MovesGoal(s)
  <2>1. PICK g \in Goals \ {goal} : NewGlobalTraj(g)  BY <1>2 DEF MovesGoal
  <2>2. TrajType'  BY <1>1, <2>1, NewGlobalLemma
  <2> QED  BY <1>1, <1>2, <2>2 DEF MovesGoal
<1>3. CASE NextWaypoint(s, near)
  <2>1. wpt + 1 \in 1..Len(Waypoints)
    BY <1>1, <1>3 DEF NextWaypoint, Assigns, LastWaypoint
  <2>2. Waypoints[wpt + 1] \in Goals /\ NewGlobalTraj(Waypoints[wpt + 1])
    BY <2>1, <1>3, WaypointLemma DEF NextWaypoint
  <2>3. TrajType'  BY <1>1, <2>2, NewGlobalLemma
  <2> QED  BY <1>1, <1>3, <2>1, <2>3 DEF NextWaypoint
<1>4. CASE Completes(s, near)
  <2>1. CASE Preset
    <3>1. 1 \in 1..Len(Waypoints)  BY <2>1, PresetLemma
    <3>2. Waypoints[1] \in Goals /\ NewGlobalTraj(Waypoints[1]) /\ wpt' = 1
      BY <2>1, <3>1, <1>4, WaypointLemma DEF Completes
    <3>3. TrajType'  BY <1>1, <3>2, NewGlobalLemma
    <3>4. wpt' \in 0..Len(Waypoints)  BY <3>1, <3>2
    <3>5. s = "WAIT_TARGET" /\ haveTrigger' = FALSE  BY <1>4 DEF Completes
    <3> QED  BY <3>3, <3>4, <3>5
  <2>2. CASE ~Preset
    BY <1>1, <1>4, <2>2 DEF Completes, TrajType, trajVars
  <2> QED  BY <2>1, <2>2
<1>5. CASE TimeToReplan(s, near) \/ KeepsFlying(s, near)
  <2>1. UNCHANGED <<trajVars, missionVars>>
    BY <1>5 DEF TimeToReplan, KeepsFlying
  <2> QED  BY <1>1, <2>1 DEF TrajType, trajVars, missionVars
<1> QED  BY <1>2, <1>3, <1>4, <1>5 DEF ExecCase

LEMMA ExecStep ==
  ASSUME Inv, ExecTraj
  PROVE  Inv'
<1> USE DEF Inv
<1>1. PICK s \in States, near \in Nearness :
        ExecCase(s, near) /\ (Become(s) \/ (StuckDetect /\ Halt))
  BY DEF ExecTraj, ExecCase
<1>0. near \in BOOLEAN  BY DEF Nearness
<1>2. /\ TrajType' /\ haveTrigger' \in BOOLEAN /\ wpt' \in 0..Len(Waypoints)
      /\ s = "EXEC_TRAJ" => UNCHANGED <<trajVars, missionVars>>
  BY <1>0, <1>1, ExecCaseLemma
<1>3. /\ fsm' \in {s, "EMERGENCY_STOP"} /\ needHover' \in BOOLEAN
      /\ escape' \in BOOLEAN /\ halted' \in BOOLEAN
  BY <1>1 DEF Become, Halt, TypeOK
<1>4. TypeOK'
  BY <1>2, <1>3 DEF ExecTraj, TypeOK, TrajType, States
<1>5. fsm' = "EXEC_TRAJ" => UNCHANGED trajVars /\ fsm = "EXEC_TRAJ"
  BY <1>2, <1>3 DEF ExecTraj
<1>6. ExecutesCurrentGoal' /\ ArrivalKnown'
  BY <1>5 DEF ExecutesCurrentGoal, ArrivalKnown, trajVars
<1> QED  BY <1>4, <1>6

LEMMA StopStep ==
  ASSUME Inv, EmergencyBrake \/ EmergencyLeave
  PROVE  Inv'
<1> USE DEF Inv
<1>1. CASE EmergencyBrake
  <2>1. TypeOK'  BY <1>1 DEF EmergencyBrake, BrakeDone, TypeOK, Kinds, missionVars
  <2> QED  BY <1>1, <2>1 DEF EmergencyBrake, ExecutesCurrentGoal, ArrivalKnown
<1>2. CASE EmergencyLeave
  <2>1. fsm' \in {"WAIT_TARGET", "GEN_NEW_TRAJ"}
    BY <1>2 DEF EmergencyLeave
  <2>2. haveTarget' \in BOOLEAN /\ haveTrigger' \in BOOLEAN /\ needHover' \in BOOLEAN
    BY <1>2 DEF EmergencyLeave, DropTarget, TypeOK
  <2>3. TypeOK'
    BY <1>2, <2>1, <2>2 DEF EmergencyLeave, TypeOK, States, trajVars
  <2> QED  BY <2>1, <2>3 DEF ExecutesCurrentGoal, ArrivalKnown
<1> QED  BY <1>1, <1>2

LEMMA SafetyStep ==
  ASSUME Inv, Safety
  PROVE  Inv'
<1> USE DEF Inv
<1>1. PICK lost \in {FALSE, DepthLoss} : SafetyFree(lost) \/ SafetyDanger(lost)
  BY DEF Safety
<1>2. TrajType /\ (failSafe /\ ~lost) \in BOOLEAN  BY DEF TypeOK, TrajType
<1>3. CASE SafetyFree(lost)
  <2>1. fsm' \in {fsm, "EMERGENCY_STOP"} /\ UNCHANGED <<trajVars, missionVars>>
    BY <1>3 DEF SafetyFree, DepthStops
  <2>2. TypeOK'
    BY <1>2, <1>3, <2>1 DEF SafetyFree, TypeOK, States, trajVars, missionVars
  <2> QED  BY <2>1, <2>2 DEF ExecutesCurrentGoal, ArrivalKnown, trajVars
<1>4. CASE SafetyDanger(lost)
  <2>1. CASE Attempt(TRUE) /\ fsm' = "EXEC_TRAJ"
    <3>1. /\ TrajType'
          /\ traj'.goal = goal' /\ traj'.kind \in {"way", "arrival"} /\ monitored'
          /\ traj'.kind = "arrival" <=> target' = goal'
      BY <2>1, <1>2, AttemptLemma
    <3>2. TypeOK'
      BY <1>2, <1>4, <2>1, <3>1 DEF SafetyDanger, TypeOK, TrajType, States
    <3> QED  BY <3>1, <3>2 DEF ExecutesCurrentGoal, ArrivalKnown
  <2>2. CASE Attempt(FALSE) /\ fsm' \in {"EMERGENCY_STOP", "REPLAN_TRAJ"}
    <3>1. TrajType'  BY <2>2, <1>2, AttemptLemma
    <3>2. TypeOK'
      BY <1>2, <1>4, <2>2, <3>1 DEF SafetyDanger, TypeOK, TrajType, States
    <3> QED  BY <2>2, <3>2 DEF ExecutesCurrentGoal, ArrivalKnown
  <2> QED  BY <1>4, <2>1, <2>2 DEF SafetyDanger
<1> QED  BY <1>1, <1>3, <1>4

LEMMA GoalStep ==
  ASSUME Inv, NEW g \in Goals, GoalTaken(g) \/ GoalWaits(g)
  PROVE  Inv'
<1> USE DEF Inv
<1>1. TrajType /\ NewGlobalTraj(g)  BY DEF TypeOK, TrajType, GoalTaken, GoalWaits
<1>2. TrajType'  BY <1>1, NewGlobalLemma
<1>3. CASE GoalTaken(g)
  <2>1. fsm' \in {"WAIT_TARGET", "REPLAN_TRAJ", "EMERGENCY_STOP"}
    BY <1>3 DEF GoalTaken, Interrupts
  <2>2. haveTrigger' \in BOOLEAN /\ halted' \in BOOLEAN
    BY <1>3 DEF GoalTaken, Accepted
  <2>3. TypeOK'
    BY <1>2, <1>3, <2>1, <2>2 DEF GoalTaken, TypeOK, TrajType, States
  <2> QED  BY <2>1, <2>3 DEF ExecutesCurrentGoal, ArrivalKnown
<1>4. CASE GoalWaits(g)
  <2>1. fsm' # "EXEC_TRAJ"  BY <1>4 DEF GoalWaits
  <2>2. waits' \in 0..MaxNest  BY <1>4 DEF GoalWaits, TypeOK
  <2>3. TypeOK'
    BY <1>2, <1>4, <2>2 DEF GoalWaits, TypeOK, TrajType, stopVars
  <2> QED  BY <2>1, <2>3 DEF ExecutesCurrentGoal, ArrivalKnown
<1> QED  BY <1>3, <1>4

LEMMA InvStep == Inv /\ [Next]_vars => Inv'
<1> SUFFICES ASSUME Inv, [Next]_vars PROVE Inv'  OBVIOUS
<1> USE DEF Inv
<1>1. CASE ExecInit \/ ExecWaitTarget
  <2>1. fsm' \in {"WAIT_TARGET", "SEQUENTIAL_START"}
    BY <1>1 DEF ExecInit, ExecWaitTarget, Become
  <2>2. TypeOK'
    BY <1>1, <2>1 DEF ExecInit, ExecWaitTarget, Become, TypeOK, States, trajVars, missionVars
  <2> QED  BY <2>1, <2>2 DEF ExecutesCurrentGoal, ArrivalKnown
<1>2. CASE ExecPlanSucceeds \/ ExecPlanFails
  BY <1>2, PlanStep
<1>3. CASE ExecGoalUnsafe \/ MandatoryStop
  <2>1. fsm' = "EMERGENCY_STOP" /\ needHover' = TRUE /\ escape' = TRUE /\ halted' = TRUE
    BY <1>3 DEF ExecGoalUnsafe, MandatoryStop, Halt
  <2>2. TypeOK'
    BY <1>3, <2>1 DEF ExecGoalUnsafe, MandatoryStop, TypeOK, States, trajVars, missionVars
  <2> QED  BY <2>1, <2>2 DEF ExecutesCurrentGoal, ArrivalKnown
<1>4. CASE ExecTraj
  BY <1>4, ExecStep
<1>5. CASE EmergencyBrake \/ EmergencyLeave
  BY <1>5, StopStep
<1>6. CASE Safety
  BY <1>6, SafetyStep
<1>7. CASE Odometry \/ Trigger \/ PreAgentSeen
  <2>1. haveOdom' \in BOOLEAN /\ haveTrigger' \in BOOLEAN /\ preAgents' \in BOOLEAN
    BY <1>7 DEF Odometry, Trigger, PreAgentSeen, TypeOK, missionVars
  <2>2. UNCHANGED <<fsm, failCount, waits, trajVars, haveTarget, wpt, stopVars>>
    BY <1>7 DEF Odometry, Trigger, PreAgentSeen, missionVars
  <2>3. TypeOK'
    BY <2>1, <2>2 DEF TypeOK, trajVars, stopVars
  <2> QED
    BY <1>7, <2>3 DEF Odometry, Trigger, PreAgentSeen, ExecutesCurrentGoal, ArrivalKnown, trajVars
<1>8. CASE \E g \in Goals : GoalTaken(g) \/ GoalWaits(g)
  BY <1>8, GoalStep
<1>9. CASE GoalWaitEnds \/ GoalWaitTimeout
  <2>1. waits' \in 0..MaxNest
    BY <1>9 DEF GoalWaitEnds, GoalWaitTimeout, TypeOK
  <2>2. fsm' \in {fsm, "REPLAN_TRAJ"} /\ haveTrigger' \in BOOLEAN /\ haveTarget' = haveTarget /\ wpt' = wpt
    BY <1>9 DEF GoalWaitEnds, GoalWaitTimeout, missionVars, TypeOK, Preset
  <2>4. fsm' \in States  BY <2>2 DEF TypeOK, States
  <2>5. UNCHANGED <<haveOdom, preAgents, failCount, trajVars, stopVars>>
    BY <1>9 DEF GoalWaitEnds, GoalWaitTimeout
  <2>3. TypeOK'
    BY <2>1, <2>2, <2>4, <2>5 DEF TypeOK, trajVars, stopVars
  <2> QED
    BY <1>9, <2>2, <2>3 DEF GoalWaitEnds, GoalWaitTimeout, ExecutesCurrentGoal, ArrivalKnown, trajVars
<1>10. CASE SwarmConflict
  <2>1. fsm' = "REPLAN_TRAJ"  BY <1>10 DEF SwarmConflict, Become
  <2>2. TypeOK'
    BY <1>10, <2>1 DEF SwarmConflict, Become, TypeOK, States, trajVars, missionVars
  <2> QED  BY <2>1, <2>2 DEF ExecutesCurrentGoal, ArrivalKnown
<1>11. CASE Fly
  <2>1. progress' \in {"early", "late", "over"}  BY <1>11 DEF Fly
  <2>2. TypeOK'  BY <1>11, <2>1 DEF Fly, TypeOK, missionVars, stopVars
  <2> QED  BY <1>11, <2>2 DEF Fly, ExecutesCurrentGoal, ArrivalKnown
<1>12. CASE UNCHANGED vars
  BY <1>12 DEF vars, trajVars, missionVars, stopVars, TypeOK, ExecutesCurrentGoal, ArrivalKnown
<1> QED
  BY <1>1, <1>2, <1>3, <1>4, <1>5, <1>6, <1>7, <1>8, <1>9, <1>10, <1>11, <1>12
  DEF Next, Exec, Messages

\* TypeOK always holds: types, and the limits on failures, waypoints and
\* suspended callbacks (finishProcess, execFSMCallback, planNextWaypoint).
THEOREM TypeCorrect == Spec => []TypeOK
<1>1. Inv => TypeOK  BY DEF Inv
<1> QED  BY InitInv, InvStep, <1>1, PTL DEF Spec

\* Whatever interrupts planning, EXEC_TRAJ flies a plan for the latest goal,
\* and the safety check watches it (execFSMCallback, planNextWaypoint).
THEOREM ExecutesCurrent == Spec => []ExecutesCurrentGoal
<1>1. Inv => ExecutesCurrentGoal  BY DEF Inv
<1> QED  BY InitInv, InvStep, <1>1, PTL DEF Spec

-----------------------------------------------------------------------------
(* The end of a mission.                                                   *)

\* EXEC_TRAJ is left for WAIT_TARGET by one case only.
LEMMA CompletionLemma ==
  ASSUME Inv, Next, fsm = "EXEC_TRAJ", fsm' = "WAIT_TARGET"
  PROVE  Arrived /\ \E near \in Nearness : ~Assigns(near)
<1>1. ExecTraj
  <2>1. ~(ExecInit \/ ExecWaitTarget \/ ExecPlanSucceeds \/ ExecPlanFails
            \/ EmergencyBrake \/ EmergencyLeave \/ ExecGoalUnsafe)
    BY DEF ExecInit, ExecWaitTarget, ExecPlanSucceeds, ExecPlanFails, Planning,
           EmergencyBrake, EmergencyLeave, ExecGoalUnsafe, Halt
  <2>2. ~Safety
    BY DEF Safety, SafetyFree, SafetyDanger, DepthStops
  <2>3. ~(MandatoryStop \/ Odometry \/ Trigger \/ SwarmConflict \/ PreAgentSeen \/ Fly)
    BY DEF MandatoryStop, Halt, Odometry, Trigger, SwarmConflict, Become, PreAgentSeen, Fly
  <2>4. ~(\E g \in Goals : GoalTaken(g) \/ GoalWaits(g)) /\ ~GoalWaitEnds /\ ~GoalWaitTimeout
    BY DEF GoalTaken, Interrupts, GoalWaits, GoalWaitEnds, GoalWaitTimeout
  <2> QED  BY <2>1, <2>2, <2>3, <2>4 DEF Next, Exec, Messages
<1>2. PICK s \in States, near \in Nearness :
        ExecCase(s, near) /\ (Become(s) \/ (StuckDetect /\ Halt))
  BY <1>1 DEF ExecTraj, ExecCase
<1>3. s = "WAIT_TARGET"  BY <1>2 DEF Become, Halt
<1>4. Completes(s, near)
  BY <1>2, <1>3 DEF ExecCase, MovesGoal, NextWaypoint, TimeToReplan, KeepsFlying
<1> QED  BY <1>4 DEF Completes

\* A mission is reported complete only at the end of a trajectory that reaches
\* the goal (EXEC_TRAJ, case 3).
THEOREM CompletesThere == Spec => CompletesAtGoal
<1>1. Inv /\ [Next]_vars =>
        [fsm = "EXEC_TRAJ" /\ fsm' = "WAIT_TARGET"
           => progress = "over" /\ traj = [goal |-> goal, kind |-> "arrival"]]_vars
  <2> SUFFICES ASSUME Inv, Next, fsm = "EXEC_TRAJ", fsm' = "WAIT_TARGET"
               PROVE  progress = "over" /\ traj = [goal |-> goal, kind |-> "arrival"]
    OBVIOUS
  <2>1. Arrived  BY CompletionLemma
  <2>2. progress = "over" /\ traj.goal = goal /\ traj.kind = "arrival"
    BY <2>1 DEF Arrived, Ended, Touch, Inv, ExecutesCurrentGoal, ArrivalKnown
  <2>3. traj \in [goal : Goals \union {NoGoal}, kind : Kinds]  BY DEF Inv, TypeOK
  <2> QED  BY <2>2, <2>3
<1> QED  BY InitInv, InvStep, <1>1, PTL DEF Spec, CompletesAtGoal

\* A drone that has arrived is near its goal: with a waypoint left to fly to
\* it is sent on, so the mission can only be over at the last one.
LEMMA ArrivedAtLast ==
  ASSUME Inv, Preset, fsm = "EXEC_TRAJ", Arrived, NEW near \in Nearness, ~Assigns(near)
  PROVE  wpt = Len(Waypoints) /\ traj.goal = goal
<1>1. monitored /\ progress = "over" /\ traj.goal = goal /\ traj.kind = "arrival"
  BY DEF Arrived, Ended, Touch, Inv, ExecutesCurrentGoal, ArrivalKnown
<1>2. traj \in [goal : Goals \union {NoGoal}, kind : Kinds] /\ wpt \in 0..Len(Waypoints)
  BY DEF Inv, TypeOK
<1>3. traj = [goal |-> goal, kind |-> "arrival"]  BY <1>1, <1>2
<1>4. near = TRUE  BY <1>1, <1>3 DEF Nearness
<1>5. LastWaypoint  BY <1>4 DEF Assigns
<1> QED  BY <1>1, <1>2, <1>5 DEF LastWaypoint

\* In a preset round whose waypoints are not moved, the goal is the current
\* waypoint, whatever was planned, stopped or replanned since.
RoundInv == Preset /\ ~MondifyGoal => wpt \in 1..Len(Waypoints) /\ goal = Waypoints[wpt]

LEMMA RoundInit == Init => RoundInv
<1> SUFFICES ASSUME Init, Preset PROVE wpt \in 1..Len(Waypoints) /\ goal = Waypoints[wpt]
  BY DEF RoundInv
<1> QED  BY PresetLemma DEF Init

LEMMA RoundExecStep ==
  ASSUME Inv, RoundInv, Preset, ~MondifyGoal, ExecTraj
  PROVE  wpt' \in 1..Len(Waypoints) /\ goal' = Waypoints[wpt']
<1>1. PICK s \in States, near \in Nearness : ExecCase(s, near)
  BY DEF ExecTraj, ExecCase
<1>2. wpt \in 1..Len(Waypoints) /\ goal = Waypoints[wpt]  BY DEF RoundInv
<1>3. CASE NextWaypoint(s, near)
  <2>1. wpt' = wpt + 1 /\ goal' = Waypoints[wpt + 1] /\ ~LastWaypoint
    BY <1>3 DEF NextWaypoint, Assigns, NewGlobalTraj
  <2> QED  BY <1>2, <2>1 DEF LastWaypoint
<1>4. CASE Completes(s, near)
  <2>1. wpt' = 1 /\ goal' = Waypoints[1]  BY <1>4 DEF Completes, NewGlobalTraj
  <2> QED  BY <1>2, <2>1
<1>5. CASE TimeToReplan(s, near) \/ KeepsFlying(s, near)
  BY <1>2, <1>5 DEF TimeToReplan, KeepsFlying, trajVars, missionVars
<1> QED  BY <1>1, <1>3, <1>4, <1>5 DEF ExecCase, MovesGoal

LEMMA RoundStep == Inv /\ RoundInv /\ [Next]_vars => RoundInv'
<1> SUFFICES ASSUME Inv, RoundInv, [Next]_vars, Preset, ~MondifyGoal
             PROVE  wpt' \in 1..Len(Waypoints) /\ goal' = Waypoints[wpt']
  BY DEF RoundInv
<1>1. wpt \in 1..Len(Waypoints) /\ goal = Waypoints[wpt]  BY DEF RoundInv
<1>2. ASSUME NEW ok \in BOOLEAN, Attempt(ok) PROVE goal' = goal
  BY <1>2 DEF Attempt
<1>3. CASE ExecTraj
  BY <1>3, RoundExecStep
<1>4. CASE Exec /\ ~ExecTraj
  <2>1. goal' = goal /\ wpt' = wpt
    BY <1>2, <1>4 DEF Exec, ExecInit, ExecWaitTarget, ExecPlanSucceeds, ExecPlanFails,
                      ExecGoalUnsafe, EmergencyBrake, EmergencyLeave, trajVars, missionVars
  <2> QED  BY <1>1, <2>1
<1>5. CASE Safety
  <2>1. goal' = goal /\ wpt' = wpt
    BY <1>2, <1>5 DEF Safety, SafetyFree, SafetyDanger, trajVars, missionVars
  <2> QED  BY <1>1, <2>1
<1>6. CASE Messages \/ Fly \/ UNCHANGED vars
  <2>1. goal' = goal /\ wpt' = wpt
    BY <1>6 DEF Messages, MandatoryStop, Odometry, Trigger, GoalTaken, GoalWaits,
                GoalWaitEnds, GoalWaitTimeout, SwarmConflict, PreAgentSeen, Fly,
                vars, trajVars, missionVars
  <2> QED  BY <1>1, <2>1
<1> QED  BY <1>3, <1>4, <1>5, <1>6 DEF Next

\* A preset round is reported over only at its last waypoint, and, when goals
\* are not moved, at the end of a trajectory to it (EXEC_TRAJ, cases 2 and 3).
THEOREM RoundComplete == Spec => RoundEndsLast
<1>1. Inv /\ RoundInv /\ [Next]_vars =>
        [Preset /\ fsm = "EXEC_TRAJ" /\ fsm' = "WAIT_TARGET"
           => wpt = Len(Waypoints) /\ (~MondifyGoal => traj.goal = Waypoints[wpt])]_vars
  <2> SUFFICES ASSUME Inv, RoundInv, Next, Preset, fsm = "EXEC_TRAJ", fsm' = "WAIT_TARGET"
               PROVE  wpt = Len(Waypoints) /\ (~MondifyGoal => traj.goal = Waypoints[wpt])
    OBVIOUS
  <2>1. Arrived /\ \E near \in Nearness : ~Assigns(near)  BY CompletionLemma
  <2>2. wpt = Len(Waypoints) /\ traj.goal = goal  BY <2>1, ArrivedAtLast
  <2> QED  BY <2>2 DEF RoundInv
<1> QED  BY InitInv, InvStep, RoundInit, RoundStep, <1>1, PTL DEF Spec, RoundEndsLast

-----------------------------------------------------------------------------
(* Stops, when no other drone's trajectories arrive.                       *)

LEMMA InitStop == Init => StopInv
BY DEF Init, StopInv, HaltInv, HoverInv, OrderedStopBrakes

\* The steps that move to a new state; none is taken in EMERGENCY_STOP.
LEMMA StopPlanStep ==
  ASSUME Inv, StopInv,
         ExecInit \/ ExecWaitTarget \/ ExecPlanSucceeds \/ ExecPlanFails \/ ExecGoalUnsafe
  PROVE  StopInv'
<1> USE DEF StopInv
<1>1. ~needHover  BY DEF HoverInv, ExecInit, ExecWaitTarget, ExecPlanSucceeds,
                         ExecPlanFails, ExecGoalUnsafe, Planning
<1>2. ~halted
  BY DEF HaltInv, ExecInit, ExecWaitTarget, ExecPlanSucceeds, ExecPlanFails,
         ExecGoalUnsafe, Planning
<1>3. (fsm' = "EMERGENCY_STOP" /\ needHover' /\ escape') \/ (~needHover' /\ ~halted')
  BY <1>1, <1>2 DEF ExecInit, ExecWaitTarget, ExecPlanSucceeds, ExecPlanFails,
                    ExecGoalUnsafe, Become, Halt
<1> QED  BY <1>3 DEF HaltInv, HoverInv, OrderedStopBrakes

LEMMA StopExecStep ==
  ASSUME Inv, StopInv, ExecTraj
  PROVE  StopInv'
<1> USE DEF StopInv
<1>1. ~needHover /\ ~halted  BY DEF HoverInv, HaltInv, ExecTraj
<1>2. (fsm' = "EMERGENCY_STOP" /\ needHover' /\ escape') \/ (~needHover' /\ ~halted')
  BY <1>1 DEF ExecTraj, Become, Halt
<1> QED  BY <1>2 DEF HaltInv, HoverInv, OrderedStopBrakes

LEMMA StopGoalStep ==
  ASSUME Inv, StopInv, NEW g \in Goals, GoalTaken(g) \/ GoalWaits(g)
  PROVE  StopInv'
<1> USE DEF StopInv
<1>1. CASE GoalTaken(g)
  <2>1. UNCHANGED <<needHover, escape, traj>>
        /\ halted' = (halted /\ fsm = "EMERGENCY_STOP")
        /\ fsm' = IF fsm = "EXEC_TRAJ" THEN "REPLAN_TRAJ" ELSE fsm
    BY <1>1 DEF GoalTaken, Interrupts, NewGlobalTraj
  <2> QED  BY <2>1 DEF HaltInv, HoverInv, OrderedStopBrakes
<1>2. CASE GoalWaits(g)
  <2>1. ~halted /\ ~needHover  BY <1>2 DEF GoalWaits, HaltInv, HoverInv
  <2>2. ~halted' /\ ~needHover'  BY <1>2, <2>1 DEF GoalWaits, stopVars
  <2> QED  BY <2>2 DEF HaltInv, HoverInv, OrderedStopBrakes
<1> QED  BY <1>1, <1>2

LEMMA StopStepLemma == ~Swarm => (Inv /\ StopInv /\ [Next]_vars => StopInv')
<1> SUFFICES ASSUME ~Swarm, Inv, StopInv, [Next]_vars PROVE StopInv'  OBVIOUS
<1> USE DEF StopInv
<1>1. CASE ExecInit \/ ExecWaitTarget \/ ExecPlanSucceeds \/ ExecPlanFails \/ ExecGoalUnsafe
  BY <1>1, StopPlanStep
<1>2. CASE ExecTraj
  BY <1>2, StopExecStep
<1>3. CASE EmergencyBrake
  BY <1>3 DEF EmergencyBrake, BrakeDone, missionVars, HaltInv, HoverInv, OrderedStopBrakes
<1>4. CASE EmergencyLeave
  <2>1. ~needHover' /\ halted' = halted  BY <1>4 DEF EmergencyLeave
  <2>2. halted => needHover  BY <1>4 DEF EmergencyLeave, HaltInv
  <2>3. needHover => fsm' = "WAIT_TARGET" /\ ~haveTarget'
    BY <1>4 DEF EmergencyLeave, DropTarget
  <2> QED  BY <2>1, <2>2, <2>3 DEF HaltInv, HoverInv, OrderedStopBrakes
<1>5. CASE Safety
  <2>1. ~needHover /\ ~halted
    BY <1>5 DEF Safety, SafetyFree, SafetyDanger, Checks, HoverInv, HaltInv
  <2>2. UNCHANGED <<needHover, halted>>  BY <1>5 DEF Safety, SafetyFree, SafetyDanger
  <2> QED  BY <2>1, <2>2 DEF HaltInv, HoverInv, OrderedStopBrakes
<1>6. CASE MandatoryStop
  BY <1>6 DEF MandatoryStop, Halt, HaltInv, HoverInv, OrderedStopBrakes
<1>7. CASE Odometry \/ Trigger \/ GoalWaitTimeout \/ Fly
  <2>1. UNCHANGED <<fsm, traj, haveTarget, needHover, escape, halted>>
    BY <1>7 DEF Odometry, Trigger, GoalWaitTimeout, Fly, trajVars, missionVars, stopVars
  <2> QED  BY <2>1 DEF HaltInv, HoverInv, OrderedStopBrakes
<1>8. CASE \E g \in Goals : GoalTaken(g) \/ GoalWaits(g)
  BY <1>8, StopGoalStep
<1>9. CASE GoalWaitEnds
  <2>1. ~needHover /\ ~halted /\ UNCHANGED <<needHover, halted>>
    BY <1>9 DEF GoalWaitEnds, stopVars, HaltInv, HoverInv
  <2> QED  BY <2>1 DEF HaltInv, HoverInv, OrderedStopBrakes
<1>10. CASE UNCHANGED vars
  BY <1>10 DEF vars, trajVars, missionVars, stopVars, HaltInv, HoverInv, OrderedStopBrakes
<1> QED
  BY <1>1, <1>2, <1>3, <1>4, <1>5, <1>6, <1>7, <1>8, <1>9, <1>10
  DEF Next, Exec, Messages, SwarmConflict, PreAgentSeen

\* A stop that was ordered brakes (mandatoryStopCallback, EMERGENCY_STOP):
\* without other drones, needHover is never seen outside EMERGENCY_STOP.
THEOREM StopBrakes == ~Swarm => (Spec => []OrderedStopBrakes)
<1> SUFFICES ASSUME ~Swarm PROVE Spec => []OrderedStopBrakes
  OBVIOUS
<1>0. Inv /\ StopInv /\ [Next]_vars => StopInv'  BY StopStepLemma
<1>1. StopInv => OrderedStopBrakes  BY DEF StopInv
<1> QED  BY InitInv, InvStep, InitStop, <1>0, <1>1, PTL DEF Spec

\* After it, nothing but the braking trajectory is published until a new goal
\* is accepted (the promise the manual return relies on).
THEOREM StopIsKept == ~Swarm => (Spec => StopHolds)
<1> SUFFICES ASSUME ~Swarm PROVE Spec => StopHolds
  OBVIOUS
<1>0. Inv /\ StopInv /\ [Next]_vars => StopInv'  BY StopStepLemma
<1>1. StopInv /\ [Next]_vars => [halted /\ traj' # traj => traj'.kind = "stop"]_vars
  <2> SUFFICES ASSUME StopInv, Next, halted, traj' # traj
               PROVE  traj'.kind = "stop"
    OBVIOUS
  <2>1. fsm \in {"EMERGENCY_STOP", "WAIT_TARGET"}
    BY DEF StopInv, HaltInv
  <2>2. CASE EmergencyBrake
    BY <2>2 DEF EmergencyBrake
  <2>3. CASE Exec /\ ~EmergencyBrake
    BY <2>1, <2>3 DEF Exec, ExecInit, ExecWaitTarget, ExecPlanSucceeds, ExecPlanFails,
                      Planning, ExecGoalUnsafe, ExecTraj, EmergencyLeave, trajVars
  <2>4. CASE Safety
    BY <2>1, <2>4 DEF Safety, SafetyFree, SafetyDanger, Checks
  <2>5. CASE Messages
    BY <2>5 DEF Messages, MandatoryStop, Odometry, Trigger, GoalTaken, GoalWaits,
                NewGlobalTraj, GoalWaitEnds, GoalWaitTimeout, SwarmConflict,
                PreAgentSeen, trajVars
  <2>6. CASE Fly
    BY <2>6 DEF Fly
  <2> QED  BY <2>2, <2>3, <2>4, <2>5, <2>6 DEF Next
<1> QED  BY InitInv, InvStep, InitStop, <1>0, <1>1, PTL DEF Spec, StopHolds
=============================================================================
