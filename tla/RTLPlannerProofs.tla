--------------------------- MODULE RTLPlannerProofs ---------------------------
(***************************************************************************)
(* Proofs about RTLPlanner, for corridors of any length, any distances     *)
(* between breadcrumbs, any goals of the users and whatever the planner    *)
(* makes of them.                                                          *)
(***************************************************************************)
EXTENDS RTLPlanner, SequenceTheorems, TLAPS

LEMMA GapFacts ==
  ASSUME NEW p \in Pos, NEW q \in Pos, NEW r \in Pos
  PROVE  /\ Gap(p, q) \in Nat
         /\ Gap(p, q) = Gap(q, p)
         /\ Gap(p, p) = 0
         /\ Gap(p, r) <= Gap(p, q) + Gap(q, r)
BY CorridorAssumption DEF Gap, Pos

LEMMA NextTo ==
  ASSUME NEW p \in Nat, NEW q, q = p + 1 \/ q = p - 1
  PROVE  Gap(q, p) <= 1
BY DEF Gap

\* What the planner makes of a place is a place.
LEMMA ReceivedType ==
  ASSUME NEW p \in Pos
  PROVE  Received(p) \in Pos
BY CorridorAssumption DEF Received

LEMMA Numbers ==
  /\ Home \in Pos /\ Dist \in Nat /\ Dist >= 1 /\ Arrival \in Nat /\ Arrival >= 1
  /\ Arrival <= Dist /\ Goals \subseteq Pos /\ None \notin Pos /\ Pos \subseteq Nat
BY CorridorAssumption, ArrivalAssumption DEF Pos, None

\* Where the drone can be: never more than a step from where odometry saw it;
\* while breadcrumbs are recorded, near the place of the last record, which is
\* near the last breadcrumb; past the first breadcrumb, at Home.
PlaceInv ==
  /\ Gap(vehicle, odom) <= 1
  /\ ~home_recorded => /\ state = "IDLE" /\ breadcrumbs = <<>>
                       /\ vehicle = Home /\ odom = Home /\ last_record_pos = Home
  /\ home_recorded => breadcrumbs # <<>> /\ breadcrumbs[1] = Home
  /\ home_recorded /\ state = "IDLE" =>
       /\ Gap(odom, last_record_pos) <= Dist
       /\ 2 * Gap(last_record_pos, breadcrumbs[Len(breadcrumbs)]) < Dist
  /\ state = "RTL_STOPPING" => rtl_idx >= 0
  /\ state = "RTL_EXECUTING" => current_goal \in Pos
  /\ state = "RTL_EXECUTING" /\ rtl_idx < 0 =>
       Gap(odom, Home) <= Arrival /\ Gap(vehicle, Home) <= Arrival

\* Every leg of the way home is short enough.
LegsShort ==
  \A i \in 1..Len(breadcrumbs) - 1 : LegLimit(breadcrumbs[i], breadcrumbs[i + 1])

Inv == TypeOK /\ PlaceInv /\ LegsShort /\ TrailApart

\* What Append and Truncated leave of a trail.
LEMMA Trails ==
  ASSUME NEW t \in Seq(Pos), NEW p \in Pos, NEW n \in 1..Len(t)
  PROVE  /\ Append(t, p) \in Seq(Pos)
         /\ Len(Append(t, p)) = Len(t) + 1
         /\ \A k \in 1..Len(t) : Append(t, p)[k] = t[k]
         /\ Append(t, p)[Len(t) + 1] = p
         /\ SubSeq(t, 1, n) \in Seq(Pos)
         /\ Len(SubSeq(t, 1, n)) = n
         /\ \A k \in 1..n : SubSeq(t, 1, n)[k] = t[k]
OBVIOUS

\* What the odometry did to the trail: a breadcrumb more, or some fewer.
LEMMA OdomKinds ==
  ASSUME TypeOK, PlaceInv, OdomCallback
  PROVE  /\ odom' = vehicle
         /\ UNCHANGED <<state, rtl_idx, current_goal, stopped, goal, landing, vehicle>>
         /\ home_recorded' = TRUE
         /\ \/ HomeRecorded
            \/ OdomOnly
            \/ ComesBack
            \/ \E turned \in BOOLEAN : Records(turned)
<1>1. CASE HomeRecorded
  BY <1>1 DEF HomeRecorded
<1>2. CASE OdomOnly
  BY <1>2 DEF OdomOnly, TypeOK
<1>3. CASE ComesBack
  BY <1>3 DEF ComesBack, TypeOK
<1>4. CASE \E turned \in BOOLEAN : Records(turned)
  BY <1>4 DEF Records, TypeOK
<1> QED BY <1>1, <1>2, <1>3, <1>4 DEF OdomCallback

\* A drone that has come back to breadcrumb i keeps the trail up to it.
LEMMA BackTo ==
  ASSUME TypeOK, ComesBack
  PROVE  \E i \in 1..Len(breadcrumbs) - 1 :
           /\ 2 * Gap(vehicle, breadcrumbs[i]) < Dist
           /\ breadcrumbs' = Truncated(i)
BY DEF ComesBack, Near

LEMMA TypeStep ==
  ASSUME TypeOK, PlaceInv, [Next]_vars
  PROVE  TypeOK'
<1>0. breadcrumbs \in Seq(Pos) /\ Len(breadcrumbs) \in Nat
  BY DEF TypeOK
<1>1. CASE HomeRecorded
  <2>1. breadcrumbs' \in Seq(Pos) /\ state' = "IDLE"
    BY <1>1, Numbers DEF HomeRecorded, TypeOK, PlaceInv
  <2> QED BY <1>1, <2>1 DEF HomeRecorded, TypeOK
<1>2. CASE OdomOnly
  BY <1>2 DEF OdomOnly, TypeOK
<1>3. CASE ComesBack
  <2>1. PICK i \in 1..Len(breadcrumbs) - 1 : breadcrumbs' = Truncated(i)
    BY <1>3, BackTo
  <2>2. breadcrumbs' \in Seq(Pos)
    BY <1>0, <2>1, Trails, Numbers DEF Truncated
  <2> QED BY <1>3, <2>2 DEF ComesBack, TypeOK
<1>4. ASSUME NEW turned \in BOOLEAN, Records(turned)
      PROVE  TypeOK'
  <2>1. breadcrumbs' \in Seq(Pos)
    BY <1>0, <1>4 DEF Records, TypeOK
  <2> QED BY <1>4, <2>1 DEF Records, TypeOK
<1>5. CASE Trigger
  <2>1. rtl_idx' \in 0..Len(breadcrumbs) - 1
    BY <1>0, <1>5 DEF Trigger
  <2> QED BY <1>0, <1>5, <2>1 DEF Trigger, TypeOK
<1>6. CASE ExecStart
  <2>1. rtl_idx + 1 \in 1..Len(breadcrumbs)
    BY <1>0, <1>6 DEF ExecStart, TypeOK, PlaceInv
  <2>2. current_goal' \in Pos /\ goal' \in Pos
    BY <1>0, <1>6, <2>1, ReceivedType DEF ExecStart
  <2> QED BY <1>0, <1>6, <2>1, <2>2 DEF ExecStart, TypeOK
<1>7. CASE ExecResend
  <2>1. goal' \in Pos
    BY <1>7, ReceivedType DEF ExecResend, SentAgain, PlaceInv
  <2> QED BY <1>7, <2>1 DEF ExecResend, rtlVars, TypeOK
<1>8. CASE ExecArrives
  <2>1. rtl_idx \in 0..Len(breadcrumbs) - 1
    BY <1>8 DEF ExecArrives, TypeOK
  <2>2. current_goal' \in Pos
    BY <1>0, <1>8, <2>1, Numbers DEF ExecArrives
  <2>3. goal' \in Pos
    BY <1>8, <2>2, ReceivedType DEF ExecArrives
  <2> QED BY <1>0, <1>8, <2>1, <2>2, <2>3 DEF ExecArrives, TypeOK
<1>9. CASE ExecCompletes
  <2>1. goal' \in Pos \union {None}
    BY <1>9, ReceivedType DEF ExecCompletes, PlaceInv, TypeOK
  <2> QED BY <1>9, <2>1, Numbers DEF ExecCompletes, TypeOK
<1>10. CASE PlannerLeavesStop \/ PlannerEmergency
  BY <1>10 DEF PlannerLeavesStop, PlannerEmergency, rtlVars, TypeOK
<1>11. ASSUME NEW p \in Goals, UserGoal(p)
       PROVE  TypeOK'
  BY <1>11, Numbers, ReceivedType DEF UserGoal, rtlVars, TypeOK
<1>12. CASE VehicleMoves
  <2>1. vehicle' \in Pos
    BY <1>12, CorridorAssumption DEF VehicleMoves, TypeOK, Pos, None
  <2> QED BY <1>12, <2>1 DEF VehicleMoves, rtlVars, TypeOK
<1>13. CASE TakesOff
  BY <1>13 DEF TakesOff, rtlVars, TypeOK
<1>14. CASE UNCHANGED vars
  BY <1>14 DEF vars, rtlVars, TypeOK
<1>15. ASSUME NEW p \in Pos, PlannerMovesGoal(p) \/ PilotFlies(p)
       PROVE  TypeOK'
  BY <1>15 DEF PlannerMovesGoal, PilotFlies, rtlVars, TypeOK
<1> QED
  BY <1>1, <1>2, <1>3, <1>4, <1>5, <1>6, <1>7, <1>8, <1>9, <1>10, <1>11, <1>12,
     <1>13, <1>14, <1>15 DEF Next, OdomCallback, Exec

\* Where the drone can be, step by step.
LEMMA PlaceStep ==
  ASSUME TypeOK, PlaceInv, [Next]_vars
  PROVE  PlaceInv'
<1>0. /\ breadcrumbs \in Seq(Pos) /\ Len(breadcrumbs) \in Nat
      /\ odom \in Pos /\ vehicle \in Pos /\ last_record_pos \in Pos /\ rtl_idx \in Int
  BY DEF TypeOK
<1>1. CASE HomeRecorded
  <2>1. breadcrumbs' = <<Home>> /\ odom' = Home /\ vehicle' = Home /\ last_record_pos' = Home
    BY <1>1, Numbers DEF HomeRecorded, PlaceInv
  <2>2. Len(breadcrumbs') = 1 /\ breadcrumbs'[1] = Home
    BY <2>1
  <2>3. Gap(Home, Home) = 0
    BY Numbers, GapFacts
  <2> QED BY <1>1, <2>1, <2>2, <2>3, Numbers DEF HomeRecorded, PlaceInv
<1>2. CASE OdomOnly
  <2>1. Gap(vehicle, vehicle) = 0 /\ Gap(vehicle, last_record_pos) \in Nat
    BY <1>0, GapFacts
  <2>2. state = "IDLE" => Gap(vehicle, last_record_pos) <= Dist
    BY <1>2, <2>1, Numbers DEF OdomOnly, MovedEnough
  <2> QED BY <1>2, <2>1, <2>2 DEF OdomOnly, PlaceInv
<1>3. CASE ComesBack
  <2>1. PICK i \in 1..Len(breadcrumbs) - 1 :
          2 * Gap(vehicle, breadcrumbs[i]) < Dist /\ breadcrumbs' = Truncated(i)
    BY <1>3, BackTo
  <2>2. /\ Len(breadcrumbs') = i
        /\ breadcrumbs'[i] = breadcrumbs[i] /\ breadcrumbs'[1] = breadcrumbs[1]
    BY <1>0, <2>1, Trails, Numbers DEF Truncated
  <2>3. Gap(vehicle, vehicle) = 0 /\ breadcrumbs' # <<>>
    BY <1>0, <2>1, <2>2, GapFacts
  <2> QED BY <1>3, <2>1, <2>2, <2>3, Numbers DEF ComesBack, PlaceInv
<1>4. ASSUME NEW turned \in BOOLEAN, Records(turned)
      PROVE  PlaceInv'
  <2>1. /\ Len(breadcrumbs') = Len(breadcrumbs) + 1
        /\ breadcrumbs'[Len(breadcrumbs) + 1] = vehicle
        /\ breadcrumbs # <<>> /\ breadcrumbs'[1] = Home
    BY <1>0, <1>4 DEF Records, PlaceInv
  <2>2. Gap(vehicle, vehicle) = 0 /\ breadcrumbs' # <<>>
    BY <1>0, <2>1, GapFacts
  <2> QED BY <1>4, <2>1, <2>2, Numbers DEF Records, PlaceInv
<1>5. CASE Trigger
  BY <1>0, <1>5 DEF Trigger, PlaceInv
<1>6. CASE ExecStart
  <2>1. rtl_idx + 1 \in 1..Len(breadcrumbs)
    BY <1>0, <1>6 DEF ExecStart, TypeOK, PlaceInv
  <2>2. current_goal' \in Pos
    BY <1>0, <1>6, <2>1 DEF ExecStart
  <2> QED BY <1>0, <1>6, <2>2 DEF ExecStart, PlaceInv
<1>7. CASE ExecResend
  BY <1>7 DEF ExecResend, rtlVars, PlaceInv
<1>8. CASE ExecArrives
  <2>1. rtl_idx = 0 => Gap(odom, Home) < Arrival /\ Gap(vehicle, Home) <= Arrival
    <3>1. rtl_idx = 0 => Gap(Home, odom) < Arrival
      BY <1>8 DEF ExecArrives, ThereYet, PlaceInv
    <3>2. /\ Gap(Home, odom) = Gap(odom, Home) /\ Gap(odom, Home) \in Nat
          /\ Gap(vehicle, odom) \in Nat /\ Gap(vehicle, Home) \in Nat
          /\ Gap(vehicle, Home) <= Gap(vehicle, odom) + Gap(odom, Home)
      BY <1>0, Numbers, GapFacts
    <3>3. Gap(vehicle, odom) <= 1
      BY DEF PlaceInv
    <3> QED BY <3>1, <3>2, <3>3, Numbers
  <2>2. rtl_idx' < 0 => rtl_idx = 0
    BY <1>0, <1>8 DEF ExecArrives
  <2>3. Gap(odom, Home) \in Nat
    BY <1>0, GapFacts, Numbers
  <2>4. current_goal' \in Pos
    <3>1. rtl_idx > 0 => rtl_idx \in 1..Len(breadcrumbs)
      BY <1>0, <1>8 DEF ExecArrives, TypeOK
    <3> QED BY <1>0, <1>8, <3>1, Numbers DEF ExecArrives
  <2> QED BY <1>0, <1>8, <2>1, <2>2, <2>3, <2>4, Numbers DEF ExecArrives, PlaceInv
<1>9. CASE ExecCompletes
  <2>1. Gap(odom, Home) <= Arrival /\ Gap(odom, Home) \in Nat
    BY <1>0, <1>9, GapFacts, Numbers DEF ExecCompletes, PastHome, PlaceInv
  <2>2. Len(breadcrumbs') = 1 /\ breadcrumbs'[1] = Home /\ breadcrumbs' # <<>>
    BY <1>9 DEF ExecCompletes
  <2>3. Gap(Home, Home) = 0
    BY Numbers, GapFacts
  <2>4. home_recorded
    BY <1>9 DEF ExecCompletes, PlaceInv
  <2> QED BY <1>9, <2>1, <2>2, <2>3, <2>4, Numbers DEF ExecCompletes, PlaceInv
<1>10. CASE \/ PlannerLeavesStop \/ PlannerEmergency \/ TakesOff
            \/ \E p \in Goals : UserGoal(p)
            \/ \E p \in Pos : PlannerMovesGoal(p)
  BY <1>10 DEF PlannerLeavesStop, PlannerEmergency, TakesOff, UserGoal, PlannerMovesGoal,
     rtlVars, PlaceInv
<1>11. CASE VehicleMoves
  <2>1. /\ odom = vehicle
        /\ vehicle' = vehicle + 1 \/ vehicle' = vehicle - 1
    BY <1>11 DEF VehicleMoves, MayMove
  <2>2. Gap(vehicle', odom) <= 1
    BY <1>0, <2>1, Numbers, NextTo
  <2> QED BY <1>11, <2>2 DEF VehicleMoves, MayMove, rtlVars, PlaceInv
<1>12. CASE UNCHANGED vars
  BY <1>12 DEF vars, rtlVars, PlaceInv
<1>13. ASSUME NEW p \in Pos, PilotFlies(p)
       PROVE  PlaceInv'
  <2>1. Gap(vehicle', odom') <= 1
    BY <1>13 DEF PilotFlies, MayMove, rtlVars
  <2> QED BY <1>13, <2>1 DEF PilotFlies, MayMove, rtlVars, PlaceInv
<1> QED
  BY <1>1, <1>2, <1>3, <1>4, <1>5, <1>6, <1>7, <1>8, <1>9, <1>10, <1>11, <1>12, <1>13
     DEF Next, OdomCallback, Exec

\* The trail, step by step: it changes only where odometry is heard, and when a
\* return ends.
LEMMA TrailStep ==
  ASSUME TypeOK, PlaceInv, LegsShort, TrailApart, [Next]_vars
  PROVE  LegsShort' /\ TrailApart'
<1>0. /\ breadcrumbs \in Seq(Pos) /\ Len(breadcrumbs) \in Nat
      /\ odom \in Pos /\ vehicle \in Pos /\ last_record_pos \in Pos
  BY DEF TypeOK
<1>1. ASSUME NEW b \in Pos, breadcrumbs' = <<b>>
      PROVE  LegsShort' /\ TrailApart'
  BY <1>1 DEF LegsShort, TrailApart
<1>2. CASE HomeRecorded
  <2>1. breadcrumbs' = <<Home>>
    BY <1>2 DEF HomeRecorded, PlaceInv
  <2> QED BY <2>1, <1>1, Numbers
<1>3. CASE ComesBack
  <2>1. PICK i \in 1..Len(breadcrumbs) - 1 : breadcrumbs' = Truncated(i)
    BY <1>3, BackTo
  <2>2. Len(breadcrumbs') = i /\ \A k \in 1..i : breadcrumbs'[k] = breadcrumbs[k]
    BY <1>0, <2>1, Trails, Numbers DEF Truncated
  <2>3. LegsShort'
    BY <1>0, <2>1, <2>2 DEF LegsShort, LegLimit
  <2>4. TrailApart'
    BY <1>0, <2>1, <2>2 DEF TrailApart
  <2> QED BY <2>3, <2>4
<1>4. ASSUME NEW turned \in BOOLEAN, Records(turned)
      PROVE  LegsShort' /\ TrailApart'
  <2> DEFINE n == Len(breadcrumbs)
  <2>1. /\ n \in Nat /\ Len(breadcrumbs') = n + 1 /\ n >= 1
        /\ \A k \in 1..n : breadcrumbs'[k] = breadcrumbs[k] /\ breadcrumbs[k] \in Pos
        /\ breadcrumbs'[n + 1] = vehicle
    BY <1>0, <1>4 DEF Records, PlaceInv
  <2>2. LegLimit(breadcrumbs[n], vehicle)
    <3>1. /\ Gap(vehicle, odom) <= 1
          /\ Gap(odom, last_record_pos) <= Dist
          /\ 2 * Gap(last_record_pos, breadcrumbs[n]) < Dist
      BY <1>4 DEF Records, PlaceInv
    <3>2. breadcrumbs[n] \in Pos
      BY <2>1
    <3>3. /\ Gap(breadcrumbs[n], vehicle) = Gap(vehicle, breadcrumbs[n])
          /\ Gap(vehicle, breadcrumbs[n]) <= Gap(vehicle, odom) + Gap(odom, breadcrumbs[n])
          /\ Gap(odom, breadcrumbs[n])
               <= Gap(odom, last_record_pos) + Gap(last_record_pos, breadcrumbs[n])
      BY <1>0, <3>2, GapFacts
    <3>4. /\ Gap(vehicle, breadcrumbs[n]) \in Nat /\ Gap(vehicle, odom) \in Nat
          /\ Gap(odom, breadcrumbs[n]) \in Nat /\ Gap(odom, last_record_pos) \in Nat
          /\ Gap(last_record_pos, breadcrumbs[n]) \in Nat
      BY <1>0, <3>2, GapFacts
    <3> QED BY <3>1, <3>3, <3>4, Numbers DEF LegLimit
  <2>3. LegsShort'
    <3>1. ASSUME NEW i \in 1..n
          PROVE  LegLimit(breadcrumbs'[i], breadcrumbs'[i + 1])
      <4>1. CASE i = n
        BY <2>1, <2>2, <4>1
      <4>2. CASE i < n
        BY <2>1, <4>2 DEF LegsShort
      <4> QED BY <4>1, <4>2
    <3> QED BY <2>1, <3>1 DEF LegsShort, LegLimit
  <2>4. \A i \in 1..n - 1 : 2 * Gap(vehicle, breadcrumbs[i]) >= Dist
    <3>1. \A i \in 1..n - 1 : ~(2 * Gap(vehicle, breadcrumbs[i]) < Dist)
      BY <1>4 DEF Records, Near
    <3>2. ASSUME NEW i \in 1..n - 1
          PROVE  Gap(vehicle, breadcrumbs[i]) \in Nat
      <4>1. breadcrumbs[i] \in Pos
        BY <2>1
      <4> QED BY <1>0, <4>1, GapFacts
    <3> QED BY <3>1, <3>2, Numbers
  <2>5. TrailApart'
    <3>1. ASSUME NEW i \in 1..n + 1, NEW j \in 1..n + 1, i + 1 < j
          PROVE  2 * Gap(breadcrumbs'[i], breadcrumbs'[j]) >= Dist
      <4>1. CASE j = n + 1
        <5>1. i \in 1..n - 1 /\ breadcrumbs[i] \in Pos
          BY <2>1, <3>1, <4>1
        <5>2. Gap(breadcrumbs[i], vehicle) = Gap(vehicle, breadcrumbs[i])
          BY <1>0, <5>1, GapFacts
        <5>3. breadcrumbs'[i] = breadcrumbs[i] /\ breadcrumbs'[j] = vehicle
          BY <2>1, <4>1, <5>1
        <5> QED BY <2>4, <5>1, <5>2, <5>3
      <4>2. CASE j < n + 1
        BY <2>1, <3>1, <4>2 DEF TrailApart
      <4> QED BY <4>1, <4>2
    <3> QED BY <2>1, <3>1 DEF TrailApart
  <2> QED BY <2>3, <2>5
<1>5. CASE ExecCompletes
  BY <1>5, <1>1, Numbers DEF ExecCompletes
<1>6. CASE UNCHANGED breadcrumbs
  BY <1>6 DEF LegsShort, TrailApart
<1>7. CASE OdomOnly \/ Trigger \/ ExecStart \/ ExecResend \/ ExecArrives
  BY <1>6, <1>7 DEF OdomOnly, Trigger, ExecStart, ExecResend, ExecArrives, rtlVars
<1>8. CASE \/ PlannerLeavesStop \/ PlannerEmergency \/ VehicleMoves \/ TakesOff
           \/ \E p \in Goals : UserGoal(p)
           \/ \E p \in Pos : PlannerMovesGoal(p) \/ PilotFlies(p)
  BY <1>6, <1>8 DEF PlannerLeavesStop, PlannerEmergency, VehicleMoves, TakesOff,
     UserGoal, PlannerMovesGoal, PilotFlies, rtlVars
<1>9. CASE UNCHANGED vars
  BY <1>6, <1>9 DEF vars, rtlVars
<1> QED
  BY <1>2, <1>3, <1>4, <1>5, <1>7, <1>8, <1>9 DEF Next, OdomCallback, Exec

\* All of it holds in every state.
THEOREM TrailCorrect == Spec => []Inv
<1>1. Init => Inv
  <2> SUFFICES ASSUME Init
               PROVE  Inv
    OBVIOUS
  <2>1. Gap(Home, Home) = 0
    BY Numbers, GapFacts
  <2>2. /\ breadcrumbs = <<>> /\ Len(breadcrumbs) = 0 /\ breadcrumbs \in Seq(Pos)
        /\ vehicle = Home /\ odom = Home /\ last_record_pos = Home
    BY DEF Init
  <2>3. TypeOK
    <3>1. /\ state = "IDLE" /\ home_recorded = FALSE /\ rtl_idx = 0
          /\ current_goal = None /\ goal = None /\ stopped = FALSE /\ landing = FALSE
      BY DEF Init
    <3>2. home_recorded \in BOOLEAN /\ stopped \in BOOLEAN /\ landing \in BOOLEAN
      BY <3>1, Zenon
    <3>3. rtl_idx \in Int /\ Home \in Pos
      BY <3>1, Numbers
    <3> QED BY <2>2, <3>1, <3>2, <3>3, Zenon DEF TypeOK
  <2>4. PlaceInv
    <3>1. Gap(vehicle, odom) <= 1
      <4>1. Gap(vehicle, odom) = 0
        BY <2>1, <2>2, Zenon
      <4> QED BY <4>1
    <3>2. state = "IDLE" /\ home_recorded = FALSE
      BY DEF Init
    <3> QED BY <2>2, <3>1, <3>2 DEF PlaceInv
  <2>5. LegsShort /\ TrailApart
    BY <2>2 DEF LegsShort, TrailApart
  <2> QED BY <2>3, <2>4, <2>5 DEF Inv
<1>2. Inv /\ [Next]_vars => Inv'
  BY TypeStep, PlaceStep, TrailStep DEF Inv
<1> QED BY <1>1, <1>2, PTL DEF Spec

\* From wherever a return is triggered the breadcrumbs lead to Home, by legs of
\* at most half as much again as the distance between breadcrumbs.
THEOREM LeadsHome == Spec => []TrailLeadsHome
<1>1. Inv => TrailLeadsHome
  <2> SUFFICES ASSUME Inv, home_recorded
               PROVE  /\ breadcrumbs # <<>> /\ breadcrumbs[1] = Home
                      /\ \A i \in 1..Len(breadcrumbs) - 1 :
                           LegLimit(breadcrumbs[i], breadcrumbs[i + 1])
                      /\ state = "IDLE" => LegLimit(odom, Last(breadcrumbs))
    BY DEF Inv, TrailLeadsHome
  <2>1. breadcrumbs # <<>> /\ breadcrumbs[1] = Home /\ breadcrumbs \in Seq(Pos)
    BY DEF Inv, PlaceInv, TypeOK
  <2>2. ASSUME state = "IDLE"
        PROVE  LegLimit(odom, Last(breadcrumbs))
    <3> DEFINE b == breadcrumbs[Len(breadcrumbs)]
    <3>1. b \in Pos /\ odom \in Pos /\ last_record_pos \in Pos /\ Last(breadcrumbs) = b
      BY <2>1 DEF Inv, TypeOK, Last
    <3>2. Gap(odom, last_record_pos) <= Dist /\ 2 * Gap(last_record_pos, b) < Dist
      BY <2>2 DEF Inv, PlaceInv
    <3>3. Gap(odom, b) <= Gap(odom, last_record_pos) + Gap(last_record_pos, b)
      BY <3>1, GapFacts
    <3>4. Gap(odom, b) \in Nat /\ Gap(odom, last_record_pos) \in Nat
          /\ Gap(last_record_pos, b) \in Nat
      BY <3>1, GapFacts
    <3> QED BY <3>1, <3>2, <3>3, <3>4, Numbers DEF LegLimit
  <2> QED BY <2>1, <2>2 DEF Inv, LegsShort
<1> QED BY <1>1, TrailCorrect, PTL

\* Breadcrumbs that do not follow each other are apart, whatever loops were
\* flown: a return never goes round.
THEOREM Apart == Spec => []TrailApart
<1>1. Inv => TrailApart
  BY DEF Inv
<1> QED BY <1>1, TrailCorrect, PTL

\* The landing order is given only at Home, whoever sent the planner where
\* since the last breadcrumb was reached.
THEOREM LandsThere == Spec => LandsAtHome
<1>1. Inv /\ [Next]_vars => [ExecCompletes => Gap(vehicle, Home) <= Arrival]_vars
  BY DEF Inv, PlaceInv, ExecCompletes, PastHome
<1> QED BY <1>1, TrailCorrect, PTL DEF Spec, LandsAtHome
=============================================================================
