-------------------------- MODULE TrajServerProofs ---------------------------
(***************************************************************************)
(* The trajectory server, for any number of trajectories, points and yaw   *)
(* commands: types, hovering in place, and holding before letting go.      *)
(***************************************************************************)
EXTENDS TrajServer, TLAPS

\* The position of the yaw command is where the vehicle is.
AtYaw == yaw_pos = last_pos \/ last_pos = Unset

\* Whenever the server may hold the position of a yaw command, the vehicle is
\* there: because nothing was flown since the command (first conjunct), or
\* because the command came after the end of what was flown (second).
YawInv ==
  /\ ~receive_traj /\ ~dropped /\ finish = "none" /\ yaw # "none" => AtYaw
  /\ finish # "none" /\ yaw # "none" /\ yaw_late => AtYaw

\* What is being finished has ended and was held.
FinishInv ==
  /\ finish # "none" => point = Over /\ held
  /\ receive_traj => traj \in 1..MaxTraj

Inv == TypeOK /\ YawInv /\ FinishInv

-----------------------------------------------------------------------------
LEMMA InitInv == Init => Inv
<1> SUFFICES ASSUME Init PROVE Inv
  OBVIOUS
<1>1. TypeOK
  <2>1. /\ receive_traj \in BOOLEAN /\ yaw_late \in BOOLEAN /\ yaw_old \in BOOLEAN
        /\ aligned \in BOOLEAN /\ held \in BOOLEAN /\ dropped \in BOOLEAN
    BY Zenon DEF Init
  <2>2. /\ yaw_mode \in {0, 1} /\ beat \in {"never", "fresh", "lost"}
        /\ traj \in 0..MaxTraj /\ point \in 0..Over /\ yaws \in 0..MaxYaw
        /\ finish \in {"none", "recent", "old"} /\ yaw \in {"none", "clear", "turn"}
    BY BoundAssumption DEF BoundAssumption, Init, Over
  <2>3. yaw_pos \in Places /\ last_pos \in Places \cup {Unset}
    BY DEF Init, Places
  <2> QED  BY <2>1, <2>2, <2>3, Zenon DEF TypeOK
<1>2. YawInv /\ FinishInv
  BY DEF Init, YawInv, FinishInv
<1> QED  BY <1>1, <1>2 DEF Inv

LEMMA TypeStep == Inv /\ [Next]_vars => TypeOK'
<1> SUFFICES ASSUME Inv, [Next]_vars PROVE TypeOK'
  OBVIOUS
<1> USE BoundAssumption DEF BoundAssumption, Inv, TypeOK, FinishInv, Over
<1>0. Home \in Places /\ Places' = Places
  BY DEF Places
<1>1. CASE HeartbeatCallback
  BY <1>0, <1>1 DEF HeartbeatCallback, trajVars, yawVars, ghostVars
<1>2. CASE YawCallback
  <2>1. yaw_pos' \in Places
    BY <1>0, <1>2 DEF YawCallback
  <2>2. /\ yaw_late' \in BOOLEAN /\ yaw_old' \in BOOLEAN /\ aligned' \in BOOLEAN
        /\ dropped' \in BOOLEAN
    BY <1>2, Zenon DEF YawCallback
  <2>3. yaws' \in 0..MaxYaw /\ yaw' \in {"none", "clear", "turn"}
    BY <1>2 DEF YawCallback
  <2> QED  BY <1>0, <1>2, <2>1, <2>2, <2>3, Zenon DEF YawCallback, trajVars
<1>3. CASE PolyTrajCallback
  <2>1. receive_traj' \in BOOLEAN /\ aligned' \in BOOLEAN /\ held' \in BOOLEAN /\ dropped' \in BOOLEAN
    BY <1>3, Zenon DEF PolyTrajCallback
  <2>2. traj' \in 0..MaxTraj /\ point' \in 0..Over /\ finish' \in {"none", "recent", "old"}
    BY <1>3 DEF PolyTrajCallback, FinishReset
  <2> QED  BY <1>0, <1>3, <2>1, <2>2, Zenon DEF PolyTrajCallback, yawVars
<1>4. CASE TickHolds
  BY <1>0, <1>4 DEF TickHolds, trajVars, yawVars, ghostVars
<1>5. CASE TickTurns
  BY <1>0, <1>5 DEF TickTurns, trajVars, yawVars, ghostVars
<1>6. CASE TickFlies
  <2>1. <<traj, point>> \in Places
    BY <1>6 DEF TickFlies, InTime, Places
  <2>2. receive_traj' \in BOOLEAN /\ aligned' \in BOOLEAN /\ dropped' \in BOOLEAN
    BY <1>6, Zenon DEF TickFlies, Lost, AlignedYet
  <2>3. yaw' \in {"none", "clear", "turn"}
    BY <1>6 DEF TickFlies
  <2> QED  BY <1>0, <1>6, <2>1, <2>2, <2>3 DEF TickFlies
<1>7. CASE TickTooEarly
  <2>1. receive_traj' \in BOOLEAN /\ aligned' \in BOOLEAN /\ dropped' \in BOOLEAN
    BY <1>7, Zenon DEF TickTooEarly, Lost, AlignedYet
  <2> QED  BY <1>0, <1>7, <2>1 DEF TickTooEarly, yawVars
<1>8. CASE TickAligns
  <2>1. receive_traj' \in BOOLEAN /\ dropped' \in BOOLEAN
    BY <1>8, Zenon DEF TickAligns, Lost
  <2> QED  BY <1>0, <1>8, <2>1 DEF TickAligns, yawVars
<1>9. CASE TickFinishes
  <2>1. /\ receive_traj' \in BOOLEAN /\ aligned' \in BOOLEAN /\ dropped' \in BOOLEAN
        /\ yaw_late' \in BOOLEAN /\ held' \in BOOLEAN
    BY <1>9, Zenon DEF TickFinishes, Lost, AlignedYet
  <2>2. finish' \in {"none", "recent", "old"}
    BY <1>9 DEF TickFinishes, FinishStarts
  <2> QED  BY <1>0, <1>9, <2>1, <2>2 DEF TickFinishes
<1>10. CASE BeatExpires \/ TrajAdvances \/ FinishAges \/ YawAges
  <2>1. /\ beat' \in {"never", "fresh", "lost"} /\ point' \in 0..Over
        /\ finish' \in {"none", "recent", "old"}
    BY <1>10 DEF BeatExpires, TrajAdvances, FinishAges, YawAges, trajVars
  <2>2. yaw_old' \in BOOLEAN
    BY <1>10, Zenon DEF BeatExpires, TrajAdvances, FinishAges, YawAges, yawVars
  <2> QED
    BY <1>0, <1>10, <2>1, <2>2, Zenon DEF BeatExpires, TrajAdvances, FinishAges, YawAges,
      trajVars, yawVars, ghostVars
<1>11. CASE UNCHANGED vars
  BY <1>0, <1>11 DEF vars, trajVars, yawVars, ghostVars
<1> QED
  BY <1>1, <1>2, <1>3, <1>4, <1>5, <1>6, <1>7, <1>8, <1>9, <1>10, <1>11 DEF Next

LEMMA YawStep == Inv /\ [Next]_vars => YawInv'
<1> SUFFICES ASSUME Inv, [Next]_vars PROVE YawInv'
  OBVIOUS
<1> USE BoundAssumption DEF BoundAssumption, Inv, TypeOK, YawInv, FinishInv, AtYaw, Over
<1>1. CASE HeartbeatCallback \/ BeatExpires \/ TrajAdvances \/ FinishAges \/ YawAges
  <2>1. UNCHANGED <<receive_traj, dropped, yaw, yaw_late, yaw_pos, last_pos>>
    BY <1>1, Zenon DEF HeartbeatCallback, BeatExpires, TrajAdvances, FinishAges, YawAges,
      trajVars, yawVars, ghostVars
  <2>2. finish' = "none" <=> finish = "none"
    BY <1>1 DEF HeartbeatCallback, BeatExpires, TrajAdvances, FinishAges, YawAges, trajVars
  <2> QED  BY <2>1, <2>2, Zenon
<1>2. CASE YawCallback
  BY <1>2 DEF YawCallback, trajVars
<1>3. CASE PolyTrajCallback
  BY <1>3 DEF PolyTrajCallback, FinishReset, yawVars
<1>4. CASE TickHolds \/ TickTurns
  BY <1>4 DEF TickHolds, TickTurns, trajVars, yawVars, ghostVars
<1>5. CASE TickFlies
  <2>1. receive_traj' \/ dropped'
    BY <1>5, Zenon DEF TickFlies
  <2>2. finish' = "none"
    BY <1>5 DEF TickFlies, InTime
  <2> QED  BY <2>1, <2>2
<1>6. CASE TickTooEarly
  BY <1>6 DEF TickTooEarly, Lost, yawVars
<1>7. CASE TickAligns
  BY <1>7 DEF TickAligns, Lost, yawVars
<1>8. CASE TickFinishes
  BY <1>8 DEF TickFinishes, FinishStarts, Lost
<1>9. CASE UNCHANGED vars
  BY <1>9 DEF vars, trajVars, yawVars, ghostVars
<1> QED
  BY <1>1, <1>2, <1>3, <1>4, <1>5, <1>6, <1>7, <1>8, <1>9 DEF Next

LEMMA FinishStep == Inv /\ [Next]_vars => FinishInv'
<1> SUFFICES ASSUME Inv, [Next]_vars PROVE FinishInv'
  OBVIOUS
<1> USE BoundAssumption DEF BoundAssumption, Inv, TypeOK, FinishInv, Over
<1>1. CASE HeartbeatCallback \/ BeatExpires \/ TrajAdvances \/ FinishAges \/ YawAges
  BY <1>1 DEF HeartbeatCallback, BeatExpires, TrajAdvances, FinishAges, YawAges, trajVars,
    yawVars, ghostVars
<1>2. CASE YawCallback
  BY <1>2 DEF YawCallback, trajVars
<1>3. CASE PolyTrajCallback
  BY <1>3 DEF PolyTrajCallback, FinishReset, yawVars
<1>4. CASE TickHolds \/ TickTurns
  BY <1>4 DEF TickHolds, TickTurns, trajVars, yawVars, ghostVars
<1>5. CASE TickFlies
  BY <1>5 DEF TickFlies, InTime
<1>6. CASE TickTooEarly
  BY <1>6 DEF TickTooEarly, yawVars
<1>7. CASE TickAligns
  BY <1>7 DEF TickAligns, yawVars
<1>8. CASE TickFinishes
  BY <1>8 DEF TickFinishes, FinishStarts
<1>9. CASE UNCHANGED vars
  BY <1>9 DEF vars, trajVars, yawVars, ghostVars
<1> QED
  BY <1>1, <1>2, <1>3, <1>4, <1>5, <1>6, <1>7, <1>8, <1>9 DEF Next

LEMMA Invariance == Spec => []Inv
<1>1. Inv /\ [Next]_vars => Inv'
  BY TypeStep, YawStep, FinishStep DEF Inv
<1> QED  BY InitInv, <1>1, PTL DEF Spec

\* Every variable keeps its type; no setpoint lies outside the trajectories.
THEOREM TypeCorrect == Spec => []TypeOK
<1>1. Inv => TypeOK  BY DEF Inv
<1> QED  BY Invariance, <1>1, PTL

-----------------------------------------------------------------------------
(* Hovering in place: only a callback publishes, and apart from the point  *)
(* of the trajectory it publishes last_pos_ or the yaw command's position. *)

\* What the callback publishes without motion is in place.
InPlace(setpoint) == setpoint.by # "fly" => setpoint.pos = last_pos \/ last_pos = Unset \/ dropped

LEMMA HoldInPlace == \A i \in 1..Len(Hold) : InPlace(Hold[i])
<1>1. CASE Lost
  <2>1. Hold = <<Setpoint(last_pos, "hold")>>  BY <1>1 DEF Hold
  <2>2. InPlace(Setpoint(last_pos, "hold"))  BY DEF InPlace, Setpoint
  <2> QED  BY <2>1, <2>2
<1>2. CASE ~Lost
  BY <1>2 DEF Hold
<1> QED  BY <1>1, <1>2

LEMMA AppendInPlace ==
  ASSUME NEW sp, InPlace(sp)
  PROVE  \A i \in 1..Len(Append(Hold, sp)) : InPlace(Append(Hold, sp)[i])
<1>1. CASE Lost
  <2> DEFINE first == Setpoint(last_pos, "hold")
  <2>1. InPlace(first)  BY DEF InPlace, Setpoint
  <2>2. Append(Hold, sp) = Append(<<first>>, sp)  BY <1>1 DEF Hold
  <2> HIDE DEF first
  <2>3. /\ Len(Append(<<first>>, sp)) = 2
        /\ Append(<<first>>, sp)[1] = first /\ Append(<<first>>, sp)[2] = sp
    OBVIOUS
  <2> QED  BY <2>1, <2>2, <2>3
<1>2. CASE ~Lost
  <2>1. Append(Hold, sp) = <<sp>>  BY <1>2 DEF Hold
  <2> QED  BY <2>1
<1> QED  BY <1>1, <1>2

\* The server never moves a vehicle that is not flying a trajectory, except
\* after a trajectory was dropped.
THEOREM HoldsInPlace == Spec => HoldsPosition
<1>1. ASSUME Inv, Next
      PROVE  \A i \in 1..Len(out') : InPlace(out'[i])
  <2>1. CASE \/ HeartbeatCallback \/ YawCallback \/ PolyTrajCallback
             \/ BeatExpires \/ TrajAdvances \/ FinishAges \/ YawAges
    BY <2>1 DEF HeartbeatCallback, YawCallback, PolyTrajCallback, BeatExpires, TrajAdvances,
      FinishAges, YawAges
  <2>2. CASE TickHolds
    BY <2>2 DEF TickHolds, Setpoint, InPlace
  <2>3. CASE TickTurns
    <3>1. yaw = "turn" => AtYaw \/ dropped
      BY <1>1, <2>3 DEF TickTurns, NewYawForPrealign, Inv, YawInv
    <3> QED  BY <2>3, <3>1 DEF TickTurns, Setpoint, InPlace, AtYaw
  <2>4. CASE TickFlies
    <3>1. InPlace(Setpoint(<<traj, point>>, "fly"))
      BY DEF InPlace, Setpoint
    <3> QED  BY <2>4, <3>1, AppendInPlace DEF TickFlies
  <2>5. CASE TickTooEarly
    BY <2>5, HoldInPlace DEF TickTooEarly
  <2>6. CASE TickAligns \/ TickFinishes
    <3>1. InPlace(Setpoint(last_pos, "align")) /\ InPlace(Setpoint(last_pos, "hold"))
      BY DEF InPlace, Setpoint
    <3> QED  BY <2>6, <3>1, AppendInPlace, HoldInPlace DEF TickAligns, TickFinishes
  <2> QED  BY <1>1, <2>1, <2>2, <2>3, <2>4, <2>5, <2>6 DEF Next
<1>2. Inv /\ [Next]_vars =>
        [\A i \in 1..Len(out') :
           out'[i].by # "fly" => out'[i].pos = last_pos \/ last_pos = Unset \/ dropped]_vars
  BY <1>1 DEF InPlace
<1> QED  BY Invariance, <1>2, PTL DEF Spec, HoldsPosition

\* No trajectory is let go before its end was held, while the planner lives.
THEOREM HeldFirst == Spec => HeldBeforeRelease
<1>1. Inv /\ [Next]_vars => [receive_traj /\ ~receive_traj' /\ ~Lost => held]_vars
  <2> SUFFICES ASSUME Inv, Next, receive_traj, ~receive_traj', ~Lost PROVE held
    OBVIOUS
  <2>1. CASE TickFinishes
    BY <2>1 DEF TickFinishes, FinishStarts, Inv, FinishInv, TypeOK
  <2>2. CASE ~TickFinishes
    BY <2>2, Zenon DEF Next, HeartbeatCallback, YawCallback, PolyTrajCallback, TickHolds, TickTurns,
      TickFlies, TickTooEarly, TickAligns, BeatExpires, TrajAdvances, FinishAges, YawAges,
      trajVars
  <2> QED  BY <2>1, <2>2
<1> QED  BY Invariance, <1>1, PTL DEF Spec, HeldBeforeRelease
=============================================================================
