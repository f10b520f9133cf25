----------------------------- MODULE TrajServer ------------------------------
(***************************************************************************)
(* traj_server.cpp, the node between the planner and the controller.  A    *)
(* timer turns the trajectory last received into setpoints; at its end the *)
(* server turns the vehicle to a commanded yaw, holds for a second and     *)
(* falls silent, so that the flight controller may hover by itself.  While *)
(* it has no trajectory, a yaw command makes it hold the position that     *)
(* came with the command.  When the planner's heartbeat stops, it drops    *)
(* the trajectory.                                                         *)
(*                                                                         *)
(* Time is kept as what the callback asks about it: is the heartbeat, the  *)
(* end or the yaw command older than its limit, and which of its points    *)
(* has the trajectory reached.  Any of them may pass its limit at any      *)
(* moment.  A position is a point of a trajectory; the vehicle is where    *)
(* the last setpoint sent it.  Yaw angles are not modelled: alignment may  *)
(* be complete after any setpoint.                                         *)
(***************************************************************************)
EXTENDS Naturals, Sequences

CONSTANTS
  Points,    \* points of a trajectory
  MaxTraj,   \* bound: trajectories received
  MaxYaw     \* bound: yaw commands received

ASSUME BoundAssumption == Points \in Nat \ {0} /\ MaxTraj \in Nat /\ MaxYaw \in Nat

VARIABLES
  yaw_mode,      \* parameter: 0, turn at the end; 1, fly with the commanded yaw
  beat,          \* heartbeat_time_: "never", "fresh" or "lost" (over 0.5 s ago)
  receive_traj,  \* receive_traj_
  traj,          \* number of the trajectory in traj_, 0 for none
  point,         \* its point at this time: 0 before its start, Points + 1 after its end
  finish,        \* traj_finish_time_: "none", "recent" or "old" (1 s ago)
  yaw,           \* last yaw command: "none", "clear" (yaw -100) or "turn"
  yaw_pos,       \* yaw_pos_
  yaw_late,      \* receive_yaw_time_ > traj_finish_time_
  yaw_old,       \* receive_yaw_time_ over 0.5 s ago
  aligned,       \* arrival_yaw_aligned_
  last_pos,      \* last_pos_, the position of the last setpoint
  out,           \* the setpoints of the last callback, oldest first
  yaws,          \* number of yaw commands received
  held,          \* history: was the end of this trajectory held?
  dropped        \* history: was a trajectory dropped, and no command received since?

trajVars == <<receive_traj, traj, point, finish>>
yawVars == <<yaw, yaw_pos, yaw_late, yaw_old, yaws>>
ghostVars == <<held, dropped>>
vars == <<yaw_mode, beat, trajVars, yawVars, aligned, last_pos, out, ghostVars>>

Unset == <<0, 0>>   \* last_pos_ before the first setpoint
Home == <<0, 1>>    \* where the vehicle is by then
Places == {Home} \cup ((1..MaxTraj) \X (1..Points))
Setpoint(place, why) == [pos |-> place, by |-> why]
Over == Points + 1

Init ==
  /\ yaw_mode \in {0, 1}
  /\ beat = "never"
  /\ receive_traj = FALSE
  /\ traj = 0 /\ point = 0
  /\ finish = "none"
  /\ yaw = "none" /\ yaw_pos = Home /\ yaw_late = FALSE /\ yaw_old = FALSE /\ yaws = 0
  /\ aligned = FALSE
  /\ last_pos = Unset
  /\ out = <<>>
  /\ held = FALSE /\ dropped = FALSE

-----------------------------------------------------------------------------
(* Messages.                                                               *)

HeartbeatCallback ==
  /\ beat' = "fresh"
  /\ out' = <<>>
  /\ UNCHANGED <<yaw_mode, trajVars, yawVars, aligned, last_pos, ghostVars>>

\* A command carries the vehicle's position.
YawCallback ==
  /\ yaws < MaxYaw
  /\ yaws' = yaws + 1
  /\ yaw' \in {"clear", "turn"}
  /\ yaw_pos' = IF last_pos = Unset THEN Home ELSE last_pos
  /\ yaw_late' = TRUE
  /\ yaw_old' = FALSE
  /\ aligned' = FALSE
  /\ out' = <<>>
  /\ dropped' = FALSE
  /\ UNCHANGED <<yaw_mode, beat, trajVars, last_pos, held>>

\* Mutant: the end of the last trajectory is not forgotten.
FinishKept == finish

FinishReset == "none"

\* A trajectory of the right order and size; any other is ignored.
PolyTrajCallback ==
  /\ traj < MaxTraj
  /\ traj' = traj + 1
  /\ point' \in 0..Over
  /\ finish' = FinishReset
  /\ receive_traj' = TRUE
  /\ aligned' = FALSE
  /\ out' = <<>>
  /\ held' = FALSE
  /\ dropped' = FALSE
  /\ UNCHANGED <<yaw_mode, beat, yawVars, last_pos>>

-----------------------------------------------------------------------------
(* cmdCallback without a trajectory.  Nothing happens before the first     *)
(* heartbeat.                                                              *)

\* Mutant: a yaw command of any age starts a turn.
AnyYaw == yaw # "none"

NewYawForPrealign == yaw # "none" /\ yaw_late

\* After the end of a trajectory: hold for the rest of the second.
TickHolds ==
  /\ beat # "never"
  /\ ~receive_traj
  /\ finish # "none"
  /\ ~NewYawForPrealign
  /\ out' = IF finish = "recent" THEN <<Setpoint(last_pos, "hold")>> ELSE <<>>
  /\ UNCHANGED <<yaw_mode, beat, trajVars, yawVars, aligned, last_pos, ghostVars>>

\* Hold the position of the yaw command, and turn.
TickTurns ==
  /\ beat # "never"
  /\ ~receive_traj
  /\ finish = "none" \/ NewYawForPrealign
  /\ IF yaw = "turn"
       THEN out' = <<Setpoint(yaw_pos, "turn")>> /\ last_pos' = yaw_pos
       ELSE out' = <<>> /\ UNCHANGED last_pos
  /\ UNCHANGED <<yaw_mode, beat, trajVars, yawVars, aligned, ghostVars>>

-----------------------------------------------------------------------------
(* cmdCallback with a trajectory.  When the heartbeat is lost, the         *)
(* trajectory is dropped and the position held; then the callback goes on, *)
(* as always.                                                              *)

Lost == beat = "lost"
Hold == IF Lost THEN <<Setpoint(last_pos, "hold")>> ELSE <<>>
AlignedYet == aligned /\ ~Lost

InTime == point \in 1..Points

TickFlies ==
  /\ beat # "never"
  /\ receive_traj
  /\ InTime
  /\ receive_traj' = ~Lost
  /\ aligned' = AlignedYet
  /\ yaw' = IF yaw_mode = 1 /\ yaw = "turn" /\ yaw_old THEN "none" ELSE yaw
  /\ last_pos' = <<traj, point>>
  /\ out' = Append(Hold, Setpoint(<<traj, point>>, "fly"))
  /\ dropped' = Lost
  /\ UNCHANGED <<yaw_mode, beat, traj, point, finish, yaw_pos, yaw_late, yaw_old, yaws, held>>

TickTooEarly ==
  /\ beat # "never"
  /\ receive_traj
  /\ point = 0
  /\ receive_traj' = ~Lost
  /\ aligned' = AlignedYet
  /\ out' = Hold
  /\ dropped' = Lost
  /\ UNCHANGED <<yaw_mode, beat, traj, point, finish, yawVars, last_pos, held>>

\* At its end, turn to the commanded yaw.
TickAligns ==
  /\ beat # "never"
  /\ receive_traj
  /\ point = Over
  /\ yaw = "turn" /\ ~AlignedYet
  /\ receive_traj' = ~Lost
  /\ aligned' \in BOOLEAN
  /\ out' = Append(Hold, Setpoint(last_pos, "align"))
  /\ held' = TRUE
  /\ dropped' = Lost
  /\ UNCHANGED <<yaw_mode, beat, traj, point, finish, yawVars, last_pos>>

\* Mutant: every callback starts the second anew.
StartsAgain == "recent"

FinishStarts == IF finish = "none" THEN "recent" ELSE finish

\* Then hold for a second, and let go.
TickFinishes ==
  /\ beat # "never"
  /\ receive_traj
  /\ point = Over
  /\ ~(yaw = "turn" /\ ~AlignedYet)
  /\ aligned' = AlignedYet
  /\ finish' = FinishStarts
  /\ yaw_late' = (yaw_late /\ finish # "none")
  /\ IF finish' = "recent"
       THEN /\ out' = Append(Hold, Setpoint(last_pos, "hold"))
            /\ receive_traj' = ~Lost
            /\ held' = TRUE
       ELSE /\ out' = Hold
            /\ receive_traj' = FALSE
            /\ UNCHANGED held
  /\ dropped' = Lost
  /\ UNCHANGED <<yaw_mode, beat, traj, point, yaw, yaw_pos, yaw_old, yaws, last_pos>>

-----------------------------------------------------------------------------
(* Time.                                                                   *)

\* The planner has died or is busy, or messages are lost.
BeatExpires ==
  /\ beat = "fresh"
  /\ beat' = "lost"
  /\ out' = <<>>
  /\ UNCHANGED <<yaw_mode, trajVars, yawVars, aligned, last_pos, ghostVars>>

TrajAdvances ==
  /\ traj > 0 /\ point < Over
  /\ point' = point + 1
  /\ out' = <<>>
  /\ UNCHANGED <<yaw_mode, beat, receive_traj, traj, finish, yawVars, aligned, last_pos,
                 ghostVars>>

FinishAges ==
  /\ finish = "recent"
  /\ finish' = "old"
  /\ out' = <<>>
  /\ UNCHANGED <<yaw_mode, beat, receive_traj, traj, point, yawVars, aligned, last_pos,
                 ghostVars>>

YawAges ==
  /\ yaw # "none" /\ ~yaw_old
  /\ yaw_old' = TRUE
  /\ out' = <<>>
  /\ UNCHANGED <<yaw_mode, beat, trajVars, yaw, yaw_pos, yaw_late, yaws, aligned, last_pos,
                 ghostVars>>

-----------------------------------------------------------------------------
Next ==
  \/ HeartbeatCallback \/ YawCallback \/ PolyTrajCallback
  \/ TickHolds \/ TickTurns
  \/ TickFlies \/ TickTooEarly \/ TickAligns \/ TickFinishes
  \/ BeatExpires \/ TrajAdvances \/ FinishAges \/ YawAges

Spec == Init /\ [][Next]_vars

\* The timer runs, time passes, a planner that plans sends a heartbeat at least
\* once, and a turn that goes on comes to its end.
FairSpec ==
  /\ Spec
  /\ WF_vars(TickFinishes) /\ SF_vars(TickAligns /\ aligned')
  /\ WF_vars(beat = "never" /\ HeartbeatCallback) /\ WF_vars(TrajAdvances) /\ WF_vars(FinishAges)

-----------------------------------------------------------------------------
(* What must hold.                                                         *)

TypeOK ==
  /\ yaw_mode \in {0, 1}
  /\ beat \in {"never", "fresh", "lost"}
  /\ receive_traj \in BOOLEAN
  /\ traj \in 0..MaxTraj /\ point \in 0..Over
  /\ finish \in {"none", "recent", "old"}
  /\ yaw \in {"none", "clear", "turn"} /\ yaw_pos \in Places
  /\ yaw_late \in BOOLEAN /\ yaw_old \in BOOLEAN /\ yaws \in 0..MaxYaw
  /\ aligned \in BOOLEAN
  /\ last_pos \in Places \cup {Unset}
  /\ held \in BOOLEAN /\ dropped \in BOOLEAN

\* A vehicle that is not flying a trajectory stays where it is: whichever
\* branch sends a setpoint without motion, it is at the position of the last
\* one, unless a trajectory was dropped and no command has come since.
HoldsPosition ==
  [][\A i \in 1..Len(out') :
       out'[i].by # "fly" =>
         out'[i].pos = last_pos \/ last_pos = Unset \/ dropped]_vars

\* While the planner is alive, a trajectory is let go only after its end was
\* held: every trajectory gets a second of its own, whatever was left over
\* from the one before.
HeldBeforeRelease ==
  [][receive_traj /\ ~receive_traj' /\ ~Lost => held]_vars

\* The server does not hold a finished trajectory for ever: "then release so
\* px4ctrl can transition to AUTO_HOVER".
FinishReleases ==
  (receive_traj /\ point = Over) ~> ~receive_traj
=============================================================================
