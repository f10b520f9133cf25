--------------------------- MODULE MCMissionReturn ---------------------------
(***************************************************************************)
(* Model-checking instance of MissionReturn: Home and two waypoints.       *)
(***************************************************************************)
EXTENDS MissionReturn

CONSTANTS p1, p2, p3

TwoWaypoints == <<p1, p2, p3>>
=============================================================================
