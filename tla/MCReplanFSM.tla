----------------------------- MODULE MCReplanFSM -----------------------------
(***************************************************************************)
(* Model-checking instance of ReplanFSM: goals by message, or a preset     *)
(* round of two waypoints.                                                 *)
(***************************************************************************)
EXTENDS ReplanFSM, TLC

CONSTANTS g1, g2

NoWaypoints == <<>>
TwoWaypoints == <<g1, g2>>
=============================================================================
