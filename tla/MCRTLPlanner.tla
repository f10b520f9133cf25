---------------------------- MODULE MCRTLPlanner ----------------------------
(***************************************************************************)
(* Model-checking instance of RTLPlanner: a corridor one metre high up to  *)
(* its last place, which is higher.                                        *)
(***************************************************************************)
EXTENDS RTLPlanner

EndIsHigh == [p \in Pos |-> IF p = Far THEN Far - 1 ELSE p]
=============================================================================
