---------------------------- MODULE MCMultipoint ----------------------------
(***************************************************************************)
(* Model-checking instance of Multipoint: out to one point with a wait and *)
(* to Home without, both one metre high, and back to a point below Home,   *)
(* as all those of config/points.yaml are below the planner's height.      *)
(***************************************************************************)
EXTENDS Multipoint

CONSTANTS home, away, aside, low

OutAndIn == <<[pos |-> away, waits |-> TRUE], [pos |-> home, waits |-> FALSE]>>
BackLow == <<[pos |-> low, waits |-> FALSE]>>
OneMetre == [p \in Pos |-> IF p = low THEN home ELSE p]
=============================================================================
