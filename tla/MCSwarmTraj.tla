----------------------------- MODULE MCSwarmTraj -----------------------------
(***************************************************************************)
(* Model-checking instance of SwarmTraj: three drones, the first of which  *)
(* broadcasts most.                                                        *)
(***************************************************************************)
EXTENDS SwarmTraj

FewerAndFewer == [d \in Drones |-> N - d]
=============================================================================
