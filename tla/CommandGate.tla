----------------------------- MODULE CommandGate -----------------------------
(***************************************************************************)
(* The command gate of the return-home stack: command_gate_node, built on  *)
(* the policy class CommandGateCore.  The gate is the only publisher of    *)
(* the controller's position command topic.  Two streams reach it, the     *)
(* normal stream of traj_server and the return stream of the executor, and *)
(* exactly one of them is forwarded.  The selected source changes only by  *)
(* a call of one of two services.                                          *)
(*                                                                         *)
(* The gate is a process of its own.  It keeps its source in memory only,  *)
(* so a gate that is stopped and started again is back in NORMAL.          *)
(***************************************************************************)
EXTENDS Naturals

CONSTANTS
  Pos,          \* positions a command can ask for
  NoPos,        \* "no position": no odometry yet, nothing recorded yet
  MaxCrashes    \* bound: how often the gate process may stop

ASSUME NoPosAssumption == NoPos \notin Pos
ASSUME MaxCrashesAssumption == MaxCrashes \in Nat

VARIABLES
  gateUp,       \* is the gate process running and its services advertised?
  source,       \* CommandGateCore::source_
  by,           \* history: who caused the last switch of source
  follows,      \* history: the last command the controller received
  crashes       \* history: crashes so far

gateVars == <<gateUp, source, by, follows, crashes>>

Source  == {"NORMAL", "MANUAL_RETURN"}
Causes  == {"boot", "node", "operator"}
Command == [src : Source, pos : Pos]
NoCommand == [src |-> "NORMAL", pos |-> NoPos]

GateTypeOK ==
  /\ gateUp \in BOOLEAN
  /\ source \in Source
  /\ by \in Causes
  /\ follows \in Command \union {NoCommand}
  /\ crashes \in 0..MaxCrashes

GateInit ==
  /\ gateUp = TRUE
  /\ source = "NORMAL"
  /\ by = "boot"
  /\ follows = NoCommand
  /\ crashes = 0

\* Mutant: both streams pass.
ForwardAll(input) == TRUE

ShouldForward(input) == input = source

\* A service handler: it cannot refuse, and repeating it changes nothing.
SwitchTo(s, cause) ==
  /\ gateUp
  /\ source' = s
  /\ by' = cause
  /\ UNCHANGED <<gateUp, follows, crashes>>

Forward(s, p) == follows' = IF ShouldForward(s) THEN [src |-> s, pos |-> p] ELSE follows

\* A command of the normal stream reaches the gate.
NormalCallback(p) ==
  /\ gateUp
  /\ Forward("NORMAL", p)
  /\ UNCHANGED <<gateUp, source, by, crashes>>

\* A command of the return stream reaches the gate.
ReturnCallback(p) ==
  /\ gateUp
  /\ Forward("MANUAL_RETURN", p)
  /\ UNCHANGED <<gateUp, source, by, crashes>>

\* The process stops; what it knew is gone.
GateCrash ==
  /\ gateUp
  /\ crashes < MaxCrashes
  /\ gateUp' = FALSE
  /\ source' = "NORMAL"
  /\ by' = "boot"
  /\ crashes' = crashes + 1
  /\ UNCHANGED follows

GateStart ==
  /\ ~gateUp
  /\ gateUp' = TRUE
  /\ UNCHANGED <<source, by, follows, crashes>>
=============================================================================
