--------------------------- MODULE ControlHandover ---------------------------
(***************************************************************************)
(* What the return-home stack promises about the controller, without       *)
(* positions, odometry, messages or service calls: in which phase of a     *)
(* return who owns the controller, and who may change that.                *)
(*                                                                         *)
(* owner is the stream the controller is connected to, cause is who made   *)
(* it so last.  The return flight takes the controller in the handover     *)
(* phase only, flies home only if it has it, and is outbound again only    *)
(* after giving it back.  The environment may interfere at any time; the   *)
(* promise is about what the return flight does by itself.                 *)
(***************************************************************************)
VARIABLES phase, owner, cause

vars == <<phase, owner, cause>>

Resting == {"outbound", "planned", "holding", "failed"}
Phases  == Resting \union {"handover", "homing", "resetting"}

Init ==
  /\ phase = "outbound"
  /\ owner = "NORMAL"
  /\ cause = "boot"

\* By the return flight's own doing the controller is with s.
Settled(s) == owner = s \/ cause # "node"

Become(p) == phase' = p /\ UNCHANGED <<owner, cause>>

Own(s) == owner' = s /\ cause' = "node" /\ UNCHANGED phase

Trigger   == phase = "outbound" /\ \E p \in {"handover", "planned", "failed"} : Become(p)
Engage    == phase = "handover" /\ Own("MANUAL_RETURN")
Depart    == phase = "handover" /\ Settled("MANUAL_RETURN") /\ Become("homing")
Abort     == phase = "handover" /\ Settled("NORMAL") /\ Become("failed")
Arrive    == phase = "homing" /\ Become("holding")
Release   == phase \in Resting /\ Become("resetting")
Disengage == phase = "resetting" /\ Own("NORMAL")
Reset     == /\ phase \in Resting \union {"resetting"}
             /\ Settled("NORMAL")
             /\ Become("outbound")

Interfere ==
  /\ owner' \in {"NORMAL", "MANUAL_RETURN"}
  /\ cause' \in {"boot", "operator"}
  /\ UNCHANGED phase

Next ==
  \/ Trigger \/ Engage \/ Depart \/ Abort \/ Arrive
  \/ Release \/ Disengage \/ Reset \/ Interfere

Spec == Init /\ [][Next]_vars

TypeOK ==
  /\ phase \in Phases
  /\ owner \in {"NORMAL", "MANUAL_RETURN"}
  /\ cause \in {"boot", "node", "operator"}

\* Whoever flies home or holds there owns the controller; whoever is outbound,
\* has failed or has only planned does not.  Interference aside.
OwnerMatchesPhase ==
  /\ phase \in {"homing", "holding"} => Settled("MANUAL_RETURN")
  /\ phase \in {"outbound", "planned", "failed"} => Settled("NORMAL")
=============================================================================
