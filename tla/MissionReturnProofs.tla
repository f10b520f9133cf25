------------------------- MODULE MissionReturnProofs -------------------------
(***************************************************************************)
(* Proofs about MissionReturn, for missions of every length, every queue   *)
(* and any number of gate crashes, with calls that fail or do not.         *)
(***************************************************************************)
EXTENDS MissionReturn, SequenceTheorems, TLAPS

\* The way back has as many waypoints as the mission.
LEMMA WayBack ==
  /\ Reverse(Mission) \in Seq(Pos)
  /\ Len(Reverse(Mission)) = Len(Mission)
  /\ Len(Mission) \in Nat /\ Len(Mission) >= 2
<1>1. Mission \in Seq(Pos) /\ Len(Mission) \in Nat /\ Len(Mission) >= 2
  BY MissionAssumption
<1>2. Reverse(Mission) = [i \in 1..Len(Mission) |-> Mission[Len(Mission) - i + 1]]
  BY DEF Reverse
<1>3. \A i \in 1..Len(Mission) : Mission[Len(Mission) - i + 1] \in Pos
  BY <1>1
<1> QED BY <1>1, <1>2, <1>3

\* What the executor relies on without testing it: a run has a path, its clock
\* points into the path, and the thread waits for the gate only in a call.
RunInv ==
  /\ state \in {"RETURNING", "FINISHED"} => path = Reverse(Mission)
  /\ state = "RETURNING" => clock \in 1..Len(Mission)
  /\ (pc = "spin") <=> (call = "idle")
  /\ pc = "set_manual_return" => state = "RETURNING"

\* A call that returned true was answered.
LEMMA AnswerMeansServed ==
  /\ Answers \subseteq BOOLEAN
  /\ TRUE \in Answers => call = "replied"
BY FaultAssumption DEF Answers

\* A published command is a position.
LEMMA PublishType ==
  ASSUME returnQ \in Seq(Pos), NEW p \in Pos, Publish(p)
  PROVE  returnQ' \in Seq(Pos)
<1>1. CASE ~gateUp
  BY <1>1 DEF Publish
<1>2. CASE gateUp /\ Len(returnQ) < QueueSize
  BY <1>2 DEF Publish
<1>3. CASE gateUp /\ ~(Len(returnQ) < QueueSize)
  <2>1. returnQ # <<>>
    BY <1>3, FaultAssumption
  <2> QED BY <1>3, <2>1 DEF Publish
<1> QED BY <1>1, <1>2, <1>3

\* Every variable keeps its type, and the executor's assumptions hold.
THEOREM TypeCorrect == Spec => [](TypeOK /\ RunInv)
<1>1. Init => TypeOK /\ RunInv
  <2> SUFFICES ASSUME Init
               PROVE  TypeOK /\ RunInv
    OBVIOUS
  <2>1. GateTypeOK
    BY MaxCrashesAssumption DEF Init, GateInit, GateTypeOK, Source, Causes
  <2>2. 0 \in 0..Len(Mission)
    BY WayBack
  <2>3. lostReset \in BOOLEAN
    BY DEF Init
  <2>4. TypeOK
    BY <2>1, <2>2, <2>3, WayBack DEF Init, TypeOK, States
  <2>5. RunInv
    BY DEF Init, RunInv
  <2> QED BY <2>4, <2>5
<1>2. TypeOK /\ RunInv /\ [Next]_vars => TypeOK' /\ RunInv'
  <2> SUFFICES ASSUME TypeOK, RunInv, [Next]_vars
               PROVE  TypeOK' /\ RunInv'
    OBVIOUS
  <2> DEFINE Back == Reverse(Mission)
  <2>0. Back \in Seq(Pos) /\ Len(Back) = Len(Mission) /\ Len(Mission) \in Nat /\ Len(Mission) >= 2
    BY WayBack
  <2> HIDE DEF Back
  <2>a. /\ path \in {<<>>, Back}
        /\ state \in {"RETURNING", "FINISHED"} => path = Back
    BY DEF TypeOK, RunInv, Back
  <2> USE DEF TypeOK, RunInv, GateTypeOK, gateVars, States, Source, Causes
  <2>1. CASE OdomCallback
    BY <2>1 DEF OdomCallback
  <2>2. CASE TriggerCall
    BY <2>2, <2>0 DEF TriggerCall
  <2>3. CASE TriggerFails
    BY <2>3, <2>0 DEF TriggerFails, CallFailed
  <2>4. CASE TriggerReturns
    BY <2>4 DEF TriggerReturns, CallEnded, Answers, CallFailed
  <2>5. CASE ResetCall
    BY <2>5 DEF ResetCall
  <2>6. CASE ResetUnreachable
    BY <2>6 DEF ResetUnreachable, ClearUnreached
  <2>7. CASE ResetReturns
    BY <2>7 DEF ResetReturns, CallEnded, Answers
  <2>8. CASE ClockTicks
    <3>1. clock' \in 1..Len(Mission)
      BY <2>8, <2>0, <2>a DEF ClockTicks, TimeLeft
    <3> QED BY <2>8, <2>0, <3>1 DEF ClockTicks, TimeLeft
  <2>9. CASE Execute
    <3>1. path = Back /\ path[clock] \in Pos
      BY <2>9, <2>0, <2>a DEF Execute
    <3>2. returnQ' \in Seq(Pos)
      BY <2>9, <3>1, PublishType DEF Execute
    <3> QED BY <2>9, <3>2 DEF Execute
  <2>10. CASE ExecuteHold
    <3>1. path = Back /\ Last(path) \in Pos
      BY <2>10, <2>0, <2>a DEF ExecuteHold, Last
    <3>2. returnQ' \in Seq(Pos)
      BY <2>10, <3>1, PublishType DEF ExecuteHold, HoldPoint
    <3> QED BY <2>10, <3>2 DEF ExecuteHold, nodeVars
  <2>11. ASSUME NEW service \in {"set_manual_return", "set_normal"}, NEW s \in Source,
                Serve(service, s)
         PROVE  TypeOK' /\ RunInv'
    BY <2>11 DEF Serve, SwitchTo
  <2>12. ASSUME NEW s \in Source, OperatorSwitch(s)
         PROVE  TypeOK' /\ RunInv'
    BY <2>12 DEF OperatorSwitch, SwitchTo, nodeVars
  <2>13. ASSUME NEW p \in Pos, NormalCommand(p)
         PROVE  TypeOK' /\ RunInv'
    BY <2>13 DEF NormalCommand, NormalCallback, Forward, Command, nodeVars
  <2>14. CASE ReturnCommand
    <3>1. Head(returnQ) \in Pos /\ Tail(returnQ) \in Seq(Pos)
      BY <2>14 DEF ReturnCommand
    <3> QED BY <2>14, <3>1 DEF ReturnCommand, ReturnCallback, Forward, Command, nodeVars
  <2>15. CASE GateCrashes
    <3>1. gateUp' \in BOOLEAN
      BY <2>15 DEF GateCrashes, GateCrash
    <3>2. crashes' \in 0..MaxCrashes
      BY <2>15, MaxCrashesAssumption DEF GateCrashes, GateCrash
    <3>3. call' \in {"idle", "requested", "replied", "broken"}
          /\ ((call' = "idle") <=> (call = "idle"))
      BY <2>15 DEF GateCrashes
    <3> QED BY <2>15, <3>1, <3>2, <3>3 DEF GateCrashes, GateCrash
  <2>16. CASE GateStarts
    BY <2>16 DEF GateStarts, GateStart, nodeVars
  <2>17. CASE VehicleMoves
    BY <2>17 DEF VehicleMoves, Command, NoCommand, nodeVars
  <2>18. CASE UNCHANGED vars
    BY <2>18 DEF vars, nodeVars
  <2> QED
    BY <2>1, <2>2, <2>3, <2>4, <2>5, <2>6, <2>7, <2>8, <2>9, <2>10, <2>11, <2>12,
       <2>13, <2>14, <2>15, <2>16, <2>17, <2>18 DEF Next, Trigger, Reset
<1> QED BY <1>1, <1>2, PTL DEF Spec

-----------------------------------------------------------------------------
(* Who has the controller.                                                 *)

\* What the node and the gate know of each other around a call.  A gate that is
\* down, or that broke off a call, has forgotten the node's switches; an answer
\* tells the source unless somebody else has touched it; and until a
\* call is served, a source the node set is the one its state stands for, but
\* for a reset it wrongly believes failed.  Of a node that has FAILED nothing is known: the gate
\* may have switched before the answer was lost.
Unserved == pc = "spin" \/ (pc = "set_normal" /\ call = "requested")

ControlInv ==
  /\ ~gateUp => by = "boot"
  /\ call = "broken" => by # "node"
  /\ pc = "set_manual_return" /\ call = "replied" /\ by = "node" => source = "MANUAL_RETURN"
  /\ pc = "set_normal" /\ call = "replied" /\ by = "node" => source = "NORMAL"
  /\ Unserved /\ state \in {"RETURNING", "FINISHED"} /\ by = "node" /\ ~lostReset
       => source = "MANUAL_RETURN"
  /\ Unserved /\ state = "READY" /\ by = "node" => source = "NORMAL"

Inv == TypeOK /\ RunInv /\ ControlInv

\* Every step of the node and the gate preserves what they know of each other.
THEOREM ControlCorrect == Spec => []Inv
<1>1. Init => ControlInv
  BY DEF Init, GateInit, ControlInv, Unserved
<1>2. TypeOK /\ RunInv /\ ControlInv /\ [Next]_vars => ControlInv'
  <2> SUFFICES ASSUME TypeOK, RunInv, ControlInv, [Next]_vars
               PROVE  ControlInv'
    OBVIOUS
  <2> USE DEF ControlInv, RunInv, Unserved, gateVars
  <2>1. CASE OdomCallback
    BY <2>1 DEF OdomCallback
  <2>2. CASE TriggerCall
    BY <2>2 DEF TriggerCall
  <2>3. CASE TriggerFails
    BY <2>3 DEF TriggerFails, CallFailed
  <2>4. CASE TriggerReturns
    BY <2>4 DEF TriggerReturns, CallEnded, Answers, CallFailed
  <2>5. CASE ResetCall
    BY <2>5 DEF ResetCall
  <2>6. CASE ResetUnreachable
    BY <2>6 DEF ResetUnreachable, ClearUnreached
  <2>7. CASE ResetReturns
    <3>1. PICK answered \in Answers :
            /\ answered => state' = "READY"
            /\ ~answered => state' = state
            /\ lostReset' = (~answered /\ (call = "replied" \/ lostReset))
      BY <2>7 DEF ResetReturns
    <3>2. pc = "set_normal" /\ pc' = "spin" /\ call' = "idle" /\ UNCHANGED gateVars
      BY <2>7 DEF ResetReturns
    <3>3. CASE answered
      <4>1. call = "replied"
        BY <3>3, AnswerMeansServed
      <4>2. by = "node" => source = "NORMAL"
        BY <3>2, <4>1
      <4> QED BY <3>1, <3>2, <3>3, <4>2
    <3>4. CASE ~answered
      <4>1. state' = state /\ lostReset' = (call = "replied" \/ lostReset)
        BY <3>1, <3>4
      <4>2. CASE call = "replied"
        BY <3>2, <4>1, <4>2
      <4>3. CASE call # "replied"
        <5>1. call = "requested" \/ by # "node"
          BY <3>2, <4>3 DEF TypeOK
        <5>2. lostReset' = lostReset
          BY <4>1, <4>3 DEF TypeOK
        <5> QED BY <3>2, <4>1, <5>1, <5>2
      <4> QED BY <4>2, <4>3
    <3> QED BY <3>3, <3>4
  <2>8. CASE ClockTicks
    BY <2>8 DEF ClockTicks
  <2>9. CASE Execute
    BY <2>9 DEF Execute
  <2>10. CASE ExecuteHold
    BY <2>10 DEF ExecuteHold, nodeVars
  <2>11. CASE \/ Serve("set_manual_return", "MANUAL_RETURN")
              \/ Serve("set_normal", "NORMAL")
    BY <2>11 DEF Serve, SwitchTo
  <2>12. ASSUME NEW s \in Source, OperatorSwitch(s)
         PROVE  ControlInv'
    BY <2>12 DEF OperatorSwitch, SwitchTo, nodeVars
  <2>13. ASSUME NEW p \in Pos, NormalCommand(p)
         PROVE  ControlInv'
    BY <2>13 DEF NormalCommand, NormalCallback, nodeVars
  <2>14. CASE ReturnCommand
    BY <2>14 DEF ReturnCommand, ReturnCallback, nodeVars
  <2>15. CASE GateCrashes
    BY <2>15 DEF GateCrashes, GateCrash
  <2>16. CASE GateStarts
    BY <2>16 DEF GateStarts, GateStart, nodeVars
  <2>17. CASE VehicleMoves
    BY <2>17 DEF VehicleMoves, nodeVars
  <2>18. CASE UNCHANGED vars
    BY <2>18 DEF vars, nodeVars
  <2> QED
    BY <2>1, <2>2, <2>3, <2>4, <2>5, <2>6, <2>7, <2>8, <2>9, <2>10, <2>11, <2>12,
       <2>13, <2>14, <2>15, <2>16, <2>17, <2>18 DEF Next, Trigger, Reset
<1> QED BY <1>1, <1>2, TypeCorrect, PTL DEF Spec, Inv

\* While the executor publishes, the gate listens to it, unless the operator or
\* a restart of the gate changed that: however the call in the trigger ends, the
\* node flies on without the controller by its own doing only after a reset the
\* gate has served and whose answer was lost.
THEOREM KeepsControl == Spec => []ControlKept
<1>1. Inv => ControlKept
  BY DEF Inv, ControlInv, ControlKept, InControl, Unserved, Undisturbed
<1> QED BY <1>1, ControlCorrect, PTL

\* A node that says READY has given the controller back, however many resets
\* could not reach the gate or got no answer before.
THEOREM Released == Spec => []ReadyIsReleased
<1>1. Inv => ReadyIsReleased
  BY DEF Inv, ControlInv, ReadyIsReleased, Unserved, Undisturbed
<1> QED BY <1>1, ControlCorrect, PTL

\* No command of the normal stream reaches the controller of a drone that is
\* flying its mission back, unless such a reset has let it in.
THEOREM NormalStaysOut == Spec => NormalNeverRetakes
<1>1. Inv /\ [Next]_vars
        => [InControl /\ Undisturbed /\ ~lostReset /\ follows.src = "MANUAL_RETURN"
              => follows'.src = "MANUAL_RETURN"]_vars
  <2> SUFFICES ASSUME Inv, Next, InControl, Undisturbed, ~lostReset,
                      follows.src = "MANUAL_RETURN"
               PROVE  follows'.src = "MANUAL_RETURN"
    BY DEF vars
  <2>1. source = "MANUAL_RETURN"
    BY DEF Inv, ControlInv, InControl, Unserved, Undisturbed
  <2>2. ASSUME NEW p \in Pos, NormalCommand(p)
        PROVE  UNCHANGED follows
    BY <2>1, <2>2 DEF NormalCommand, NormalCallback, Forward, ShouldForward
  <2>3. CASE ReturnCommand
    BY <2>3 DEF ReturnCommand, ReturnCallback, Forward
  <2>4. CASE OdomCallback \/ Trigger \/ TriggerReturns \/ Reset \/ ResetReturns
    BY <2>4 DEF OdomCallback, Trigger, TriggerCall, TriggerFails, TriggerReturns,
       Reset, ResetCall, ResetUnreachable, ResetReturns, gateVars
  <2>5. CASE ClockTicks \/ Execute \/ ExecuteHold \/ VehicleMoves
    BY <2>5 DEF ClockTicks, Execute, ExecuteHold, VehicleMoves, gateVars
  <2>6. CASE \/ Serve("set_manual_return", "MANUAL_RETURN")
             \/ Serve("set_normal", "NORMAL")
             \/ \E s \in Source : OperatorSwitch(s)
    BY <2>6 DEF Serve, OperatorSwitch, SwitchTo
  <2>7. CASE GateCrashes \/ GateStarts
    BY <2>7 DEF GateCrashes, GateCrash, GateStarts, GateStart
  <2> QED BY <2>2, <2>3, <2>4, <2>5, <2>6, <2>7 DEF Next
<1> QED BY <1>1, ControlCorrect, PTL DEF Spec, NormalNeverRetakes

-----------------------------------------------------------------------------
(* What is flown.                                                          *)

\* A waypoint of the way back is one of the mission.
LEMMA BackInMission ==
  ASSUME NEW i \in 1..Len(Mission)
  PROVE  /\ Reverse(Mission)[i] \in Range(Mission)
         /\ Last(Reverse(Mission)) = Home
<1>1. Mission \in Seq(Pos) /\ Len(Mission) \in Nat /\ Len(Mission) >= 2
  BY MissionAssumption
<1>2. Reverse(Mission) = [k \in 1..Len(Mission) |-> Mission[Len(Mission) - k + 1]]
  BY DEF Reverse
<1>3. Len(Mission) - i + 1 \in DOMAIN Mission
  BY <1>1
<1>4. Len(Reverse(Mission)) = Len(Mission)
  BY WayBack
<1>5. Len(Mission) \in 1..Len(Mission) /\ Len(Mission) - Len(Mission) + 1 = 1
  BY <1>1
<1> QED BY <1>1, <1>2, <1>3, <1>4, <1>5 DEF Range, Last, Home

\* The return stream carries waypoints of the mission and nothing else.
OnMission ==
  /\ \A k \in 1..Len(returnQ) : returnQ[k] \in Range(Mission)
  /\ follows.src = "MANUAL_RETURN" => follows.pos \in Range(Mission)

\* What is published joins the queue at its end, and may push out its head.
LEMMA PublishOn ==
  ASSUME returnQ \in Seq(Pos), NEW p \in Pos, Publish(p), p \in Range(Mission),
         \A k \in 1..Len(returnQ) : returnQ[k] \in Range(Mission)
  PROVE  \A k \in 1..Len(returnQ') : returnQ'[k] \in Range(Mission)
<1>1. CASE ~gateUp
  BY <1>1 DEF Publish
<1>2. CASE gateUp /\ Len(returnQ) < QueueSize
  <2>1. returnQ' = Append(returnQ, p)
    BY <1>2 DEF Publish
  <2> QED BY <2>1
<1>3. CASE gateUp /\ ~(Len(returnQ) < QueueSize)
  <2>1. returnQ' = Append(Tail(returnQ), p) /\ returnQ # <<>>
    BY <1>3, FaultAssumption DEF Publish
  <2>2. /\ Tail(returnQ) \in Seq(Pos)
        /\ Len(Tail(returnQ)) = Len(returnQ) - 1
        /\ \A k \in 1..Len(Tail(returnQ)) : Tail(returnQ)[k] = returnQ[k + 1]
    BY <2>1
  <2>3. \A k \in 1..Len(Tail(returnQ)) : Tail(returnQ)[k] \in Range(Mission)
    BY <2>1, <2>2
  <2>4. \A q \in Seq(Pos) : \A k \in 1..Len(Append(q, p)) :
          Append(q, p)[k] = IF k \in 1..Len(q) THEN q[k] ELSE p
    OBVIOUS
  <2> QED BY <2>1, <2>2, <2>3, <2>4
<1> QED BY <1>1, <1>2, <1>3

\* Whatever the controller was last told by the return stream is a waypoint of
\* this mission: no reset, failed call or gate restart makes the node send
\* anything else.
THEOREM FliesTheMission == Spec => []OnMission
<1>1. Init => OnMission
  BY DEF Init, GateInit, NoCommand, OnMission
<1>2. TypeOK /\ RunInv /\ OnMission /\ [Next]_vars => OnMission'
  <2> SUFFICES ASSUME TypeOK, RunInv, OnMission, [Next]_vars
               PROVE  OnMission'
    OBVIOUS
  <2>0. returnQ \in Seq(Pos)
    BY DEF TypeOK
  <2>1. CASE Execute
    <3>1. path = Reverse(Mission) /\ clock \in 1..Len(Mission)
      BY <2>1 DEF Execute, RunInv
    <3>2. path[clock] \in Range(Mission) /\ path[clock] \in Pos
      BY <3>1, BackInMission, WayBack
    <3>3. Publish(path[clock]) /\ UNCHANGED follows
      BY <2>1 DEF Execute, gateVars
    <3> QED BY <2>0, <3>2, <3>3, PublishOn DEF OnMission
  <2>2. CASE ExecuteHold
    <3>1. path = Reverse(Mission)
      BY <2>2 DEF ExecuteHold, RunInv
    <3>2. Last(path) \in Range(Mission) /\ Last(path) \in Pos
      <4>1. Last(path) = Mission[1] /\ 1 \in DOMAIN Mission /\ Mission[1] \in Pos
        BY <3>1, BackInMission, WayBack, MissionAssumption DEF Home
      <4> QED BY <4>1 DEF Range
    <3>3. Publish(Last(path)) /\ UNCHANGED follows
      BY <2>2 DEF ExecuteHold, HoldPoint, gateVars
    <3> QED BY <2>0, <3>2, <3>3, PublishOn DEF OnMission
  <2>3. CASE ReturnCommand
    <3>1. /\ returnQ # <<>>
          /\ returnQ' = Tail(returnQ)
          /\ follows' \in {follows, [src |-> "MANUAL_RETURN", pos |-> Head(returnQ)]}
      BY <2>3 DEF ReturnCommand, ReturnCallback, Forward
    <3>2. Head(returnQ) \in Range(Mission)
      BY <2>0, <3>1 DEF OnMission
    <3>3. \A k \in 1..Len(returnQ') : returnQ'[k] \in Range(Mission)
      BY <2>0, <3>1 DEF OnMission
    <3> QED BY <3>1, <3>2, <3>3 DEF OnMission
  <2>4. ASSUME NEW p \in Pos, NormalCommand(p)
        PROVE  OnMission'
    BY <2>4 DEF NormalCommand, NormalCallback, Forward, OnMission
  <2>5. CASE GateCrashes
    <3>1. returnQ' = <<>> /\ UNCHANGED follows
      BY <2>5 DEF GateCrashes, GateCrash
    <3> QED BY <3>1 DEF OnMission
  <2>6. CASE UNCHANGED <<returnQ, follows>>
    BY <2>6 DEF OnMission
  <2>7. CASE OdomCallback \/ Trigger \/ TriggerReturns \/ Reset \/ ResetReturns
    BY <2>6, <2>7 DEF OdomCallback, Trigger, TriggerCall, TriggerFails, TriggerReturns,
       Reset, ResetCall, ResetUnreachable, ResetReturns, gateVars
  <2>8. CASE ClockTicks \/ VehicleMoves \/ GateStarts
    BY <2>6, <2>8 DEF ClockTicks, VehicleMoves, GateStarts, GateStart, gateVars
  <2>9. CASE \/ Serve("set_manual_return", "MANUAL_RETURN")
             \/ Serve("set_normal", "NORMAL")
             \/ \E s \in Source : OperatorSwitch(s)
    BY <2>6, <2>9 DEF Serve, OperatorSwitch, SwitchTo
  <2>10. CASE UNCHANGED vars
    BY <2>6, <2>10 DEF vars, gateVars
  <2> QED BY <2>1, <2>2, <2>3, <2>4, <2>5, <2>7, <2>8, <2>9, <2>10 DEF Next
<1> QED BY <1>1, <1>2, TypeCorrect, PTL DEF Spec
=============================================================================
