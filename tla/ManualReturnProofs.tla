-------------------------- MODULE ManualReturnProofs --------------------------
(***************************************************************************)
(* Proofs about the manual return: the node, ManualReturn, for every set   *)
(* of positions, every bound and every setting of the flags, and from      *)
(* "Induction and recursion" on the planning of its path, ReturnPath, for  *)
(* every flight, map and length.                                           *)
(*                                                                         *)
(* The planning is full of recursive functions.  The library's induction   *)
(* takes a predicate as a parameter, which the provers cannot instantiate; *)
(* here it is stated for sets, of which the predicate's is one.            *)
(***************************************************************************)
EXTENDS ManualReturn, ReturnPath, SequenceTheorems, WellFoundedInduction, TLAPS

\* Every waypoint of a planned path is a position, and a path has two at least.
LEMMA ReturnPathsType ==
  ASSUME NEW h \in Seq(Pos), NEW p \in ReturnPaths(h)
  PROVE  p \in Seq(Pos) /\ Len(p) >= 2 /\ Len(h) >= 2
<1>1. PICK n \in 2..Len(h) : p \in [1..n -> Pos]
  BY DEF ReturnPaths
<1>2. n \in Nat /\ Len(p) = n
  BY <1>1
<1> QED BY <1>1, <1>2

\* A planned path starts at the newest sample and ends at the oldest one.
LEMMA ReturnPathsEnds ==
  ASSUME NEW h \in Seq(Pos), NEW p \in ReturnPaths(h)
  PROVE  p[1] = h[Len(h)] /\ Last(p) = h[1]
<1>1. p \in Seq(Pos) /\ Len(p) >= 2 /\ Len(h) >= 2
  BY ReturnPathsType
<1>2. PICK kept \in [1..Len(p) -> 1..Len(h)] :
        /\ kept[1] = 1 /\ kept[Len(p)] = Len(h)
        /\ \A i \in 1..Len(p) : p[i] = Reverse(h)[kept[i]]
  BY DEF ReturnPaths
<1>3. p[1] = Reverse(h)[1] /\ p[Len(p)] = Reverse(h)[Len(h)]
  BY <1>1, <1>2
<1>4. Reverse(h)[1] = h[Len(h)] /\ Reverse(h)[Len(h)] = h[1]
  BY <1>1 DEF Reverse
<1> QED BY <1>3, <1>4 DEF Last

\* What the handlers rely on without testing it: a run past planning has a
\* path, one that is recording has none, and the thread waits only for a call.
RunInv ==
  /\ state \in {"WAITING_FOR_TAKEOVER", "RETURNING", "FINISHED"} => path # <<>>
  /\ state = "RECORDING" => path = <<>>
  /\ state \in {"WAITING_FOR_TAKEOVER", "RETURNING"} => EnableOutput
  /\ (pc = "spin") <=> (call = "idle")
  /\ pc = "set_manual_return" => state = "WAITING_FOR_TAKEOVER"
  /\ pc = "set_normal" => ResetAllowed /\ EnableOutput

\* A published command is a position.
LEMMA PublishType ==
  ASSUME returnQ \in Seq(Pos), NEW p \in Pos, Publish(p)
  PROVE  returnQ' \in Seq(Pos)
<1>1. CASE ~gateUp
  BY <1>1 DEF Publish
<1>2. CASE gateUp /\ Len(returnQ) < QueueSize
  BY <1>2 DEF Publish
<1>3. CASE gateUp /\ ~(Len(returnQ) < QueueSize)
  <2>1. returnQ # <<>>
    BY <1>3, BoundAssumption
  <2> QED BY <1>3, <2>1 DEF Publish
<1> QED BY <1>1, <1>2, <1>3

LEMMA LastType ==
  ASSUME NEW p \in Seq(Pos), p # <<>>
  PROVE  Last(p) \in Pos
BY DEF Last

\* The node's state is well typed and its handlers' assumptions hold.
THEOREM TypeCorrect == Spec => [](TypeOK /\ RunInv)
<1>1. Init => TypeOK /\ RunInv
  <2> SUFFICES ASSUME Init
               PROVE  TypeOK /\ RunInv
    OBVIOUS
  <2>1. GateTypeOK
    BY MaxCrashesAssumption DEF Init, GateInit, GateTypeOK, Source, Causes
  <2>2. RunInv
    BY DEF Init, RunInv
  <2>3. frameError \in BOOLEAN /\ stopSent \in BOOLEAN
    BY DEF Init
  <2>4. state \in States /\ pc \in {"spin", "set_manual_return", "set_normal"}
        /\ call \in {"idle", "requested", "replied", "broken"}
    BY DEF Init, States
  <2>5. odom \in Pos \union {NoPos} /\ home \in Pos \union {NoPos} /\ vehicle \in Pos
    BY DEF Init
  <2>6. history \in Seq(Pos) /\ path \in Seq(Pos) /\ returnQ \in Seq(Pos) /\ step \in Nat
    BY DEF Init
  <2> QED BY <2>1, <2>2, <2>3, <2>4, <2>5, <2>6 DEF TypeOK
<1>2. TypeOK /\ RunInv /\ [Next]_vars => TypeOK' /\ RunInv'
  <2> SUFFICES ASSUME TypeOK, RunInv, [Next]_vars
               PROVE  TypeOK' /\ RunInv'
    OBVIOUS
  <2> USE DEF TypeOK, RunInv, GateTypeOK, gateVars, States, Source, Causes, ResetAllowed
  <2>1. CASE OdomCallback
    BY <2>1 DEF OdomCallback
  <2>2. CASE OdomWrongFrame
    BY <2>2 DEF OdomWrongFrame
  <2>3. CASE RecordTimer
    BY <2>3 DEF RecordTimer, HaveOdom
  <2>4. CASE TriggerFails
    BY <2>4 DEF TriggerFails
  <2>5. CASE TriggerPlans
    <3>1. Frozen \in Seq(Pos)
      BY DEF Frozen, HaveOdom
    <3>2. path' \in Seq(Pos) /\ path' # <<>>
      BY <2>5, <3>1, ReturnPathsType DEF TriggerPlans
    <3> QED BY <2>5, <3>2 DEF TriggerPlans
  <2>6. CASE TakeoverCall
    BY <2>6 DEF TakeoverCall
  <2>7. CASE TakeoverUnreachable
    BY <2>7 DEF TakeoverUnreachable
  <2>8. CASE TakeoverReturns
    BY <2>8 DEF TakeoverReturns, CallEnded, Answers
  <2>9. ASSUME NEW s \in 1..(MaxHistory + 1), StepReturn(s)
        PROVE  TypeOK' /\ RunInv'
    <3>1. s \in 1..Len(path) /\ path[s] \in Pos
      BY <2>9, BoundAssumption DEF StepReturn
    <3>2. returnQ' \in Seq(Pos)
      BY <2>9, <3>1, PublishType DEF StepReturn
    <3> QED BY <2>9, <3>1, <3>2 DEF StepReturn
  <2>10. CASE PublishHomeHold
    <3>1. returnQ' \in Seq(Pos)
      BY <2>10, LastType, PublishType DEF PublishHomeHold, HoldPoint
    <3> QED BY <2>10, <3>1 DEF PublishHomeHold, nodeVars
  <2>11. CASE ResetCall
    BY <2>11 DEF ResetCall
  <2>12. CASE ResetUnreachable
    BY <2>12 DEF ResetUnreachable, ClearRun
  <2>13. CASE ResetReturns
    BY <2>13 DEF ResetReturns, ClearRun, CallEnded
  <2>14. CASE SetManualReturn
    BY <2>14 DEF SetManualReturn, SwitchTo
  <2>15. CASE SetNormal
    BY <2>15 DEF SetNormal, SwitchTo
  <2>16. ASSUME NEW s \in Source, OperatorSwitch(s)
         PROVE  TypeOK' /\ RunInv'
    BY <2>16 DEF OperatorSwitch, SwitchTo, nodeVars
  <2>17. ASSUME NEW p \in Pos, NormalCommand(p)
         PROVE  TypeOK' /\ RunInv'
    BY <2>17 DEF NormalCommand, NormalCallback, Forward, Command, nodeVars
  <2>18. CASE ReturnCommand
    <3>1. Head(returnQ) \in Pos /\ Tail(returnQ) \in Seq(Pos)
      BY <2>18 DEF ReturnCommand
    <3> QED BY <2>18, <3>1 DEF ReturnCommand, ReturnCallback, Forward, Command, nodeVars
  <2>19. CASE GateCrashes
    <3>1. gateUp' \in BOOLEAN
      BY <2>19 DEF GateCrashes, GateCrash
    <3>2. crashes' \in 0..MaxCrashes
      BY <2>19, MaxCrashesAssumption DEF GateCrashes, GateCrash
    <3>3. call' \in {"idle", "requested", "replied", "broken"}
          /\ ((call' = "idle") <=> (call = "idle"))
      BY <2>19 DEF GateCrashes
    <3> QED BY <2>19, <3>1, <3>2, <3>3 DEF GateCrashes, GateCrash
  <2>20. CASE GateStarts
    BY <2>20 DEF GateStarts, GateStart, nodeVars
  <2>21. CASE VehicleMoves
    BY <2>21 DEF VehicleMoves, Command, NoCommand, nodeVars
  <2>22. CASE UNCHANGED vars
    BY <2>22 DEF vars, nodeVars
  <2> QED
    BY <2>1, <2>2, <2>3, <2>4, <2>5, <2>6, <2>7, <2>8, <2>9, <2>10, <2>11,
       <2>12, <2>13, <2>14, <2>15, <2>16, <2>17, <2>18, <2>19, <2>20, <2>21,
       <2>22 DEF Next, Node, Gate
<1> QED BY <1>1, <1>2, PTL DEF Spec

-----------------------------------------------------------------------------
(* Who has the controller.                                                 *)

\* What each side of a gate call knows of the other.  A gate that is down, or
\* that broke off a call, has forgotten the node's switches; an answer tells
\* the source unless somebody else has touched it; and a source the node set
\* is the one its state needs.
ControlInv ==
  /\ ~gateUp => by = "boot"
  /\ call = "broken" => by # "node"
  /\ pc = "set_manual_return" /\ call = "replied" /\ by = "node" => source = "MANUAL_RETURN"
  /\ pc = "set_normal" /\ call = "replied" /\ by = "node" => source = "NORMAL"
  /\ InControl /\ by = "node" => source = "MANUAL_RETURN"

\* The converse, when no call fails while the gate is running.
GivenBack == ~CallFaults /\ pc = "spin" /\ ~InControl /\ by = "node" => source = "NORMAL"

Inv == TypeOK /\ RunInv /\ ControlInv /\ GivenBack

\* Every step of the node and the gate preserves what they know of each other.
THEOREM ControlCorrect == Spec => []Inv
<1>1. Init => ControlInv /\ GivenBack
  BY DEF Init, GateInit, ControlInv, GivenBack, InControl
<1>2. TypeOK /\ RunInv /\ ControlInv /\ GivenBack /\ [Next]_vars
        => ControlInv' /\ GivenBack'
  <2> SUFFICES ASSUME TypeOK, RunInv, ControlInv, GivenBack, [Next]_vars
               PROVE  ControlInv' /\ GivenBack'
    OBVIOUS
  <2> USE DEF ControlInv, GivenBack, RunInv, InControl, ResetAllowed, gateVars
  <2>1. CASE OdomCallback
    BY <2>1 DEF OdomCallback
  <2>2. CASE OdomWrongFrame
    BY <2>2 DEF OdomWrongFrame
  <2>3. CASE RecordTimer
    BY <2>3 DEF RecordTimer
  <2>4. CASE TriggerFails
    BY <2>4 DEF TriggerFails
  <2>5. CASE TriggerPlans
    BY <2>5 DEF TriggerPlans
  <2>6. CASE TakeoverCall
    BY <2>6 DEF TakeoverCall
  <2>7. CASE TakeoverUnreachable
    BY <2>7 DEF TakeoverUnreachable
  <2>8. CASE TakeoverReturns
    BY <2>8 DEF TakeoverReturns, CallEnded, Answers
  <2>9. ASSUME NEW s \in 1..(MaxHistory + 1), StepReturn(s)
        PROVE  ControlInv' /\ GivenBack'
    BY <2>9 DEF StepReturn
  <2>10. CASE PublishHomeHold
    BY <2>10 DEF PublishHomeHold, nodeVars
  <2>11. CASE ResetCall
    BY <2>11 DEF ResetCall
  <2>12. CASE ResetUnreachable
    BY <2>12 DEF ResetUnreachable, ClearRun, GateUnreachable
  <2>13. CASE ResetReturns
    BY <2>13 DEF ResetReturns, ClearRun, CallEnded
  <2>14. CASE SetManualReturn
    BY <2>14 DEF SetManualReturn, SwitchTo
  <2>15. CASE SetNormal
    BY <2>15 DEF SetNormal, SwitchTo
  <2>16. ASSUME NEW s \in Source, OperatorSwitch(s)
         PROVE  ControlInv' /\ GivenBack'
    BY <2>16 DEF OperatorSwitch, SwitchTo, nodeVars
  <2>17. ASSUME NEW p \in Pos, NormalCommand(p)
         PROVE  ControlInv' /\ GivenBack'
    BY <2>17 DEF NormalCommand, NormalCallback, nodeVars
  <2>18. CASE ReturnCommand
    BY <2>18 DEF ReturnCommand, ReturnCallback, nodeVars
  <2>19. CASE GateCrashes
    BY <2>19 DEF GateCrashes, GateCrash
  <2>20. CASE GateStarts
    BY <2>20 DEF GateStarts, GateStart, nodeVars
  <2>21. CASE VehicleMoves
    BY <2>21 DEF VehicleMoves, nodeVars
  <2>22. CASE UNCHANGED vars
    BY <2>22 DEF vars, nodeVars
  <2> QED
    BY <2>1, <2>2, <2>3, <2>4, <2>5, <2>6, <2>7, <2>8, <2>9, <2>10, <2>11,
       <2>12, <2>13, <2>14, <2>15, <2>16, <2>17, <2>18, <2>19, <2>20, <2>21,
       <2>22 DEF Next, Node, Gate
<1> QED BY <1>1, <1>2, TypeCorrect, PTL DEF Spec, Inv

\* A return that is under way, or holds Home, has the controller unless an
\* operator or a restart of the gate took it: no step of the node, however it
\* falls between the two halves of a call, gives it back.
THEOREM KeepsControl == Spec => []ReturnKeepsControl
<1>1. Inv => ReturnKeepsControl
  BY DEF Inv, ControlInv, ReturnKeepsControl, Undisturbed
<1> QED BY <1>1, ControlCorrect, PTL

\* When calls to a running gate come through, it never leaves the gate armed
\* behind itself: not after a failed takeover, not after a reset.
THEOREM NeverOrphans == ASSUME ~CallFaults PROVE Spec => []NoOrphanedControl
<1>1. Inv => NoOrphanedControl
  BY DEF Inv, GivenBack, NoOrphanedControl, Undisturbed, Source, TypeOK, GateTypeOK
<1> QED BY <1>1, ControlCorrect, PTL

\* No command of the normal stream reaches the controller of a drone that is
\* flying home on the return stream.
THEOREM NormalStaysOut == Spec => NormalNeverRetakes
<1>1. Inv /\ [Next]_vars
        => [InControl /\ Undisturbed /\ follows.src = "MANUAL_RETURN"
              => follows'.src = "MANUAL_RETURN"]_vars
  <2> SUFFICES ASSUME Inv, Next, InControl, Undisturbed,
                      follows.src = "MANUAL_RETURN"
               PROVE  follows'.src = "MANUAL_RETURN"
    BY DEF vars
  <2>1. source = "MANUAL_RETURN"
    BY DEF Inv, ControlInv, Undisturbed
  <2>2. ASSUME NEW p \in Pos, NormalCommand(p)
        PROVE  UNCHANGED follows
    BY <2>1, <2>2 DEF NormalCommand, NormalCallback, Forward, ShouldForward
  <2>3. CASE ReturnCommand
    BY <2>3 DEF ReturnCommand, ReturnCallback, Forward
  <2>4. CASE Node
    BY <2>4 DEF Node, OdomCallback, OdomWrongFrame, RecordTimer, TriggerFails,
       TriggerPlans, TakeoverCall, TakeoverUnreachable, TakeoverReturns, StepReturn,
       PublishHomeHold, ResetCall, ResetUnreachable, ResetReturns, gateVars
  <2>5. CASE SetManualReturn \/ SetNormal \/ (\E s \in Source : OperatorSwitch(s))
    BY <2>5 DEF SetManualReturn, SetNormal, OperatorSwitch, SwitchTo
  <2>6. CASE GateCrashes \/ GateStarts \/ VehicleMoves
    BY <2>6 DEF GateCrashes, GateCrash, GateStarts, GateStart, VehicleMoves, gateVars
  <2> QED BY <2>2, <2>3, <2>4, <2>5, <2>6 DEF Next, Gate
<1> QED BY <1>1, ControlCorrect, PTL DEF Spec, NormalNeverRetakes

-----------------------------------------------------------------------------
(* Whose commands the controller flies.                                    *)

\* From the takeover call on the queue holds nothing but waypoints of this
\* run: the call waits until the queue is empty, and the thread publishes
\* nothing while it is blocked.
QueueInv ==
  EnableOutput /\ (pc = "set_manual_return" \/ state \in {"RETURNING", "FINISHED"})
    => \A i \in 1..Len(returnQ) : returnQ[i] \in Range(path)

\* A published waypoint joins waypoints of the same run.
LEMMA AppendOwn ==
  ASSUME NEW S, NEW q \in Seq(Pos), \A i \in 1..Len(q) : q[i] \in S, NEW p \in Pos, p \in S
  PROVE  \A i \in 1..Len(Append(q, p)) : Append(q, p)[i] \in S
<1>1. /\ Len(Append(q, p)) = Len(q) + 1 /\ Append(q, p)[Len(q) + 1] = p
      /\ \A i \in 1..Len(q) : Append(q, p)[i] = q[i]
  BY AppendProperties
<1> SUFFICES ASSUME NEW i \in 1..(Len(q) + 1) PROVE Append(q, p)[i] \in S
  BY <1>1
<1>2. CASE i \in 1..Len(q)  BY <1>1, <1>2
<1>3. CASE i = Len(q) + 1  BY <1>1, <1>3
<1> QED  BY <1>2, <1>3

\* So does one that pushes the oldest command out of a full queue.
LEMMA PublishOwn ==
  ASSUME returnQ \in Seq(Pos), \A i \in 1..Len(returnQ) : returnQ[i] \in Range(path),
         NEW p \in Pos, p \in Range(path), Publish(p)
  PROVE  \A i \in 1..Len(returnQ') : returnQ'[i] \in Range(path)
<1> HIDE DEF Range
<1>1. CASE ~gateUp
  BY <1>1 DEF Publish
<1>2. CASE gateUp /\ Len(returnQ) < QueueSize
  <2>1. returnQ' = Append(returnQ, p)
    BY <1>2 DEF Publish
  <2> QED BY <2>1, AppendOwn
<1>3. CASE gateUp /\ ~(Len(returnQ) < QueueSize)
  <2>1. returnQ # <<>> /\ returnQ' = Append(Tail(returnQ), p)
    BY <1>3, BoundAssumption DEF Publish
  <2>2. /\ Tail(returnQ) \in Seq(Pos) /\ Len(Tail(returnQ)) = Len(returnQ) - 1
        /\ \A i \in 1..Len(Tail(returnQ)) : Tail(returnQ)[i] = returnQ[i + 1]
    BY <2>1, HeadTailProperties
  <2>3. \A i \in 1..Len(Tail(returnQ)) : Tail(returnQ)[i] \in Range(path)
    BY <2>2
  <2> QED BY <2>1, <2>2, <2>3, AppendOwn
<1> QED BY <1>1, <1>2, <1>3

\* Every step keeps the queue to this run's waypoints: the takeover is called
\* on an empty queue, and only StepReturn and PublishHomeHold publish.
LEMMA QueueStep == ASSUME DelayDrains PROVE Inv /\ QueueInv /\ [Next]_vars => QueueInv'
<1> SUFFICES ASSUME Inv, QueueInv, [Next]_vars
             PROVE  QueueInv'
  OBVIOUS
<1> USE DEF Inv, TypeOK, RunInv, QueueInv
<1>1. CASE UNCHANGED <<state, pc, path, returnQ>>
  BY <1>1
<1>2. CASE TriggerFails \/ TriggerPlans
  BY <1>2 DEF TriggerFails, TriggerPlans
<1>3. CASE TakeoverCall
  BY <1>3 DEF TakeoverCall, DelayOver
<1>4. CASE TakeoverUnreachable \/ TakeoverReturns
  BY <1>4 DEF TakeoverUnreachable, TakeoverReturns
<1>5. ASSUME NEW s \in 1..(MaxHistory + 1), StepReturn(s)
      PROVE  QueueInv'
  <2>1. s \in 1..Len(path) /\ path[s] \in Pos /\ path[s] \in Range(path)
    BY <1>5, BoundAssumption DEF StepReturn, Range
  <2>2. Publish(path[s]) /\ path' = path /\ state = "RETURNING"
    BY <1>5 DEF StepReturn
  <2> QED BY <2>1, <2>2, PublishOwn
<1>6. CASE PublishHomeHold
  <2>1. /\ Publish(Last(path)) /\ path' = path /\ state = "FINISHED" /\ EnableOutput
        /\ path # <<>>
    BY <1>6 DEF PublishHomeHold, HoldPoint, nodeVars
  <2>2. Last(path) \in Pos /\ Last(path) \in Range(path)
    BY <2>1 DEF Last, Range
  <2> QED BY <2>1, <2>2, PublishOwn
<1>7. CASE ResetCall
  BY <1>7 DEF ResetCall
<1>8. CASE ResetUnreachable \/ ResetReturns
  BY <1>8 DEF ResetUnreachable, ResetReturns, ClearRun
<1>9. CASE ReturnCommand
  <2>1. /\ returnQ # <<>> /\ returnQ' = Tail(returnQ)
        /\ UNCHANGED <<state, pc, path>>
    BY <1>9 DEF ReturnCommand, nodeVars
  <2>2. /\ Len(Tail(returnQ)) = Len(returnQ) - 1
        /\ \A i \in 1..(Len(returnQ) - 1) : Tail(returnQ)[i] = returnQ[i + 1]
    BY <2>1, HeadTailProperties
  <2> QED BY <2>1, <2>2
<1>10. CASE GateCrashes
  BY <1>10 DEF GateCrashes
<1>11. CASE OdomCallback \/ OdomWrongFrame \/ RecordTimer
  BY <1>1, <1>11 DEF OdomCallback, OdomWrongFrame, RecordTimer
<1>12. CASE Gate /\ ~ReturnCommand /\ ~GateCrashes
  BY <1>1, <1>12 DEF Gate, SetManualReturn, SetNormal, OperatorSwitch, NormalCommand,
     GateStarts, nodeVars
<1>13. CASE VehicleMoves \/ UNCHANGED vars
  BY <1>1, <1>13 DEF VehicleMoves, vars, nodeVars
<1> QED
  BY <1>2, <1>3, <1>4, <1>5, <1>6, <1>7, <1>8, <1>9, <1>10, <1>11, <1>12, <1>13
     DEF Next, Node, Gate

\* If the takeover delay outlasts what is in flight, a command the controller
\* accepts during a return is a waypoint of that return: the queue holds no
\* other, and the normal stream is not forwarded.
THEOREM OwnCommands == ASSUME DelayDrains PROVE Spec => OnlyThisRunsCommands
<1>1. Init => QueueInv
  BY DEF Init, QueueInv
<1>2. Inv /\ QueueInv /\ [Next]_vars
        => [InControl /\ Undisturbed /\ follows' # follows
              => follows'.pos \in Range(path)]_vars
  <2> SUFFICES ASSUME Inv, QueueInv, Next, InControl, Undisturbed, follows' # follows
               PROVE  follows'.pos \in Range(path)
    BY DEF vars
  <2>1. source = "MANUAL_RETURN"
    BY DEF Inv, ControlInv, Undisturbed
  <2>2. CASE ReturnCommand
    <3>1. /\ returnQ # <<>> /\ returnQ \in Seq(Pos)
          /\ follows' = [src |-> "MANUAL_RETURN", pos |-> Head(returnQ)]
      BY <2>1, <2>2 DEF ReturnCommand, ReturnCallback, Forward, ShouldForward, Inv, TypeOK
    <3>2. Head(returnQ) \in Range(path)
      BY <3>1 DEF QueueInv, InControl
    <3> QED BY <3>1, <3>2
  <2>3. ASSUME NEW p \in Pos, NormalCommand(p)
        PROVE  FALSE
    BY <2>1, <2>3 DEF NormalCommand, NormalCallback, Forward, ShouldForward
  <2>4. CASE Node
    BY <2>4 DEF Node, OdomCallback, OdomWrongFrame, RecordTimer, TriggerFails,
       TriggerPlans, TakeoverCall, TakeoverUnreachable, TakeoverReturns, StepReturn,
       PublishHomeHold, ResetCall, ResetUnreachable, ResetReturns, gateVars
  <2>5. CASE SetManualReturn \/ SetNormal \/ (\E s \in Source : OperatorSwitch(s))
    BY <2>5 DEF SetManualReturn, SetNormal, OperatorSwitch, SwitchTo
  <2>6. CASE GateCrashes \/ GateStarts \/ VehicleMoves
    BY <2>6 DEF GateCrashes, GateCrash, GateStarts, GateStart, VehicleMoves, gateVars
  <2> QED BY <2>2, <2>3, <2>4, <2>5, <2>6 DEF Next, Gate
<1> QED
  BY <1>1, <1>2, QueueStep, ControlCorrect, PTL DEF Spec, OnlyThisRunsCommands

-----------------------------------------------------------------------------
(* Where the path leads.                                                   *)

\* Home is the oldest sample of this run.
HomeInv == PathLeadsHome /\ (history # <<>> => home = history[1])

\* Every planned path ends at the first sample recorded since the last reset,
\* whatever the thinning removed and however many runs came before.
THEOREM LeadsHome == Spec => []PathLeadsHome
<1>1. Init => HomeInv
  BY DEF Init, HomeInv, PathLeadsHome
<1>2. Inv /\ HomeInv /\ [Next]_vars => HomeInv'
  <2> SUFFICES ASSUME Inv, HomeInv, [Next]_vars
               PROVE  HomeInv'
    OBVIOUS
  <2>1. CASE UNCHANGED <<history, path, home>>
    BY <2>1 DEF HomeInv, PathLeadsHome, Last
  <2>2. CASE RecordTimer
    <3>1. path' = <<>> /\ history \in Seq(Pos) /\ odom \in Pos
      BY <2>2 DEF RecordTimer, Inv, TypeOK, RunInv, HaveOdom
    <3>2. history' # <<>> /\ history'[1] = IF history = <<>> THEN odom ELSE history[1]
      BY <2>2, <3>1 DEF RecordTimer
    <3> QED BY <2>2, <3>1, <3>2 DEF RecordTimer, HomeInv, PathLeadsHome
  <2>3. CASE TriggerPlans
    <3>1. history \in Seq(Pos) /\ Frozen \in Seq(Pos)
      BY DEF Inv, TypeOK, Frozen, HaveOdom
    <3>2. path' \in Seq(Pos) /\ Len(path') >= 2 /\ Len(Frozen) >= 2 /\ Last(path') = Frozen[1]
      BY <2>3, <3>1, ReturnPathsType, ReturnPathsEnds DEF TriggerPlans
    <3>3. history # <<>> /\ Frozen[1] = history[1]
      BY <3>1, <3>2 DEF Frozen
    <3> QED BY <2>3, <3>2, <3>3 DEF TriggerPlans, HomeInv, PathLeadsHome
  <2>4. CASE ResetUnreachable \/ ResetReturns
    BY <2>4 DEF ResetUnreachable, ResetReturns, ClearRun, HomeInv, PathLeadsHome
  <2>5. CASE Node /\ ~RecordTimer /\ ~TriggerPlans /\ ~ResetUnreachable /\ ~ResetReturns
    BY <2>1, <2>5 DEF Node, OdomCallback, OdomWrongFrame, TriggerFails,
       TakeoverCall, TakeoverUnreachable, TakeoverReturns, StepReturn,
       PublishHomeHold, ResetCall, nodeVars
  <2>6. CASE Gate \/ VehicleMoves
    BY <2>1, <2>6 DEF Gate, SetManualReturn, SetNormal, OperatorSwitch, NormalCommand,
       ReturnCommand, GateCrashes, GateStarts, VehicleMoves, nodeVars
  <2> QED BY <2>1, <2>2, <2>3, <2>4, <2>5, <2>6 DEF Next, vars, nodeVars
<1>3. HomeInv => PathLeadsHome
  BY DEF HomeInv
<1> QED BY <1>1, <1>2, <1>3, ControlCorrect, PTL DEF Spec

-----------------------------------------------------------------------------
(* The node and the gate implement ControlHandover.                        *)

\* The initial state is one of the abstract specification.
LEMMA HandoverInit == Init => Handover!Init
BY DEF Init, GateInit, Phase, StatePhase, Handover!Init

\* Every step of the node maps to a step of the abstract one, or to none.
LEMMA HandoverNodeStep ==
  ASSUME ~CallFaults, Inv, Node
  PROVE  Handover!Next \/ UNCHANGED <<Phase, source, by>>
<1> USE DEF Inv, TypeOK, RunInv, States, ResetAllowed, Phase, StatePhase,
       gateVars, nodeVars, Handover!Next, Handover!Become, Handover!Settled
<1>1. CASE OdomCallback \/ OdomWrongFrame \/ RecordTimer \/ PublishHomeHold
  BY <1>1 DEF OdomCallback, OdomWrongFrame, RecordTimer, PublishHomeHold
<1>2. CASE TriggerFails
  BY <1>2 DEF TriggerFails, Handover!Trigger
<1>3. CASE TriggerPlans
  BY <1>3 DEF TriggerPlans, Handover!Trigger
<1>4. CASE TakeoverCall
  BY <1>4 DEF TakeoverCall
<1>5. CASE TakeoverUnreachable
  <2>1. source = "NORMAL" \/ by # "node"
    BY <1>5 DEF TakeoverUnreachable, GivenBack, InControl
  <2> QED BY <1>5, <2>1 DEF TakeoverUnreachable, Handover!Abort
<1>6. CASE TakeoverReturns
  <2>1. CASE call = "replied"
    BY <1>6, <2>1 DEF TakeoverReturns, ControlInv, Handover!Depart, Answers
  <2>2. CASE call = "broken"
    BY <1>6, <2>2 DEF TakeoverReturns, ControlInv, Handover!Abort, Answers
  <2> QED BY <1>6, <2>1, <2>2 DEF TakeoverReturns, CallEnded
<1>7. ASSUME NEW s \in 1..(MaxHistory + 1), StepReturn(s)
      PROVE  Handover!Next \/ UNCHANGED <<Phase, source, by>>
  BY <1>7 DEF StepReturn, Handover!Arrive
<1>8. CASE ResetCall
  BY <1>8 DEF ResetCall, Handover!Release, Handover!Resting
<1>9. CASE ResetUnreachable
  <2>1. source = "NORMAL" \/ by # "node"
    BY <1>9 DEF ResetUnreachable, GateUnreachable, ControlInv, GivenBack, InControl
  <2> QED BY <1>9, <2>1 DEF ResetUnreachable, ClearRun, Handover!Reset, Handover!Resting
<1>10. CASE ResetReturns
  <2>1. source = "NORMAL" \/ by # "node"
    BY <1>10 DEF ResetReturns, CallEnded, ControlInv
  <2> QED BY <1>10, <2>1 DEF ResetReturns, ClearRun, Handover!Reset
<1> QED
  BY <1>1, <1>2, <1>3, <1>4, <1>5, <1>6, <1>7, <1>8, <1>9, <1>10 DEF Node

\* So does every step of the gate and its other clients.
LEMMA HandoverGateStep ==
  ASSUME Inv, Gate
  PROVE  Handover!Next \/ UNCHANGED <<Phase, source, by>>
<1> USE DEF Inv, TypeOK, RunInv, Phase, StatePhase, gateVars, nodeVars,
       Handover!Next, Handover!Own
<1>1. CASE SetManualReturn
  BY <1>1 DEF SetManualReturn, SwitchTo, Handover!Engage
<1>2. CASE SetNormal
  BY <1>2 DEF SetNormal, SwitchTo, Handover!Disengage
<1>3. ASSUME NEW s \in Source, OperatorSwitch(s)
      PROVE  Handover!Interfere
  BY <1>3 DEF OperatorSwitch, SwitchTo, Source, Handover!Interfere
<1>4. CASE GateCrashes
  BY <1>4 DEF GateCrashes, GateCrash, Handover!Interfere
<1>5. CASE GateStarts \/ ReturnCommand \/ (\E p \in Pos : NormalCommand(p))
  BY <1>5 DEF GateStarts, GateStart, ReturnCommand, ReturnCallback, NormalCommand, NormalCallback
<1> QED BY <1>1, <1>2, <1>3, <1>4, <1>5 DEF Gate

\* If the node reaches every gate that runs, node and gate implement the
\* hand-over specification: control is taken, used and given back in its order.
THEOREM Refinement == ASSUME ~CallFaults PROVE Spec => ImplementsHandover
<1>1. Inv /\ [Next]_vars => [Handover!Next]_(Handover!vars)
  <2> SUFFICES ASSUME Inv, [Next]_vars
               PROVE  Handover!Next \/ UNCHANGED <<Phase, source, by>>
    BY DEF Handover!vars
  <2>1. CASE VehicleMoves \/ UNCHANGED vars
    BY <2>1 DEF VehicleMoves, vars, gateVars, nodeVars, Phase, StatePhase
  <2> QED BY <2>1, HandoverNodeStep, HandoverGateStep DEF Next
<1> QED
  BY <1>1, HandoverInit, ControlCorrect, PTL
     DEF Spec, ImplementsHandover, Handover!Spec

-----------------------------------------------------------------------------
(* What a client of the return flight may rely on without knowing how the  *)
(* node and the gate talk to each other.                                   *)

\* The hand-over specification promises by its rules alone that, interference
\* aside, whoever flies home or holds there owns the controller and whoever is
\* outbound, has failed or has only planned does not.
THEOREM OwnerKnown == Handover!Spec => [](Handover!TypeOK /\ Handover!OwnerMatchesPhase)
<1> USE DEF Handover!TypeOK, Handover!OwnerMatchesPhase, Handover!Settled,
       Handover!Phases, Handover!Resting
<1>1. Handover!Init => Handover!TypeOK /\ Handover!OwnerMatchesPhase
  BY DEF Handover!Init
<1>2. Handover!TypeOK /\ Handover!OwnerMatchesPhase /\ [Handover!Next]_(Handover!vars)
        => Handover!TypeOK' /\ Handover!OwnerMatchesPhase'
  <2> SUFFICES ASSUME Handover!TypeOK, Handover!OwnerMatchesPhase,
                      [Handover!Next]_(Handover!vars)
               PROVE  Handover!TypeOK' /\ Handover!OwnerMatchesPhase'
    OBVIOUS
  <2> USE DEF Handover!Become, Handover!Own
  <2>1. CASE Handover!Trigger \/ Handover!Release
    BY <2>1 DEF Handover!Trigger, Handover!Release
  <2>2. CASE Handover!Engage \/ Handover!Disengage
    BY <2>2 DEF Handover!Engage, Handover!Disengage
  <2>3. CASE Handover!Depart \/ Handover!Abort \/ Handover!Arrive \/ Handover!Reset
    BY <2>3 DEF Handover!Depart, Handover!Abort, Handover!Arrive, Handover!Reset
  <2>4. CASE Handover!Interfere
    BY <2>4 DEF Handover!Interfere
  <2>5. CASE UNCHANGED Handover!vars
    BY <2>5 DEF Handover!vars
  <2> QED BY <2>1, <2>2, <2>3, <2>4, <2>5 DEF Handover!Next
<1> QED BY <1>1, <1>2, PTL DEF Handover!Spec

\* The manual return keeps that promise: in each phase of a return the source
\* the node last set is the one of that phase.
THEOREM OwnerFollows == ASSUME ~CallFaults PROVE Spec => []Handover!OwnerMatchesPhase
BY Refinement, OwnerKnown, PTL DEF ImplementsHandover

-----------------------------------------------------------------------------
(* Induction and recursion over sets of numbers.                           *)

\* A set of numbers has a least one.
LEMMA LeastElement ==
  ASSUME NEW T, T \subseteq Nat, T # {}
  PROVE  \E x \in T : \A y \in T : x <= y
<1> DEFINE R == {ss \in Nat \X Nat : ss[1] < ss[2]}
<1>1. IsWellFoundedOn(R, Nat)  BY NatLessThanWellFounded DEF OpToRel
<1> HIDE DEF R
<1>2. PICK x \in T : \A y \in T : ~(<<y, x>> \in R)  BY <1>1, WFMin
<1>3. \A y \in T : ~(y < x)  BY <1>2 DEF R
<1> QED BY <1>2, <1>3

\* Induction, over a set of numbers instead of a predicate.
LEMMA Induction ==
  ASSUME NEW T, 0 \in T, \A n \in Nat : n \in T => n + 1 \in T
  PROVE  Nat \subseteq T
<1> SUFFICES ASSUME Nat \ T # {} PROVE FALSE
  OBVIOUS
<1>1. PICK x \in Nat \ T : \A y \in Nat \ T : x <= y  BY LeastElement
<1>2. x - 1 \in Nat \ T  BY <1>1
<1> QED BY <1>1, <1>2

\* There is a function on a..b that starts with base, and whose next value F
\* makes of the one before.
IsDefined(a, b, S, base, F) ==
  \E f \in [a..b -> S] : f[a] = base /\ \A k \in (a + 1)..b : f[k] = F[<<f[k - 1], k>>]

\* Recursive functions on a range exist, when each value comes from the last.
LEMMA Recursion ==
  ASSUME NEW a \in Nat, NEW b \in Nat, a <= b,
         NEW S, NEW base \in S, NEW F \in [S \X Nat -> S]
  PROVE  IsDefined(a, b, S, base, F)
<1> DEFINE P(m) == \E f \in [a..(a + m) -> S] :
                     f[a] = base /\ \A k \in (a + 1)..(a + m) : f[k] = F[<<f[k - 1], k>>]
           T == {m \in Nat : P(m)}
<1>1. P(0)
  <2> DEFINE f == [k \in a..(a + 0) |-> base]
  <2>1. f \in [a..(a + 0) -> S] /\ f[a] = base
    OBVIOUS
  <2> HIDE DEF f
  <2> QED BY <2>1
<1>2. ASSUME NEW m \in Nat, P(m) PROVE P(m + 1)
  <2>1. PICK f \in [a..(a + m) -> S] :
          f[a] = base /\ \A k \in (a + 1)..(a + m) : f[k] = F[<<f[k - 1], k>>]
    BY <1>2
  <2> DEFINE n == a + (m + 1)
             x == F[<<f[a + m], n>>]
             g == [k \in a..n |-> IF k = n THEN x ELSE f[k]]
  <2>2. x \in S
    OBVIOUS
  <2>3. g \in [a..n -> S]
    BY <2>2
  <2>4. g[a] = base /\ g[n] = x /\ \A k \in a..(a + m) : g[k] = f[k]
    BY <2>1
  <2> HIDE DEF g
  <2>5. ASSUME NEW k \in (a + 1)..n PROVE g[k] = F[<<g[k - 1], k>>]
    <3>1. k - 1 \in a..(a + m) /\ (k = n => k - 1 = a + m)
      OBVIOUS
    <3>2. CASE k = n
      BY <3>2, <2>4, <3>1
    <3>3. CASE k \in (a + 1)..(a + m)
      BY <3>3, <2>4, <3>1, <2>1
    <3> QED BY <3>2, <3>3
  <2> QED BY <2>3, <2>4, <2>5
<1> HIDE DEF P
<1>3. 0 \in T /\ \A m \in Nat : m \in T => m + 1 \in T
  BY <1>1, <1>2
<1> HIDE DEF T
<1>4. b - a \in T
  BY <1>3, Induction
<1>5. a + (b - a) = b
  OBVIOUS
<1> QED BY <1>4, <1>5 DEF T, P, IsDefined

\* Induction along a range.
LEMMA RangeInduction ==
  ASSUME NEW a \in Nat, NEW b \in Nat, NEW T, a \in T,
         \A k \in (a + 1)..b : k - 1 \in T => k \in T
  PROVE  a..b \subseteq T
<1> DEFINE U == {n \in Nat : a + n \in a..b => a + n \in T}
<1>1. 0 \in U
  OBVIOUS
<1>2. ASSUME NEW n \in Nat, n \in U PROVE n + 1 \in U
  <2> SUFFICES ASSUME a + (n + 1) \in a..b PROVE a + (n + 1) \in T
    OBVIOUS
  <2>1. a + n \in a..b /\ a + n \in T
    BY <1>2
  <2>2. a + (n + 1) \in (a + 1)..b /\ (a + (n + 1)) - 1 = a + n
    OBVIOUS
  <2> QED BY <2>1, <2>2
<1>3. Nat \subseteq U
  <2> HIDE DEF U
  <2> QED BY <1>1, <1>2, Induction
<1> SUFFICES ASSUME NEW k \in a..b PROVE k \in T
  OBVIOUS
<1>4. k - a \in U /\ a + (k - a) = k
  BY <1>3
<1> QED BY <1>4

\* A recursive function on a..b has its values in S.
LEMMA RecursionType ==
  ASSUME NEW a \in Nat, NEW b \in Nat, NEW S, NEW h, h = [k \in a..b |-> h[k]],
         h[a] \in S, \A k \in (a + 1)..b : h[k - 1] \in S => h[k] \in S
  PROVE  h \in [a..b -> S]
<1> DEFINE T == {k \in Nat : k \in a..b => h[k] \in S}
<1>1. a \in T /\ \A k \in (a + 1)..b : k - 1 \in T => k \in T
  BY SMTT(20)
<1> HIDE DEF T
<1>2. a..b \subseteq T
  BY <1>1, RangeInduction
<1> QED BY <1>2 DEF T

\* Picked, unfolded.
LEMMA PickedUnfolds ==
  ASSUME NEW S, NEW s \in Seq(S), NEW I
  PROVE  \E out \in [0..Len(s) -> Seq(S)] :
           /\ out[0] = <<>> /\ Picked(s, I) = out[Len(s)]
           /\ \A k \in 1..Len(s) :
                out[k] = IF k \in I THEN Append(out[k - 1], s[k]) ELSE out[k - 1]
<1> DEFINE n == Len(s)
           F == [x \in Seq(S) \X Nat |->
                   IF x[2] \in I /\ x[2] \in 1..n THEN Append(x[1], s[x[2]]) ELSE x[1]]
<1>1. n \in Nat /\ 0 \in Nat /\ 0 <= n /\ <<>> \in Seq(S) /\ F \in [Seq(S) \X Nat -> Seq(S)]
  OBVIOUS
<1>2. ASSUME NEW q \in Seq(S), NEW k \in 1..n
      PROVE  F[<<q, k>>] = IF k \in I THEN Append(q, s[k]) ELSE q
  <2>1. <<q, k>> \in Seq(S) \X Nat /\ <<q, k>>[1] = q /\ <<q, k>>[2] = k
    OBVIOUS
  <2> QED BY <2>1
<1> HIDE DEF F, n
<1>3. IsDefined(0, n, Seq(S), <<>>, F)
  BY <1>1, Recursion, Zenon
<1>4. PICK g \in [0..n -> Seq(S)] : g[0] = <<>> /\ \A k \in (0 + 1)..n : g[k] = F[<<g[k - 1], k>>]
  BY <1>3 DEF IsDefined
<1>5. ASSUME NEW k \in 0..n
      PROVE  g[k] = IF k = 0 THEN <<>> ELSE IF k \in I THEN Append(g[k - 1], s[k]) ELSE g[k - 1]
  <2>1. CASE k = 0
    BY <2>1, <1>4
  <2>2. CASE k # 0
    <3>1. k \in 1..n /\ k \in (0 + 1)..n /\ k - 1 \in 0..n
      BY <2>2, <1>1
    <3>2. g[k] = F[<<g[k - 1], k>>] /\ g[k - 1] \in Seq(S)
      BY <3>1, <1>4
    <3> QED BY <3>1, <3>2, <1>2, <2>2
  <2> QED BY <2>1, <2>2
<1>6. g = [k \in 0..n |-> IF k = 0 THEN <<>> ELSE IF k \in I THEN Append(g[k - 1], s[k]) ELSE g[k - 1]]
  BY <1>4, <1>5
<1> DEFINE h == CHOOSE h : h = [k \in 0..n |-> IF k = 0 THEN <<>> ELSE
                                  IF k \in I THEN Append(h[k - 1], s[k]) ELSE h[k - 1]]
       G == [k \in 0..n |-> IF k = 0 THEN <<>> ELSE IF k \in I THEN Append(h[k - 1], s[k]) ELSE h[k - 1]]
<1>7. h = G
  BY <1>6, Zenon
<1>8. Picked(s, I) = h[n]
  BY Zenon DEF Picked, n
<1> HIDE DEF h
<1>9. /\ h = [k \in 0..n |-> h[k]] /\ h[0] = <<>>
      /\ \A k \in 1..n : h[k] = IF k \in I THEN Append(h[k - 1], s[k]) ELSE h[k - 1]
  <2>1. /\ G = [k \in 0..n |-> G[k]] /\ G[0] = <<>>
        /\ \A k \in 1..n : G[k] = IF k \in I THEN Append(h[k - 1], s[k]) ELSE h[k - 1]
    BY <1>1
  <2> HIDE DEF G
  <2> QED BY <1>7, <2>1
<1>10. h \in [0..n -> Seq(S)]
  <2>1. ASSUME NEW k \in (0 + 1)..n, h[k - 1] \in Seq(S) PROVE h[k] \in Seq(S)
    <3>1. s[k] \in S
      BY <1>1 DEF n
    <3>2. k \in 1..n
      BY <1>1
    <3>3. h[k] = IF k \in I THEN Append(h[k - 1], s[k]) ELSE h[k - 1]
      BY <1>9, <3>2
    <3> HIDE DEF G
    <3> QED BY <2>1, <3>3, <3>1
  <2> HIDE DEF G
  <2>2. h[0] \in Seq(S) /\ \A k \in (0 + 1)..n : h[k - 1] \in Seq(S) => h[k] \in Seq(S)
    BY <1>1, <1>9, <2>1
  <2> QED BY <1>1, <1>9, <2>2, RecursionType, Zenon
<1> HIDE DEF G
<1> QED BY <1>8, <1>9, <1>10 DEF n

-----------------------------------------------------------------------------
(* Sequences of sequences, joined.                                         *)

\* t is put together from the parts, one after the other.
IsJoined(t, seqs, S) ==
  \E f \in [1..Len(seqs) -> Seq(S)] :
    /\ f[1] = seqs[1] /\ t = f[Len(seqs)]
    /\ \A k \in 2..Len(seqs) : f[k] = f[k - 1] \o seqs[k]

\* FlattenSeq joins its parts from the first to the last.
LEMMA FlattenUnfolds ==
  ASSUME NEW S, NEW seqs \in Seq(Seq(S)), seqs # <<>>
  PROVE  IsJoined(FlattenSeq(seqs), seqs, S)
<1> DEFINE n == Len(seqs)
           F == [x \in Seq(S) \X Nat |-> IF x[2] \in 1..n THEN x[1] \o seqs[x[2]] ELSE x[1]]
<1>1. n \in Nat /\ 1 \in Nat /\ 1 <= n /\ n # 0 /\ \A k \in 1..n : seqs[k] \in Seq(S)
  OBVIOUS
<1>2. F \in [Seq(S) \X Nat -> Seq(S)]
  <2> SUFFICES ASSUME NEW q \in Seq(S), NEW k \in Nat
               PROVE  (IF k \in 1..n THEN q \o seqs[k] ELSE q) \in Seq(S)
    OBVIOUS
  <2> QED BY <1>1
<1>3. ASSUME NEW q \in Seq(S), NEW k \in 1..n PROVE F[<<q, k>>] = q \o seqs[k]
  <2>1. <<q, k>> \in Seq(S) \X Nat /\ <<q, k>>[1] = q /\ <<q, k>>[2] = k
    OBVIOUS
  <2> QED BY <2>1
<1> HIDE DEF F, n
<1>4. IsDefined(1, n, Seq(S), seqs[1], F)
  <2>1. seqs[1] \in Seq(S)
    BY <1>1
  <2> QED BY <1>1, <1>2, <2>1, Recursion, Zenon
<1>5. PICK g \in [1..n -> Seq(S)] : g[1] = seqs[1] /\ \A k \in (1 + 1)..n : g[k] = F[<<g[k - 1], k>>]
  BY <1>4 DEF IsDefined
<1>6. ASSUME NEW k \in 1..n
      PROVE  g[k] = IF k = 1 THEN seqs[k] ELSE g[k - 1] \o seqs[k]
  <2>1. CASE k = 1
    BY <2>1, <1>5
  <2>2. CASE k # 1
    <3>1. k \in 1..n /\ k \in (1 + 1)..n /\ k - 1 \in 1..n
      BY <2>2, <1>1
    <3>2. g[k] = F[<<g[k - 1], k>>] /\ g[k - 1] \in Seq(S)
      BY <3>1, <1>5
    <3> QED BY <3>1, <3>2, <1>3, <2>2
  <2> QED BY <2>1, <2>2
<1>7. g = [k \in 1..n |-> IF k = 1 THEN seqs[k] ELSE g[k - 1] \o seqs[k]]
  BY <1>5, <1>6
<1> DEFINE h == CHOOSE h : h = [k \in 1..n |-> IF k = 1 THEN seqs[k] ELSE h[k - 1] \o seqs[k]]
           G == [k \in 1..n |-> IF k = 1 THEN seqs[k] ELSE h[k - 1] \o seqs[k]]
<1>8. h = G
  BY <1>7, Zenon
<1>9. FlattenSeq(seqs) = h[n]
  BY <1>1, Zenon DEF FlattenSeq, n
<1> HIDE DEF h
<1>10. /\ h = [k \in 1..n |-> h[k]] /\ h[1] = seqs[1]
       /\ \A k \in 2..n : h[k] = h[k - 1] \o seqs[k]
  <2>1. G = [k \in 1..n |-> G[k]]
    BY Zenon
  <2>2. G[1] = seqs[1]
    BY <1>1
  <2>3. ASSUME NEW k \in 2..n PROVE G[k] = h[k - 1] \o seqs[k]
    <3>1. k \in 1..n /\ k # 1
      BY <1>1
    <3> QED BY <3>1, Zenon
  <2> HIDE DEF G
  <2> QED BY <1>8, <2>1, <2>2, <2>3
<1> HIDE DEF G
<1>11. h \in [1..n -> Seq(S)]
  <2>1. ASSUME NEW k \in (1 + 1)..n, h[k - 1] \in Seq(S) PROVE h[k] \in Seq(S)
    <3>1. k \in 1..n /\ k \in 2..n
      BY <1>1
    <3>2. h[k] = h[k - 1] \o seqs[k] /\ seqs[k] \in Seq(S)
      BY <1>1, <1>10, <3>1
    <3> QED BY <2>1, <3>2
  <2>2. h[1] \in Seq(S) /\ \A k \in (1 + 1)..n : h[k - 1] \in Seq(S) => h[k] \in Seq(S)
    <3>1. h[1] \in Seq(S)
      BY <1>1, <1>10
    <3> QED BY <2>1, <3>1
  <2> QED BY <1>1, <1>10, <2>2, RecursionType, Zenon
<1> QED BY <1>9, <1>10, <1>11 DEF n, IsJoined

\* Every element of a part is one of t.
HasAll(t, seqs) ==
  \A k \in 1..Len(seqs) : \A i \in 1..Len(seqs[k]) : \E j \in 1..Len(t) : t[j] = seqs[k][i]

\* FlattenSeq loses no element.
LEMMA FlattenKeeps ==
  ASSUME NEW S, NEW seqs \in Seq(Seq(S)), seqs # <<>>
  PROVE  FlattenSeq(seqs) \in Seq(S) /\ HasAll(FlattenSeq(seqs), seqs)
<1> DEFINE n == Len(seqs)
<1>1. PICK f \in [1..n -> Seq(S)] :
        /\ f[1] = seqs[1] /\ FlattenSeq(seqs) = f[n]
        /\ \A k \in 2..n : f[k] = f[k - 1] \o seqs[k]
  BY FlattenUnfolds DEF IsJoined
<1>2. n \in Nat /\ n >= 1 /\ \A k \in 1..n : seqs[k] \in Seq(S)
  OBVIOUS
<1> HIDE DEF n
<1> DEFINE P(m) == \A k \in 1..m : \A i \in 1..Len(seqs[k]) :
                     \E j \in 1..Len(f[m]) : f[m][j] = seqs[k][i]
           T == {m \in 1..n : P(m)}
<1>3. 1 \in T
  BY <1>1, <1>2, SMTT(20)
<1>4. ASSUME NEW m \in 2..n, m - 1 \in T PROVE m \in T
  <2>0. m - 1 \in 1..n /\ m \in 1..n
    BY <1>2
  <2>1. f[m] = f[m - 1] \o seqs[m] /\ f[m - 1] \in Seq(S) /\ seqs[m] \in Seq(S)
    BY <1>1, <1>2, <2>0
  <2>2. /\ Len(f[m]) = Len(f[m - 1]) + Len(seqs[m])
        /\ \A j \in 1..Len(f[m - 1]) : f[m][j] = f[m - 1][j] /\ j \in 1..Len(f[m])
        /\ \A i \in 1..Len(seqs[m]) :
             /\ Len(f[m - 1]) + i \in 1..Len(f[m])
             /\ f[m][Len(f[m - 1]) + i] = seqs[m][i]
    <3> DEFINE q == f[m - 1]
               r == seqs[m]
               w == f[m]
    <3>1. q \in Seq(S) /\ r \in Seq(S) /\ w = q \o r
      BY <2>1
    <3> HIDE DEF q, r, w
    <3>2. /\ Len(w) = Len(q) + Len(r)
          /\ \A j \in 1..Len(q) : w[j] = q[j] /\ j \in 1..Len(w)
          /\ \A i \in 1..Len(r) : Len(q) + i \in 1..Len(w) /\ w[Len(q) + i] = r[i]
      BY <3>1
    <3> QED BY <3>2 DEF q, r, w
  <2>3. ASSUME NEW k \in 1..m, NEW i \in 1..Len(seqs[k])
        PROVE  \E j \in 1..Len(f[m]) : f[m][j] = seqs[k][i]
    <3>1. CASE k = m
      BY <3>1, <2>2
    <3>2. CASE k # m
      <4>1. k \in 1..(m - 1)
        BY <3>2
      <4>2. PICK j \in 1..Len(f[m - 1]) : f[m - 1][j] = seqs[k][i]
        BY <4>1, <1>4
      <4> QED BY <4>2, <2>2
    <3> QED BY <3>1, <3>2
  <2> QED BY <2>0, <2>3
<1> HIDE DEF T
<1>5. n \in T
  <2>1. 1 \in Nat /\ n \in Nat /\ \A k \in (1 + 1)..n : k - 1 \in T => k \in T
    BY <1>2, <1>4
  <2>2. 1..n \subseteq T
    BY <2>1, <1>3, RangeInduction, Zenon
  <2> QED BY <2>2, <1>2
<1>6. P(n) /\ f[n] \in Seq(S)
  BY <1>1, <1>2, <1>5 DEF T
<1> QED BY <1>1, <1>6 DEF n, HasAll

-----------------------------------------------------------------------------
(* The history, and looking for samples in it.                             *)

\* Positions, and samples: what the geometry is about.
Place == Nat \X Nat \X Nat
Point == [t : Nat, p : Place]

\* A history is not empty, and no sample of it is recorded twice, but that the
\* approach and the handoff, its last two, may be the same.
HistoryShape ==
  /\ reversed \in Seq(Point) /\ Len(reversed) >= 2
  /\ \A i, j \in Samples : i < j /\ reversed[i] = reversed[j] =>
       i = Len(reversed) - 1 /\ j = Len(reversed)

\* Min is the least element.
LEMMA MinFacts ==
  ASSUME NEW T, T \subseteq Nat, T # {}
  PROVE  Min(T) \in T /\ \A y \in T : Min(T) <= y
<1>1. \E x \in T : \A y \in T : x <= y
  BY LeastElement
<1> QED BY <1>1, Zenon DEF Min

\* A sample that is found is at the position looked for, after where the search
\* starts, and found from anywhere in between.
LEMMA FindIndexFacts ==
  ASSUME HistoryShape, NEW i \in Nat, NEW s
  PROVE  /\ FindIndex(i, s) \in 1..(Len(reversed) + 1)
         /\ FindIndex(i, s) \in Samples =>
              /\ i < FindIndex(i, s) /\ H(FindIndex(i, s)) = s.p
              /\ \A y \in i..(FindIndex(i, s) - 1) : FindIndex(y, s) = FindIndex(i, s)
<1> DEFINE Same(y) == {h \in Samples : h > y /\ reversed[h] = s}
           There(y) == {h \in Samples : h > y /\ H(h) = s.p}
           N == Len(reversed)
<1>1. N \in Nat /\ N >= 2 /\ Samples = 1..N
  BY DEF HistoryShape, Samples
<1> HIDE DEF N
<1>2. \A y \in Nat : Same(y) \subseteq Nat /\ There(y) \subseteq Nat
  BY <1>1
<1>3. \A y \in Nat :
        FindIndex(y, s) = CASE Same(y) # {} -> Min(Same(y))
                            [] Same(y) = {} /\ There(y) # {} -> Min(There(y))
                            [] OTHER -> N + 1
  BY Zenon DEF FindIndex, N
<1>4. \A y \in Nat : Same(y) \subseteq There(y)
  BY DEF H
<1>5. CASE Same(i) # {}
  <2>1. FindIndex(i, s) = Min(Same(i)) /\ Min(Same(i)) \in Same(i) /\ \A h \in Same(i) : Min(Same(i)) <= h
    <3>1. FindIndex(i, s) = Min(Same(i))
      BY <1>3, <1>5
    <3> HIDE DEF Same
    <3> QED BY <3>1, <1>2, <1>5, MinFacts
  <2> DEFINE b == FindIndex(i, s)
  <2>2. b \in Samples /\ b > i /\ H(b) = s.p /\ reversed[b] = s /\ \A h \in Same(i) : b <= h
    BY <2>1 DEF H
  <2> HIDE DEF b
  <2>3. ASSUME NEW y \in i..(b - 1) PROVE FindIndex(y, s) = b
    <3>1. y \in Nat /\ y < b /\ i <= y
      BY <2>2, <1>1
    <3>2. b \in Same(y) /\ Same(y) \subseteq Same(i)
      BY <3>1, <2>2, <1>1
    <3>3. FindIndex(y, s) = Min(Same(y))
      BY <3>1, <3>2, <1>3
    <3>4. Min(Same(y)) \in Same(y) /\ Min(Same(y)) <= b
      <4> HIDE DEF Same
      <4> QED BY <3>1, <3>2, <1>2, MinFacts
    <3>5. Min(Same(y)) \in Same(i) /\ Min(Same(y)) \in Nat
      <4> HIDE DEF Same
      <4> QED BY <3>1, <3>2, <3>4, <1>2
    <3> DEFINE m == Min(Same(y))
    <3>6. m \in Nat /\ b \in Nat /\ m <= b /\ b <= m /\ FindIndex(y, s) = m
      <4>1. \A h \in Same(i) : b <= h
        BY <2>2
      <4> HIDE DEF Same
      <4> QED BY <3>3, <3>4, <3>5, <4>1, <2>2, <1>1
    <3> HIDE DEF m
    <3> QED BY <3>6
  <2>4. b \in 1..(N + 1) /\ i < b /\ H(b) = s.p /\ \A y \in i..(b - 1) : FindIndex(y, s) = b
    BY <2>2, <2>3, <1>1
  <2> QED BY <2>4, Zenon DEF b, N
<1>6. CASE Same(i) = {} /\ There(i) # {}
  <2>1. FindIndex(i, s) = Min(There(i)) /\ Min(There(i)) \in There(i) /\ \A h \in There(i) : Min(There(i)) <= h
    <3>1. FindIndex(i, s) = Min(There(i))
      BY <1>3, <1>6
    <3> HIDE DEF There
    <3> QED BY <3>1, <1>2, <1>6, MinFacts
  <2> DEFINE b == FindIndex(i, s)
  <2>2. b \in Samples /\ b > i /\ H(b) = s.p /\ \A h \in There(i) : b <= h
    BY <2>1
  <2> HIDE DEF b
  <2>3. ASSUME NEW y \in i..(b - 1) PROVE FindIndex(y, s) = b
    <3>1. y \in Nat /\ y < b /\ i <= y
      BY <2>2, <1>1
    <3>2. b \in There(y) /\ There(y) \subseteq There(i) /\ Same(y) = {}
      BY <3>1, <2>2, <1>1, <1>6
    <3>3. FindIndex(y, s) = Min(There(y))
      BY <3>1, <3>2, <1>3
    <3>4. Min(There(y)) \in There(y) /\ Min(There(y)) <= b
      <4> HIDE DEF There
      <4> QED BY <3>1, <3>2, <1>2, MinFacts
    <3>5. Min(There(y)) \in There(i) /\ Min(There(y)) \in Nat
      <4> HIDE DEF There
      <4> QED BY <3>1, <3>2, <3>4, <1>2
    <3> DEFINE m == Min(There(y))
    <3>6. m \in Nat /\ b \in Nat /\ m <= b /\ b <= m /\ FindIndex(y, s) = m
      <4>1. \A h \in There(i) : b <= h
        BY <2>2
      <4> HIDE DEF There
      <4> QED BY <3>3, <3>4, <3>5, <4>1, <2>2, <1>1
    <3> HIDE DEF m
    <3> QED BY <3>6
  <2>4. b \in 1..(N + 1) /\ i < b /\ H(b) = s.p /\ \A y \in i..(b - 1) : FindIndex(y, s) = b
    BY <2>2, <2>3, <1>1
  <2> QED BY <2>4, Zenon DEF b, N
<1>7. CASE Same(i) = {} /\ There(i) = {}
  <2>1. FindIndex(i, s) = N + 1
    BY <1>3, <1>7
  <2> QED BY <2>1, <1>1 DEF N
<1> QED BY <1>5, <1>6, <1>7

\* A sample is found again; only the last may be found in its twin before it.
LEMMA FindIndexExact ==
  ASSUME HistoryShape, NEW i \in Nat, NEW j \in Samples, i < j
  PROVE  /\ FindIndex(i, reversed[j]) \in Samples /\ i < FindIndex(i, reversed[j])
         /\ H(FindIndex(i, reversed[j])) = H(j)
         /\ \/ FindIndex(i, reversed[j]) = j
            \/ j = Len(reversed) /\ FindIndex(i, reversed[j]) = Len(reversed) - 1
<1> DEFINE s == reversed[j]
           Same == {h \in Samples : h > i /\ reversed[h] = s}
<1>1. j \in Same /\ Same \subseteq Nat
  BY DEF Samples
<1>2. FindIndex(i, s) = Min(Same)
  BY <1>1 DEF FindIndex
<1>3. Min(Same) \in Same /\ Min(Same) <= j
  <2> HIDE DEF Same
  <2> QED BY <1>1, MinFacts
<1>4. reversed[Min(Same)] = reversed[j] /\ Min(Same) \in Samples /\ i < Min(Same)
  BY <1>3
<1>5. Min(Same) \in Nat /\ j \in Nat
  BY <1>4 DEF Samples
<1>6. Min(Same) = j \/ (j = Len(reversed) /\ Min(Same) = Len(reversed) - 1)
  <2> HIDE DEF Same
  <2>1. CASE Min(Same) = j
    BY <2>1
  <2>2. CASE Min(Same) < j
    BY <2>2, <1>4 DEF HistoryShape
  <2> QED BY <2>1, <2>2, <1>3, <1>5
<1> HIDE DEF Same
<1> QED BY <1>2, <1>4, <1>6 DEF H

-----------------------------------------------------------------------------
(* Paths that lead along the history.                                      *)

\* A search after x for s finds sample y, or its twin.
Found(x, s, y) ==
  /\ y \in Samples /\ x < y /\ H(y) = s.p
  /\ FindIndex(x, s) = y \/ (y = Len(reversed) /\ FindIndex(x, s) = Len(reversed) - 1)

\* The points t are samples of the history, found one after the other from a,
\* the last one at b, along chords of C.
Along(t, a, b, C, at) ==
  /\ at \in [0..Len(t) -> Nat] /\ at[0] = a /\ at[Len(t)] = b
  /\ \A k \in 1..Len(t) : Found(at[k - 1], t[k], at[k]) /\ <<at[k - 1], at[k]>> \in C

\* There are such places: t leads along the history from a to b.
Leads(t, a, b, C) == \E at \in [0..Len(t) -> Nat] : Along(t, a, b, C, at)

\* The empty path leads nowhere.
LEMMA LeadsNone ==
  ASSUME NEW a \in Nat, NEW C
  PROVE  Leads(<<>>, a, a, C)
<1> DEFINE at == [k \in 0..0 |-> a]
<1>1. Len(<<>>) = 0 /\ at \in [0..0 -> Nat] /\ at[0] = a
  OBVIOUS
<1>2. Along(<<>>, a, a, C, at)
  <2> HIDE DEF at
  <2> QED BY <1>1 DEF Along
<1> HIDE DEF at
<1> QED BY <1>1, <1>2 DEF Leads

\* A point that is found leads to where it is.
LEMMA LeadsOne ==
  ASSUME NEW a \in Nat, NEW b, NEW s, NEW C, Found(a, s, b), <<a, b>> \in C
  PROVE  Leads(<<s>>, a, b, C)
<1> DEFINE at == [k \in 0..1 |-> IF k = 0 THEN a ELSE b]
<1>1. b \in Nat
  BY DEF Found, Samples
<1>2. Len(<<s>>) = 1 /\ at \in [0..1 -> Nat] /\ at[0] = a /\ at[1] = b /\ <<s>>[1] = s
  BY <1>1
<1>3. Along(<<s>>, a, b, C, at)
  <2> HIDE DEF at
  <2> QED BY <1>2 DEF Along
<1> HIDE DEF at
<1> QED BY <1>2, <1>3 DEF Leads

\* A path that leads on from where another ends extends it.
LEMMA LeadsConcat ==
  ASSUME NEW S, NEW s \in Seq(S), NEW t \in Seq(S), NEW a, NEW b, NEW c, NEW C,
         Leads(s, a, b, C), Leads(t, b, c, C)
  PROVE  Leads(s \o t, a, c, C)
<1> DEFINE m == Len(s)
           n == Len(t)
           w == s \o t
<1>1. /\ m \in Nat /\ n \in Nat /\ Len(w) = m + n
      /\ \A k \in 1..m : w[k] = s[k]
      /\ \A k \in 1..n : w[m + k] = t[k]
  OBVIOUS
<1>2. PICK f \in [0..m -> Nat] : Along(s, a, b, C, f)
  BY DEF Leads
<1>3. PICK g \in [0..n -> Nat] : Along(t, b, c, C, g)
  BY DEF Leads
<1>4. /\ f[0] = a /\ f[m] = b
      /\ \A k \in 1..m : Found(f[k - 1], s[k], f[k]) /\ <<f[k - 1], f[k]>> \in C
  BY <1>2 DEF Along
<1>5. /\ g[0] = b /\ g[n] = c
      /\ \A k \in 1..n : Found(g[k - 1], t[k], g[k]) /\ <<g[k - 1], g[k]>> \in C
  BY <1>3 DEF Along
<1> HIDE DEF m, n, w
<1> DEFINE h == [k \in 0..(m + n) |-> IF k <= m THEN f[k] ELSE g[k - m]]
<1>6. h \in [0..(m + n) -> Nat]
  <2> SUFFICES ASSUME NEW k \in 0..(m + n) PROVE (IF k <= m THEN f[k] ELSE g[k - m]) \in Nat
    OBVIOUS
  <2>1. CASE k <= m
    BY <2>1, <1>1
  <2>2. CASE k > m
    BY <2>2, <1>1
  <2> QED BY <2>1, <2>2, <1>1
<1>7. /\ \A k \in 0..m : h[k] = f[k]
      /\ \A k \in 0..n : h[m + k] = g[k]
  <2>1. ASSUME NEW k \in 0..m PROVE h[k] = f[k]
    BY <1>1
  <2>2. ASSUME NEW k \in 0..n PROVE h[m + k] = g[k]
    <3>1. m + k \in 0..(m + n) /\ (m + k) - m = k /\ (m + k <= m => k = 0 /\ m + k = m)
      BY <1>1
    <3> QED BY <3>1, <1>4, <1>5
  <2> QED BY <2>1, <2>2
<1> HIDE DEF h
<1>8. ASSUME NEW k \in 1..(m + n)
      PROVE  Found(h[k - 1], w[k], h[k]) /\ <<h[k - 1], h[k]>> \in C
  <2>1. CASE k <= m
    <3>1. k \in 1..m /\ k \in 0..m /\ k - 1 \in 0..m
      BY <2>1, <1>1
    <3>2. h[k] = f[k] /\ h[k - 1] = f[k - 1] /\ w[k] = s[k]
      BY <3>1, <1>1, <1>7
    <3> QED BY <3>1, <3>2, <1>4
  <2>2. CASE k > m
    <3> DEFINE i == k - m
    <3>1. i \in 1..n /\ i \in 0..n /\ i - 1 \in 0..n /\ k = m + i /\ k - 1 = m + (i - 1)
      BY <2>2, <1>1
    <3> HIDE DEF i
    <3>2. h[m + i] = g[i] /\ h[m + (i - 1)] = g[i - 1] /\ w[m + i] = t[i]
      BY <3>1, <1>1, <1>7
    <3>3. h[k] = g[i] /\ h[k - 1] = g[i - 1] /\ w[k] = t[i]
      BY <3>1, <3>2
    <3> QED BY <3>1, <3>3, <1>5
  <2> QED BY <2>1, <2>2, <1>1
<1>9. h[0] = a /\ h[m + n] = c
  BY <1>1, <1>4, <1>5, <1>7
<1>10. Along(w, a, c, C, h) /\ h \in [0..Len(w) -> Nat]
  BY <1>1, <1>6, <1>8, <1>9 DEF Along
<1>11. Leads(w, a, c, C)
  BY <1>10 DEF Leads
<1> QED BY <1>11 DEF w

\* A path leads along any larger set of chords.
LEMMA LeadsWiden ==
  ASSUME NEW t, NEW a, NEW b, NEW C, NEW D, C \subseteq D, Leads(t, a, b, C)
  PROVE  Leads(t, a, b, D)
BY DEF Leads, Along

\* A point that is found from the end of a path extends it.
LEMMA LeadsAppend ==
  ASSUME NEW S, NEW t \in Seq(S), NEW s \in S, NEW a, NEW x \in Nat, NEW b, NEW C,
         Leads(t, a, x, C), Found(x, s, b), <<x, b>> \in C
  PROVE  Leads(Append(t, s), a, b, C)
<1>1. Leads(<<s>>, x, b, C) /\ <<s>> \in Seq(S)
  BY LeadsOne
<1>2. Leads(t \o <<s>>, a, b, C)
  BY <1>1, LeadsConcat
<1>3. t \o <<s>> = Append(t, s)
  OBVIOUS
<1> QED BY <1>2, <1>3

\* Parts that lead on, put together.
LEMMA LeadsFlatten ==
  ASSUME NEW S, NEW seqs \in Seq(Seq(S)), seqs # <<>>, NEW C, NEW g,
         \A k \in 1..Len(seqs) : Leads(seqs[k], g[k - 1], g[k], C)
  PROVE  Leads(FlattenSeq(seqs), g[0], g[Len(seqs)], C)
<1> DEFINE n == Len(seqs)
<1>1. PICK f \in [1..n -> Seq(S)] :
        /\ f[1] = seqs[1] /\ FlattenSeq(seqs) = f[n]
        /\ \A k \in 2..n : f[k] = f[k - 1] \o seqs[k]
  BY FlattenUnfolds DEF IsJoined
<1>2. n \in Nat /\ 1 \in Nat /\ n >= 1 /\ \A k \in 1..n : seqs[k] \in Seq(S)
  OBVIOUS
<1>3. \A k \in 1..n : Leads(seqs[k], g[k - 1], g[k], C)
  OBVIOUS
<1> HIDE DEF n
<1> DEFINE T == {k \in 1..n : Leads(f[k], g[0], g[k], C)}
<1>4. 1 \in T
  <2>1. Leads(seqs[1], g[1 - 1], g[1], C) /\ 1 - 1 = 0
    BY <1>2, <1>3
  <2> QED BY <2>1, <1>1, <1>2
<1>5. ASSUME NEW k \in (1 + 1)..n, k - 1 \in T PROVE k \in T
  <2>1. k \in 2..n /\ k \in 1..n /\ k - 1 \in 1..n
    BY <1>2
  <2>2. f[k] = f[k - 1] \o seqs[k] /\ f[k - 1] \in Seq(S) /\ seqs[k] \in Seq(S)
    BY <2>1, <1>1, <1>2
  <2>3. Leads(f[k - 1], g[0], g[k - 1], C) /\ Leads(seqs[k], g[k - 1], g[k], C)
    BY <2>1, <1>3, <1>5
  <2>4. Leads(f[k - 1] \o seqs[k], g[0], g[k], C)
    BY <2>2, <2>3, LeadsConcat
  <2> QED BY <2>1, <2>2, <2>4
<1> HIDE DEF T
<1>6. 1..n \subseteq T
  <2>1. \A k \in (1 + 1)..n : k - 1 \in T => k \in T
    BY <1>5
  <2> QED BY <2>1, <1>2, <1>4, RangeInduction, Zenon
<1>7. Leads(f[n], g[0], g[n], C)
  BY <1>2, <1>6 DEF T
<1> QED BY <1>1, <1>7 DEF n

\* Indices, unfolded: each point is looked for from the last one on.
LEMMA IndicesUnfold ==
  ASSUME HistoryShape, NEW S, NEW s \in Seq(S), s # <<>>
  PROVE  /\ Indices(s) \in [1..Len(s) -> Nat]
         /\ Indices(s)[1] = 1
         /\ \A k \in 2..Len(s) : Indices(s)[k] = FindIndex(Indices(s)[k - 1], s[k])
<1> DEFINE n == Len(s)
           F == [x \in Nat \X Nat |-> FindIndex(x[1], s[x[2]])]
<1>1. n \in Nat /\ 1 \in Nat /\ 1 <= n /\ Len(reversed) \in Nat
  BY DEF HistoryShape
<1>2. \A i \in Nat : \A x : FindIndex(i, x) \in Nat
  BY <1>1, FindIndexFacts, SMTT(20)
<1>3. F \in [Nat \X Nat -> Nat]
  <2> SUFFICES ASSUME NEW x \in Nat \X Nat PROVE FindIndex(x[1], s[x[2]]) \in Nat
    OBVIOUS
  <2>1. x[1] \in Nat
    OBVIOUS
  <2> QED BY <2>1, <1>2
<1>4. ASSUME NEW i \in Nat, NEW k \in Nat PROVE F[<<i, k>>] = FindIndex(i, s[k])
  <2>1. <<i, k>> \in Nat \X Nat /\ <<i, k>>[1] = i /\ <<i, k>>[2] = k
    OBVIOUS
  <2> QED BY <2>1
<1> HIDE DEF F, n
<1>5. IsDefined(1, n, Nat, 1, F)
  BY <1>1, <1>3, Recursion, Zenon
<1>6. PICK g \in [1..n -> Nat] : g[1] = 1 /\ \A k \in (1 + 1)..n : g[k] = F[<<g[k - 1], k>>]
  BY <1>5 DEF IsDefined
<1>7. ASSUME NEW k \in 1..n
      PROVE  g[k] = IF k = 1 THEN 1 ELSE FindIndex(g[k - 1], s[k])
  <2>1. CASE k = 1
    BY <2>1, <1>6
  <2>2. CASE k # 1
    <3>1. k \in (1 + 1)..n /\ k - 1 \in 1..n /\ k \in Nat
      BY <2>2, <1>1
    <3>2. g[k] = F[<<g[k - 1], k>>] /\ g[k - 1] \in Nat
      BY <3>1, <1>6
    <3> QED BY <3>1, <3>2, <1>4, <2>2
  <2> QED BY <2>1, <2>2
<1>8. g = [k \in 1..n |-> IF k = 1 THEN 1 ELSE FindIndex(g[k - 1], s[k])]
  BY <1>6, <1>7
<1> DEFINE h == CHOOSE h : h = [k \in 1..n |-> IF k = 1 THEN 1 ELSE FindIndex(h[k - 1], s[k])]
           G == [k \in 1..n |-> IF k = 1 THEN 1 ELSE FindIndex(h[k - 1], s[k])]
<1>9. h = G
  BY <1>8, Zenon
<1>10. Indices(s) = h
  BY Zenon DEF Indices, n
<1> HIDE DEF h
<1>11. /\ h = [k \in 1..n |-> h[k]] /\ h[1] = 1
       /\ \A k \in 2..n : h[k] = FindIndex(h[k - 1], s[k])
  <2>1. G = [k \in 1..n |-> G[k]]
    BY Zenon
  <2>2. G[1] = 1
    BY <1>1
  <2>3. ASSUME NEW k \in 2..n PROVE G[k] = FindIndex(h[k - 1], s[k])
    <3>1. k \in 1..n /\ k # 1
      BY <1>1
    <3> QED BY <3>1, Zenon
  <2> HIDE DEF G
  <2> QED BY <1>9, <2>1, <2>2, <2>3
<1> HIDE DEF G
<1>12. h \in [1..n -> Nat]
  <2>1. h[1] \in Nat /\ \A k \in (1 + 1)..n : h[k - 1] \in Nat => h[k] \in Nat
    <3>1. ASSUME NEW k \in (1 + 1)..n, h[k - 1] \in Nat PROVE h[k] \in Nat
      <4>1. k \in 2..n
        BY <1>1
      <4>2. h[k] = FindIndex(h[k - 1], s[k])
        BY <4>1, <1>11, Zenon
      <4> QED BY <3>1, <4>2, <1>2, Zenon
    <3>2. h[1] \in Nat
      BY <1>1, <1>11
    <3> QED BY <3>1, <3>2, Zenon
  <2> QED BY <1>1, <1>11, <2>1, RecursionType, Zenon
<1> QED BY <1>10, <1>11, <1>12 DEF n

\* Chords of samples, and the one that stands before the first of them.
From(C) == C \union {<<0, 1>>}

\* The points of s are found at their places in the history,
AllFound(s) == \A k \in 1..Len(s) : Indices(s)[k] \in Samples /\ H(Indices(s)[k]) = s[k].p

\* one after the other, along chords of C.
Follows(s, C) ==
  \A k \in 2..Len(s) :
    /\ Indices(s)[k - 1] < Indices(s)[k]
    /\ \E y \in Samples : /\ <<Indices(s)[k - 1], y>> \in C
                          /\ Indices(s)[k] <= y /\ H(y) = H(Indices(s)[k])

\* The points of a path that leads along the history are found where they are
\* from: all but the last, which may be found in its twin.
LEMMA IndicesFound ==
  ASSUME HistoryShape, NEW S, NEW s \in Seq(S), s # <<>>, NEW b, NEW C,
         C \subseteq Samples \X Samples, Leads(s, 0, b, From(C))
  PROVE  /\ AllFound(s) /\ Follows(s, C) /\ Found(0, s[1], 1)
         /\ b \in Samples /\ H(b) = s[Len(s)].p
         /\ Indices(s)[Len(s)] = b \/ (b = Len(reversed) /\ Indices(s)[Len(s)] = Len(reversed) - 1)
<1> DEFINE n == Len(s)
           N == Len(reversed)
           g == Indices(s)
<1>1. n \in Nat /\ n >= 1 /\ N \in Nat /\ N >= 2 /\ Samples = 1..N
  BY DEF HistoryShape, Samples
<1>2. /\ g \in [1..n -> Nat] /\ g[1] = 1
      /\ \A k \in 2..n : g[k] = FindIndex(g[k - 1], s[k])
  BY IndicesUnfold
<1>3. PICK at \in [0..n -> Nat] : Along(s, 0, b, From(C), at)
  BY DEF Leads
<1>4. /\ at[0] = 0 /\ at[n] = b
      /\ \A k \in 1..n : Found(at[k - 1], s[k], at[k]) /\ <<at[k - 1], at[k]>> \in From(C)
  BY <1>3 DEF Along
<1> HIDE DEF n, N, g
<1>5. ASSUME NEW k \in 1..n
      PROVE  /\ at[k] \in Samples /\ at[k - 1] < at[k] /\ H(at[k]) = s[k].p /\ at[k - 1] \in Nat
             /\ \/ FindIndex(at[k - 1], s[k]) = at[k]
                \/ at[k] = N /\ FindIndex(at[k - 1], s[k]) = N - 1
  <2>1. at[k - 1] \in Nat
    BY <1>1
  <2>2. Found(at[k - 1], s[k], at[k])
    BY <1>4
  <2> QED BY <2>1, <2>2, Zenon DEF Found, N
<1>6. at[1] = 1
  <2>1. 1 \in 1..n /\ 1 - 1 = 0
    BY <1>1
  <2>2. <<0, at[1]>> \in From(C)
    BY <2>1, <1>4
  <2>3. <<0, at[1]>> \notin C
    BY <1>1
  <2> QED BY <2>2, <2>3 DEF From
<1> DEFINE T == {k \in 1..n : k < n => g[k] = at[k]}
<1>7. 1 \in T
  BY <1>1, <1>2, <1>6
<1>8. ASSUME NEW k \in (1 + 1)..n, k - 1 \in T PROVE k \in T
  <2> SUFFICES ASSUME k < n PROVE g[k] = at[k]
    BY <1>1
  <2>1. k \in 2..n /\ k \in 1..n /\ k - 1 \in 1..n /\ k - 1 < n /\ k + 1 \in 1..n /\ (k + 1) - 1 = k
    BY <1>1
  <2>2. g[k] = FindIndex(at[k - 1], s[k])
    BY <2>1, <1>2, <1>8
  <2>3. at[k] < at[k + 1] /\ at[k + 1] \in Samples /\ at[k] \in Samples
    BY <2>1, <1>5
  <2>4. at[k] # N
    BY <2>3, <1>1
  <2> QED BY <2>1, <2>2, <2>4, <1>5
<1>9. 1..n \subseteq T
  <2> HIDE DEF T
  <2>1. \A k \in (1 + 1)..n : k - 1 \in T => k \in T
    BY <1>8
  <2> QED BY <2>1, <1>1, <1>7, RangeInduction, Zenon
<1>10. ASSUME NEW k \in 1..n, k < n PROVE g[k] = at[k]
  BY <1>9, <1>10
<1>11. ASSUME NEW k \in 2..n
       PROVE  /\ g[k - 1] = at[k - 1] /\ g[k] = FindIndex(at[k - 1], s[k])
              /\ g[k] \in Samples /\ g[k - 1] < g[k] /\ H(g[k]) = s[k].p
              /\ g[k] = at[k] \/ (at[k] = N /\ g[k] = N - 1)
  <2>1. k - 1 \in 1..n /\ k - 1 < n /\ k \in 1..n
    BY <1>1
  <2>2. g[k - 1] = at[k - 1] /\ g[k] = FindIndex(at[k - 1], s[k]) /\ at[k - 1] \in Nat
    BY <2>1, <1>2, <1>10
  <2>3. g[k] = at[k] \/ (at[k] = N /\ g[k] = N - 1)
    BY <2>1, <2>2, <1>5
  <2>4. g[k] \in Samples
    BY <2>1, <2>3, <1>5, <1>1
  <2>5. at[k - 1] < g[k] /\ H(g[k]) = s[k].p
    BY <2>2, <2>4, FindIndexFacts
  <2> QED BY <2>2, <2>3, <2>4, <2>5
<1>12. 1 \in Samples /\ 1 \in 1..n /\ n \in 1..n
  BY <1>1
<1>13. ASSUME NEW k \in 1..n PROVE g[k] \in Samples /\ H(g[k]) = s[k].p
  <2>1. CASE k = 1
    BY <2>1, <1>2, <1>5, <1>6, <1>12
  <2>2. CASE k # 1
    <3>1. k \in 2..n
      BY <2>2, <1>1
    <3> QED BY <3>1, <1>11
  <2> QED BY <2>1, <2>2
<1>14. b \in Samples /\ H(b) = s[n].p
  BY <1>4, <1>5, <1>12
<1>15. g[n] = b \/ (b = N /\ g[n] = N - 1)
  <2>1. CASE n = 1
    BY <2>1, <1>2, <1>4, <1>6
  <2>2. CASE n # 1
    <3>1. n \in 2..n
      BY <2>2, <1>1
    <3> QED BY <3>1, <1>4, <1>11
  <2> QED BY <2>1, <2>2
<1>16. ASSUME NEW k \in 2..n
       PROVE  \E y \in Samples : /\ <<g[k - 1], y>> \in C /\ g[k] <= y /\ H(y) = H(g[k])
  <2>1. k \in 1..n /\ k - 1 \in 1..n
    BY <1>1
  <2>2. <<at[k - 1], at[k]>> \in C
    <3>1. <<at[k - 1], at[k]>> \in From(C) /\ at[k - 1] \in Samples
      BY <2>1, <1>4, <1>5
    <3>2. <<at[k - 1], at[k]>> # <<0, 1>>
      BY <3>1, <1>1
    <3> QED BY <3>1, <3>2 DEF From
  <2>3. g[k] <= at[k] /\ at[k] \in Samples
    <3>1. at[k] \in Samples
      BY <2>1, <1>5
    <3>2. g[k] = at[k] \/ (at[k] = N /\ g[k] = N - 1)
      BY <1>11
    <3> QED BY <3>1, <3>2, <1>1
  <2>4. H(at[k]) = H(g[k]) /\ g[k - 1] = at[k - 1]
    <3>1. H(at[k]) = s[k].p
      BY <2>1, <1>5
    <3>2. H(g[k]) = s[k].p /\ g[k - 1] = at[k - 1]
      BY <1>11
    <3> QED BY <3>1, <3>2
  <2> QED BY <2>2, <2>3, <2>4
<1>17. AllFound(s)
  BY <1>13, Zenon DEF AllFound, n, g
<1>18. Follows(s, C)
  <2>1. \A k \in 2..n : /\ g[k - 1] < g[k]
                       /\ \E y \in Samples : <<g[k - 1], y>> \in C /\ g[k] <= y /\ H(y) = H(g[k])
    BY <1>11, <1>16
  <2> QED BY <2>1, Zenon DEF Follows, n, g
<1>19. Found(0, s[1], 1)
  <2>1. 1 \in 1..n /\ 1 - 1 = 0
    BY <1>1
  <2>2. Found(at[1 - 1], s[1], at[1])
    BY <2>1, <1>4
  <2> QED BY <2>1, <2>2, <1>4, <1>6
<1> QED BY <1>14, <1>15, <1>17, <1>18, <1>19 DEF n, N, g

\* The pairs of neighbours in I, with a before the first of I.
Neighbours(a, I) ==
  {c \in ({a} \union I) \X I : c[1] < c[2] /\ \A i \in I : i <= c[1] \/ c[2] <= i}

\* Samples that are picked out of the history lead along it.
LEMMA PickedLeads ==
  ASSUME HistoryShape, NEW a \in Nat, NEW I, I \subseteq Samples, \A i \in I : a < i
  PROVE  /\ Picked(reversed, I) \in Seq(Point)
         /\ \E x \in {a} \union I :
              (\A i \in I : i <= x) /\ Leads(Picked(reversed, I), a, x, Neighbours(a, I))
<1> DEFINE N == Len(reversed)
           C == Neighbours(a, I)
<1>1. N \in Nat /\ Samples = 1..N /\ reversed \in Seq(Point)
      /\ \A k \in 1..N : reversed[k] \in Point
  BY DEF HistoryShape, Samples
<1> DEFINE w == Picked(reversed, I)
<1>0. w = Picked(reversed, I)
  OBVIOUS
<1> HIDE DEF w
<1>2. PICK out \in [0..N -> Seq(Point)] :
        /\ out[0] = <<>> /\ w = out[N]
        /\ \A k \in 1..N : out[k] = IF k \in I THEN Append(out[k - 1], reversed[k]) ELSE out[k - 1]
  BY <1>0, <1>1, PickedUnfolds
<1> HIDE DEF N, C
<1> DEFINE Reached(k, x) == /\ x = a \/ x < k + 1
                            /\ \A i \in I : i <= k => i <= x
                            /\ Leads(out[k], a, x, C)
           T == {k \in 0..N : \E x \in {a} \union I : Reached(k, x)}
<1>3. 0 \in T
  <2>1. Leads(out[0], a, a, C)
    BY <1>2, LeadsNone
  <2>2. Reached(0, a)
    BY <2>1, <1>1
  <2> QED BY <2>2, <1>1
<1>4. ASSUME NEW k \in (0 + 1)..N, k - 1 \in T PROVE k \in T
  <2>1. k \in 1..N /\ k - 1 \in 0..N /\ k \in 0..N /\ k \in Samples
    BY <1>1
  <2>2. PICK x \in {a} \union I : Reached(k - 1, x)
    BY <1>4
  <2>3. x \in Nat /\ (x = a \/ x < k) /\ (\A i \in I : i <= k - 1 => i <= x) /\ Leads(out[k - 1], a, x, C)
    BY <2>1, <2>2, <1>1
  <2>4. CASE k \notin I
    <3>1. out[k] = out[k - 1]
      BY <2>1, <2>4, <1>2
    <3>2. ASSUME NEW i \in I, i <= k PROVE i <= x
      <4>1. i \in Nat /\ i # k
        BY <1>1, <2>4
      <4>2. i <= k - 1
        BY <4>1, <3>2, <2>1
      <4> QED BY <4>2, <2>3
    <3>3. Reached(k, x)
      <4>1. (x = a \/ x < k + 1) /\ Leads(out[k], a, x, C)
        BY <2>1, <2>3, <3>1
      <4> QED BY <4>1, <3>2, Zenon
    <3> QED BY <2>1, <3>3
  <2>5. CASE k \in I
    <3>1. out[k] = Append(out[k - 1], reversed[k]) /\ out[k - 1] \in Seq(Point) /\ reversed[k] \in Point
      BY <2>1, <2>5, <1>1, <1>2
    <3>2. x < k
      BY <2>3, <2>5
    <3>3. Found(x, reversed[k], k)
      <4>1. /\ H(k) = reversed[k].p
            /\ \/ FindIndex(x, reversed[k]) = k
               \/ k = Len(reversed) /\ FindIndex(x, reversed[k]) = Len(reversed) - 1
        BY <2>1, <2>3, <3>2, FindIndexExact DEF H
      <4> QED BY <4>1, <2>1, <3>2 DEF Found
    <3>4. <<x, k>> \in C
      <4>1. \A i \in I : i <= x \/ k <= i
        BY <2>1, <2>3, <1>1
      <4> QED BY <2>5, <3>2, <4>1 DEF C, Neighbours
    <3>5. Leads(out[k], a, k, C)
      BY <2>3, <3>1, <3>3, <3>4, LeadsAppend
    <3>6. Reached(k, k)
      BY <2>1, <3>5, <1>1
    <3> HIDE DEF Reached
    <3> QED BY <2>1, <2>5, <3>6
  <2> QED BY <2>4, <2>5
<1>5. 0..N \subseteq T
  <2> HIDE DEF T
  <2>1. 0 \in Nat /\ \A k \in (0 + 1)..N : k - 1 \in T => k \in T
    BY <1>4
  <2> QED BY <2>1, <1>1, <1>3, RangeInduction, Zenon
<1>6. PICK x \in {a} \union I : Reached(N, x)
  <2>1. N \in T
    BY <1>1, <1>5
  <2> QED BY <2>1
<1>7. \A i \in I : i <= x
  BY <1>1, <1>6
<1>8. Leads(Picked(reversed, I), a, x, C) /\ Picked(reversed, I) \in Seq(Point)
  BY <1>0, <1>1, <1>2, <1>6
<1> QED BY <1>7, <1>8 DEF C

\* Everything picked is there.
LEMMA PickedKeeps ==
  ASSUME NEW S, NEW s \in Seq(S), NEW I, NEW i \in 1..Len(s), i \in I
  PROVE  \E k \in 1..Len(Picked(s, I)) : Picked(s, I)[k] = s[i]
<1> DEFINE n == Len(s)
           w == Picked(s, I)
<1>0. w = Picked(s, I)
  OBVIOUS
<1> HIDE DEF w
<1>1. PICK out \in [0..n -> Seq(S)] :
        /\ out[0] = <<>> /\ w = out[n]
        /\ \A k \in 1..n : out[k] = IF k \in I THEN Append(out[k - 1], s[k]) ELSE out[k - 1]
  BY <1>0, PickedUnfolds
<1>2. n \in Nat /\ i \in 1..n /\ i \in Nat
  OBVIOUS
<1> HIDE DEF n
<1> DEFINE T == {k \in 0..n : \E j \in 1..Len(out[k]) : out[k][j] = s[i]}
<1>3. i \in T
  <2>1. i - 1 \in 0..n /\ out[i] = Append(out[i - 1], s[i]) /\ out[i - 1] \in Seq(S) /\ s[i] \in S
    <3>1. i - 1 \in 0..n
      BY <1>2
    <3>2. out[i - 1] \in Seq(S) /\ s[i] \in S
      BY <3>1, <1>1
    <3> QED BY <3>1, <3>2, <1>1, <1>2
  <2>2. Len(out[i]) \in 1..Len(out[i]) /\ out[i][Len(out[i])] = s[i]
    BY <2>1
  <2> QED BY <2>2, <1>2
<1>4. ASSUME NEW k \in (i + 1)..n, k - 1 \in T PROVE k \in T
  <2>1. k \in 1..n /\ k - 1 \in 0..n /\ k \in 0..n
    BY <1>2
  <2>2. PICK j \in 1..Len(out[k - 1]) : out[k - 1][j] = s[i]
    BY <1>4
  <2>3. out[k - 1] \in Seq(S)
    BY <2>1, <1>1
  <2>4. CASE k \notin I
    BY <2>1, <2>2, <2>4, <1>1
  <2>5. CASE k \in I
    <3>1. out[k] = Append(out[k - 1], s[k])
      BY <2>1, <2>5, <1>1
    <3>2. j \in 1..Len(out[k]) /\ out[k][j] = out[k - 1][j]
      BY <2>2, <2>3, <3>1
    <3> QED BY <2>1, <2>2, <3>2
  <2> QED BY <2>4, <2>5
<1>5. i..n \subseteq T
  <2> HIDE DEF T
  <2>1. \A k \in (i + 1)..n : k - 1 \in T => k \in T
    BY <1>4
  <2> QED BY <2>1, <1>2, <1>3, RangeInduction, Zenon
<1>6. n \in T
  BY <1>2, <1>5
<1> QED BY <1>0, <1>1, <1>6

-----------------------------------------------------------------------------
(* Distances to segments.                                                  *)

\* Comparisons survive a positive factor.
LEMMA Scale ==
  ASSUME NEW x \in Int, NEW y \in Int, NEW d \in Nat \ {0}
  PROVE  /\ x > y => x * d > y * d
         /\ x >= y => x * d >= y * d
         /\ x * d > y * d => x > y
OBVIOUS

\* What SegmentDist returns.
Fractions == [num : Int, den : Nat \ {0}]

\* Farther is a strict weak order of the fractions.
LEMMA FartherTrans ==
  ASSUME NEW f \in Fractions, NEW g \in Fractions, NEW h \in Fractions
  PROVE  /\ Farther(h, g) /\ ~Farther(f, g) => Farther(h, f)
         /\ Farther(h, g) /\ ~Farther(h, f) => Farther(f, g)
         /\ Farther(h, g) => ~Farther(g, h)
<1> DEFINE fn == f.num
           fd == f.den
           gn == g.num
           gd == g.den
           hn == h.num
           hd == h.den
<1>1. /\ fn \in Int /\ gn \in Int /\ hn \in Int
      /\ fd \in Nat \ {0} /\ gd \in Nat \ {0} /\ hd \in Nat \ {0}
  BY DEF Fractions
<1>2. /\ Farther(h, g) <=> hn * gd > gn * hd
      /\ Farther(f, g) <=> fn * gd > gn * fd
      /\ Farther(h, f) <=> hn * fd > fn * hd
      /\ Farther(f, g) <=> fn * gd > gn * fd
      /\ Farther(g, h) <=> gn * hd > hn * gd
  BY DEF Farther
<1> HIDE DEF fn, fd, gn, gd, hn, hd
<1> DEFINE a == hn * gd
           b == gn * hd
           c == fn * gd
           d == gn * fd
           e == hn * fd
           k == fn * hd
<1>3. a \in Int /\ b \in Int /\ c \in Int /\ d \in Int /\ e \in Int /\ k \in Int
  BY <1>1
<1>4. a * fd = e * gd /\ b * fd = d * hd /\ c * hd = k * gd
  BY <1>1
<1> HIDE DEF a, b, c, d, e, k
<1>5. a > b /\ c <= d => e > k
  <2> SUFFICES ASSUME a > b, c <= d PROVE e > k
    OBVIOUS
  <2>1. a * fd > b * fd
    BY <1>1, <1>3, Scale
  <2>2. d * hd >= c * hd
    BY <1>1, <1>3, Scale
  <2>3. e * gd > k * gd
    BY <1>1, <1>3, <1>4, <2>1, <2>2
  <2> QED BY <1>1, <1>3, <2>3, Scale
<1>6. a > b /\ e <= k => c > d
  <2> SUFFICES ASSUME a > b, e <= k PROVE c > d
    OBVIOUS
  <2>1. a * fd > b * fd
    BY <1>1, <1>3, Scale
  <2>2. k * gd >= e * gd
    BY <1>1, <1>3, Scale
  <2>3. c * hd > d * hd
    BY <1>1, <1>3, <1>4, <2>1, <2>2
  <2> QED BY <1>1, <1>3, <2>3, Scale
<1> QED BY <1>2, <1>3, <1>5, <1>6 DEF a, b, c, d, e, k

\* Inner products are numbers, squared distances natural ones, and symmetric.
LEMMA DotType ==
  ASSUME NEW p \in Place, NEW q \in Place, NEW r \in Place, NEW s \in Place
  PROVE  /\ Diff(p, q) = <<p[1] - q[1], p[2] - q[2], p[3] - q[3]>>
         /\ Dot(Diff(p, q), Diff(r, s)) \in Int
         /\ Dist(p, q) \in Nat /\ Dist(p, q) = Dist(q, p) /\ Dist(p, p) = 0
<1> DEFINE x(i) == p[i] - q[i]
           y(i) == r[i] - s[i]
<1>1. \A i \in 1..3 : p[i] \in Nat /\ q[i] \in Nat /\ r[i] \in Nat /\ s[i] \in Nat
  BY DEF Place
<1>2. Dot(Diff(p, q), Diff(r, s)) = x(1) * y(1) + x(2) * y(2) + x(3) * y(3)
  BY DEF Dot, Diff
<1>3. /\ Dist(p, q) = x(1) * x(1) + x(2) * x(2) + x(3) * x(3)
      /\ Dist(q, p) = (q[1] - p[1]) * (q[1] - p[1]) + (q[2] - p[2]) * (q[2] - p[2]) + (q[3] - p[3]) * (q[3] - p[3])
      /\ Dist(p, p) = (p[1] - p[1]) * (p[1] - p[1]) + (p[2] - p[2]) * (p[2] - p[2]) + (p[3] - p[3]) * (p[3] - p[3])
  BY DEF Dist, Dot, Diff
<1>4. \A n \in Int : n * n \in Nat
  OBVIOUS
<1>5. \A m, n \in Nat : (m - n) * (m - n) = (n - m) * (n - m) /\ (m - m) * (m - m) = 0
  OBVIOUS
<1>6. Dist(p, q) \in Nat
  <2>1. x(1) \in Int /\ x(2) \in Int /\ x(3) \in Int
    BY <1>1
  <2> HIDE DEF x
  <2>2. x(1) * x(1) \in Nat /\ x(2) * x(2) \in Nat /\ x(3) * x(3) \in Nat
    BY <2>1, <1>4
  <2> QED BY <1>3, <2>2
<1>7. Dist(p, q) = Dist(q, p) /\ Dist(p, p) = 0
  BY <1>1, <1>3, <1>5
<1>8. Dot(Diff(p, q), Diff(r, s)) \in Int
  BY <1>1, <1>2
<1> QED BY <1>6, <1>7, <1>8 DEF Diff

\* The distance of a place to a segment is a fraction.
LEMMA SegmentDistType ==
  ASSUME NEW p \in Place, NEW a \in Place, NEW b \in Place
  PROVE  SegmentDist(p, a, b) \in Fractions
<1> DEFINE len == Dist(a, b)
           s == Dot(Diff(p, a), Diff(b, a))
<1>1. /\ len \in Nat /\ s \in Int /\ Dist(p, a) \in Nat /\ Dist(p, b) \in Nat
  BY DotType
<1>2. SegmentDist(p, a, b) =
        CASE s <= 0 \/ len = 0 -> [num |-> Dist(p, a), den |-> 1]
          [] s >= len /\ len # 0 -> [num |-> Dist(p, b), den |-> 1]
          [] OTHER -> [num |-> Dist(p, a) * len - s * s, den |-> len]
  BY DEF SegmentDist
<1> HIDE DEF len, s
<1>3. CASE s <= 0 \/ len = 0
  BY <1>1, <1>2, <1>3 DEF Fractions
<1>4. CASE s > 0 /\ len # 0 /\ s >= len
  <2>1. SegmentDist(p, a, b) = [num |-> Dist(p, b), den |-> 1]
    BY <1>1, <1>2, <1>4
  <2> QED BY <1>1, <2>1 DEF Fractions
<1>5. CASE s > 0 /\ len # 0 /\ s < len
  <2>1. SegmentDist(p, a, b) = [num |-> Dist(p, a) * len - s * s, den |-> len]
    BY <1>1, <1>2, <1>5
  <2>2. Dist(p, a) * len - s * s \in Int
    BY <1>1
  <2> QED BY <1>1, <1>5, <2>1, <2>2 DEF Fractions
<1> QED BY <1>1, <1>3, <1>4, <1>5

\* Every sample of the history is a sample at a place.
LEMMA HistoryPlaces ==
  ASSUME HistoryShape
  PROVE  /\ Len(reversed) \in Nat /\ Samples = 1..Len(reversed)
         /\ 1 \in Samples /\ Len(reversed) \in Samples
         /\ \A i \in Samples : H(i) \in Place /\ reversed[i] \in Point
<1>1. Len(reversed) \in Nat /\ Samples = 1..Len(reversed) /\ Len(reversed) >= 2
  BY DEF HistoryShape, Samples
<1>2. \A i \in Samples : reversed[i] \in Point
  BY <1>1 DEF HistoryShape
<1>3. \A i \in Samples : reversed[i].p \in Place
  BY <1>2 DEF Point
<1> QED BY <1>1, <1>2, <1>3 DEF H

\* Of finitely many distances one is the first of the largest.
LEMMA FirstFarthest ==
  ASSUME NEW a \in Nat, NEW b \in Nat, a <= b, NEW off \in [a..b -> Fractions]
  PROVE  \E i \in a..b :
           \A j \in a..b : ~Farther(off[j], off[i]) /\ (j < i => Farther(off[i], off[j]))
<1> DEFINE First(i, n) == \A j \in a..n : ~Farther(off[j], off[i]) /\ (j < i => Farther(off[i], off[j]))
           T == {n \in a..b : \E i \in a..n : First(i, n)}
<1>1. \A i \in a..b : ~Farther(off[i], off[i])
  <2> SUFFICES ASSUME NEW i \in a..b PROVE ~Farther(off[i], off[i])
    OBVIOUS
  <2>1. off[i] \in Fractions
    OBVIOUS
  <2> QED BY <2>1, FartherTrans
<1>2. a \in T
  <2>1. First(a, a)
    BY <1>1
  <2> QED BY <2>1
<1>3. ASSUME NEW n \in (a + 1)..b, n - 1 \in T PROVE n \in T
  <2>1. PICK i \in a..(n - 1) : First(i, n - 1)
    BY <1>3
  <2>2. n \in a..b /\ i \in a..b /\ off[n] \in Fractions /\ off[i] \in Fractions
    OBVIOUS
  <2>3. CASE Farther(off[n], off[i])
    <3>1. ASSUME NEW j \in a..(n - 1) PROVE Farther(off[n], off[j]) /\ ~Farther(off[j], off[n])
      <4>1. off[j] \in Fractions /\ ~Farther(off[j], off[i])
        BY <2>1
      <4> QED BY <4>1, <2>2, <2>3, FartherTrans
    <3>2. First(n, n)
      BY <3>1, <1>1
    <3> QED BY <3>2
  <2>4. CASE ~Farther(off[n], off[i])
    <3>1. First(i, n)
      BY <2>1, <2>4
    <3> QED BY <3>1
  <2> QED BY <2>3, <2>4
<1>4. a..b \subseteq T
  <2> HIDE DEF T
  <2>1. \A n \in (a + 1)..b : n - 1 \in T => n \in T
    BY <1>3
  <2> QED BY <2>1, <1>2, RangeInduction, Zenon
<1>5. b \in T
  <2> HIDE DEF T
  <2> QED BY <1>4
<1> QED BY <1>5

\* Farthest lies between the ends, and no other sample there is farther.
LEMMA FarthestFacts ==
  ASSUME HistoryShape, NEW a \in Samples, NEW b \in Samples, b > a + 1
  PROVE  /\ Farthest(a, b) \in (a + 1)..(b - 1)
         /\ \A j \in (a + 1)..(b - 1) :
              ~Farther(SegmentDist(H(j), H(a), H(b)), SegmentDist(H(Farthest(a, b)), H(a), H(b)))
<1> DEFINE m == a + 1
           n == b - 1
           off == [i \in m..n |-> SegmentDist(H(i), H(a), H(b))]
<1>1. m \in Nat /\ n \in Nat /\ m <= n /\ m..n \subseteq Samples
  BY DEF HistoryShape, Samples
<1>2. off \in [m..n -> Fractions]
  <2>1. \A i \in m..n : SegmentDist(H(i), H(a), H(b)) \in Fractions
    BY <1>1, HistoryPlaces, SegmentDistType
  <2> HIDE DEF m, n
  <2> QED BY <2>1
<1>3. \E i \in m..n : \A j \in m..n : ~Farther(off[j], off[i]) /\ (j < i => Farther(off[i], off[j]))
  <2> HIDE DEF off, m, n
  <2> QED BY <1>1, <1>2, FirstFarthest
<1>4. DOMAIN off = m..n
  OBVIOUS
<1>5. Farthest(a, b) = CHOOSE i \in DOMAIN off :
        \A j \in DOMAIN off : ~Farther(off[j], off[i]) /\ (j < i => Farther(off[i], off[j]))
  BY Zenon DEF Farthest
<1> DEFINE k == Farthest(a, b)
<1>6. k \in m..n /\ \A j \in m..n : ~Farther(off[j], off[k])
  <2> HIDE DEF off, m, n
  <2> QED BY <1>3, <1>4, <1>5, Zenon
<1> HIDE DEF k
<1>7. \A j \in m..n : off[j] = SegmentDist(H(j), H(a), H(b))
  OBVIOUS
<1>8. k \in m..n /\ \A j \in m..n : ~Farther(SegmentDist(H(j), H(a), H(b)), SegmentDist(H(k), H(a), H(b)))
  <2> HIDE DEF off, m, n
  <2> QED BY <1>6, <1>7
<1> QED BY <1>8, Zenon DEF k, m, n

\* What is not off by the farthest is not off at all; the ends never are.
LEMMA WithinWhenFarthestIs ==
  ASSUME HistoryShape, NEW a \in Samples, NEW b \in Samples, a < b, NEW e \in Nat,
         b > a + 1 => ~OffBy(Farthest(a, b), a, b, e)
  PROVE  \A i \in a..b : ~OffBy(i, a, b, e)
<1> DEFINE E == [num |-> e * e, den |-> 1]
<1>1. E \in Fractions /\ e * e \in Nat
  BY DEF Fractions
<1>2. H(a) \in Place /\ H(b) \in Place
  BY HistoryPlaces
<1>3. ~OffBy(a, a, b, e)
  <2>1. Dot(Diff(H(a), H(a)), Diff(H(b), H(a))) = 0 /\ Dist(H(a), H(a)) = 0
    <3>1. H(a)[1] \in Nat /\ H(a)[2] \in Nat /\ H(a)[3] \in Nat /\ H(b)[1] \in Nat /\ H(b)[2] \in Nat /\ H(b)[3] \in Nat
      BY <1>2 DEF Place
    <3>2. \A x \in Nat, y \in Int : (x - x) * y = 0
      OBVIOUS
    <3> QED BY <3>1, <3>2, <1>2, DotType DEF Dot, Diff
  <2>2. SegmentDist(H(a), H(a), H(b)) = [num |-> 0, den |-> 1]
    <3> DEFINE len == Dist(H(a), H(b))
               s == Dot(Diff(H(a), H(a)), Diff(H(b), H(a)))
    <3>1. len \in Nat /\ s = 0
      BY <1>2, <2>1, DotType
    <3>2. SegmentDist(H(a), H(a), H(b)) =
            CASE s <= 0 \/ len = 0 -> [num |-> Dist(H(a), H(a)), den |-> 1]
              [] s >= len /\ len # 0 -> [num |-> Dist(H(a), H(b)), den |-> 1]
              [] OTHER -> [num |-> Dist(H(a), H(a)) * len - s * s, den |-> len]
      BY DEF SegmentDist
    <3> HIDE DEF len, s
    <3> QED BY <3>1, <3>2, <2>1
  <2> QED BY <1>1, <2>2 DEF OffBy, Farther
<1>4. ~OffBy(b, a, b, e)
  <2> DEFINE len == Dist(H(a), H(b))
  <2>1. len \in Nat /\ Dot(Diff(H(b), H(a)), Diff(H(b), H(a))) = len /\ Dist(H(b), H(b)) = 0 /\ Dist(H(b), H(a)) = len
    BY <1>2, DotType DEF Dist
  <2> HIDE DEF len
  <2>0. Dist(H(a), H(b)) = len
    BY DEF len
  <2>2. SegmentDist(H(b), H(a), H(b)) = [num |-> 0, den |-> 1]
    <3>1. CASE len = 0
      BY <3>1, <2>0, <2>1 DEF SegmentDist
    <3>2. CASE len > 0
      BY <3>2, <2>0, <2>1 DEF SegmentDist
    <3> QED BY <3>1, <3>2, <2>1
  <2> QED BY <1>1, <2>2 DEF OffBy, Farther
<1>5. ASSUME NEW i \in (a + 1)..(b - 1) PROVE ~OffBy(i, a, b, e)
  <2> DEFINE k == Farthest(a, b)
             D(j) == SegmentDist(H(j), H(a), H(b))
  <2>1. b > a + 1
    BY <1>5 DEF HistoryShape, Samples
  <2>2. k \in (a + 1)..(b - 1) /\ ~Farther(D(i), D(k)) /\ ~Farther(D(k), E)
    BY <2>1, FarthestFacts DEF OffBy
  <2>3. i \in Samples /\ k \in Samples
    BY <2>2, HistoryPlaces
  <2>4. D(i) \in Fractions /\ D(k) \in Fractions
    BY <2>3, <1>2, HistoryPlaces, SegmentDistType
  <2>5. ~Farther(D(i), E)
    <3> HIDE DEF D, E, k
    <3> QED BY <2>2, <2>4, <1>1, FartherTrans
  <2> QED BY <2>5 DEF OffBy
<1>6. a \in Nat /\ b \in Nat
  BY HistoryPlaces
<1> QED BY <1>3, <1>4, <1>5, <1>6

-----------------------------------------------------------------------------
(* RdpSimplifier::simplify.                                                *)

\* The chords simplification may look at.
Pairs == Samples \X Samples

\* One step of the simplification: what f has for the parts, put together.
KeptStep(f, c) ==
  LET k == Farthest(c[1], c[2])
  IN  IF c[2] > c[1] + 1 /\ OffBy(k, c[1], c[2], Epsilon)
        THEN {k} \union UNION {f[part] : part \in Parts(c[1], k, c[2])}
        ELSE {}

\* The chord c is split: a sample between its ends is off by more than epsilon.
Splits(c) == c[2] > c[1] + 1 /\ OffBy(Farthest(c[1], c[2]), c[1], c[2], Epsilon)

\* A step looks at shorter chords only, the two parts of the one it splits.
LEMMA StepFacts ==
  ASSUME HistoryShape, NEW c \in Pairs, NEW f
  PROVE  LET k == Farthest(c[1], c[2])
         IN  /\ c[1] \in Samples /\ c[2] \in Samples /\ c[1] \in Nat /\ c[2] \in Nat
             /\ ~Splits(c) => KeptStep(f, c) = {}
             /\ Splits(c) => /\ k \in Samples /\ c[1] < k /\ k < c[2]
                             /\ <<c[1], k>> \in Pairs /\ <<k, c[2]>> \in Pairs
                             /\ KeptStep(f, c) = {k} \union f[<<c[1], k>>] \union f[<<k, c[2]>>]
<1> DEFINE k == Farthest(c[1], c[2])
<1>1. c[1] \in Samples /\ c[2] \in Samples /\ c[1] \in Nat /\ c[2] \in Nat
  BY HistoryPlaces DEF Pairs
<1>2. ~Splits(c) => KeptStep(f, c) = {}
  BY DEF Splits, KeptStep
<1>3. ASSUME Splits(c) PROVE k \in Samples /\ c[1] < k /\ k < c[2]
  <2>1. k \in (c[1] + 1)..(c[2] - 1)
    BY <1>1, <1>3, FarthestFacts DEF Splits
  <2> HIDE DEF k
  <2> QED BY <2>1, <1>1, HistoryPlaces
<1>4. ASSUME Splits(c) PROVE KeptStep(f, c) = {k} \union f[<<c[1], k>>] \union f[<<k, c[2]>>]
  <2>1. KeptStep(f, c) = {k} \union UNION {f[part] : part \in {<<c[1], k>>, <<k, c[2]>>}}
    BY <1>4 DEF Splits, KeptStep, Parts
  <2> HIDE DEF k
  <2>2. {f[part] : part \in {<<c[1], k>>, <<k, c[2]>>}} = {f[<<c[1], k>>], f[<<k, c[2]>>]}
    OBVIOUS
  <2> QED BY <2>1, <2>2
<1>5. Splits(c) => <<c[1], k>> \in Pairs /\ <<k, c[2]>> \in Pairs
  <2> HIDE DEF k
  <2> QED BY <1>1, <1>3 DEF Pairs
<1> QED BY <1>1, <1>2, <1>3, <1>4, <1>5

\* There is a function that makes every step of the simplification.
LEMMA KeptDefined ==
  ASSUME HistoryShape
  PROVE  \E f \in [Pairs -> SUBSET Samples] : f = [c \in Pairs |-> KeptStep(f, c)]
<1> DEFINE Upto(f, m) == \A c \in Pairs : c[2] <= c[1] + m + 1 => f[c] = KeptStep(f, c)
           T == {m \in Nat : \E f \in [Pairs -> SUBSET Samples] : Upto(f, m)}
<1>1. 0 \in T
  <2> DEFINE f == [c \in Pairs |-> {}]
  <2>1. f \in [Pairs -> SUBSET Samples] /\ \A c \in Pairs : f[c] = {}
    OBVIOUS
  <2> HIDE DEF f
  <2>2. ASSUME NEW c \in Pairs, c[2] <= c[1] + 0 + 1 PROVE f[c] = KeptStep(f, c)
    <3>1. c[1] \in Nat /\ c[2] \in Nat /\ (~Splits(c) => KeptStep(f, c) = {})
      BY StepFacts
    <3>2. ~Splits(c)
      BY <2>2, <3>1 DEF Splits
    <3> QED BY <2>1, <3>1, <3>2
  <2> QED BY <2>1, <2>2
<1>2. ASSUME NEW m \in Nat, m \in T PROVE m + 1 \in T
  <2>1. PICK f \in [Pairs -> SUBSET Samples] : Upto(f, m)
    BY <1>2
  <2> DEFINE g == [c \in Pairs |-> IF c[2] = c[1] + m + 2 THEN KeptStep(f, c) ELSE f[c]]
  <2>2. \A c \in Pairs : KeptStep(f, c) \in SUBSET Samples
    BY StepFacts
  <2>3. g \in [Pairs -> SUBSET Samples]
    BY <2>2
  <2>4. \A c \in Pairs : g[c] = IF c[2] = c[1] + m + 2 THEN KeptStep(f, c) ELSE f[c]
    OBVIOUS
  <2> HIDE DEF g
  <2>5. ASSUME NEW c \in Pairs, c[2] <= c[1] + (m + 1) + 1 PROVE g[c] = KeptStep(g, c)
    <3> DEFINE k == Farthest(c[1], c[2])
    <3>1. KeptStep(g, c) = KeptStep(f, c)
      <4>1. CASE ~Splits(c)
        BY <4>1, StepFacts
      <4>2. CASE Splits(c)
        <5>1. /\ c[1] \in Nat /\ c[2] \in Nat /\ k \in Samples /\ c[1] < k /\ k < c[2]
              /\ <<c[1], k>> \in Pairs /\ <<k, c[2]>> \in Pairs
              /\ KeptStep(f, c) = {k} \union f[<<c[1], k>>] \union f[<<k, c[2]>>]
              /\ KeptStep(g, c) = {k} \union g[<<c[1], k>>] \union g[<<k, c[2]>>]
          BY <4>2, StepFacts
        <5>2. k \in Nat
          BY <5>1, HistoryPlaces
        <5> HIDE DEF k
        <5>3. k # c[1] + m + 2 /\ c[2] # k + m + 2
          BY <2>5, <5>1, <5>2
        <5>4. g[<<c[1], k>>] = f[<<c[1], k>>] /\ g[<<k, c[2]>>] = f[<<k, c[2]>>]
          BY <2>4, <5>1, <5>3
        <5> QED BY <5>1, <5>4
      <4> QED BY <4>1, <4>2
    <3>2. CASE c[2] = c[1] + m + 2
      BY <2>4, <3>1, <3>2
    <3>3. CASE c[2] # c[1] + m + 2
      <4>0. c[1] \in Nat /\ c[2] \in Nat
        BY HistoryPlaces DEF Pairs
      <4>1. c[2] <= c[1] + m + 1
        BY <2>5, <3>3, <4>0
      <4>2. f[c] = KeptStep(f, c) /\ g[c] = f[c]
        BY <2>1, <2>4, <3>3, <4>1
      <4> QED BY <3>1, <4>2
    <3> QED BY <3>2, <3>3
  <2> QED BY <2>3, <2>5
<1>3. Len(reversed) \in T
  <2> HIDE DEF T
  <2>1. \A m \in Nat : m \in T => m + 1 \in T
    BY <1>2
  <2>2. Nat \subseteq T
    BY <1>1, <2>1, Induction
  <2> QED BY <2>2, HistoryPlaces
<1>4. PICK f \in [Pairs -> SUBSET Samples] : Upto(f, Len(reversed))
  BY <1>3
<1>5. ASSUME NEW c \in Pairs PROVE f[c] = KeptStep(f, c)
  <2>1. c[2] <= c[1] + Len(reversed) + 1
    BY HistoryPlaces DEF Pairs
  <2> QED BY <1>4, <2>1
<1>6. f = [c \in Pairs |-> KeptStep(f, c)]
  BY <1>5
<1> QED BY <1>6

\* Kept, unfolded: it makes every step of the simplification.
LEMMA KeptUnfolds ==
  ASSUME HistoryShape
  PROVE  \E f : /\ \A c \in Pairs : f[c] = KeptStep(f, c)
                /\ \A first, last \in Samples : Kept(first, last) = {first, last} \union f[<<first, last>>]
<1> DEFINE h == CHOOSE h : h = [c \in Pairs |-> KeptStep(h, c)]
           G == [c \in Pairs |-> KeptStep(h, c)]
<1>1. h = G
  <2>1. \E f : f = [c \in Pairs |-> KeptStep(f, c)]
    BY KeptDefined
  <2> QED BY <2>1, Zenon
<1>2. ASSUME NEW first \in Samples, NEW last \in Samples
      PROVE  Kept(first, last) = {first, last} \union h[<<first, last>>]
  BY Zenon DEF Kept, Pairs, KeptStep
<1> HIDE DEF h
<1>3. \A c \in Pairs : G[c] = KeptStep(h, c)
  OBVIOUS
<1>4. \A c \in Pairs : h[c] = KeptStep(h, c)
  <2> HIDE DEF G
  <2> QED BY <1>1, <1>3
<1> QED BY <1>2, <1>4

\* What K keeps of the chord from a to b: samples in between, each chord between
\* neighbours within epsilon of what it leaves out.
Simplified(a, b, K) ==
  /\ K \subseteq (a + 1)..(b - 1)
  /\ \A x, y \in {a, b} \union K :
       x < y /\ (\A i \in K : i <= x \/ y <= i) => \A i \in x..y : ~OffBy(i, x, y, Epsilon)

\* Two simplified chords with a common end make one.
LEMMA SimplifiedJoin ==
  ASSUME NEW a \in Nat, NEW b \in Nat, NEW k \in Nat, a < k, k < b, NEW K, NEW L,
         Simplified(a, k, K), Simplified(k, b, L)
  PROVE  Simplified(a, b, {k} \union K \union L)
<1> DEFINE M == {k} \union K \union L
<1>1. K \subseteq (a + 1)..(k - 1) /\ L \subseteq (k + 1)..(b - 1)
  BY DEF Simplified
<1>2. M \subseteq (a + 1)..(b - 1)
  BY <1>1
<1>3. ASSUME NEW x \in {a, b} \union M, NEW y \in {a, b} \union M, x < y,
             \A i \in M : i <= x \/ y <= i
      PROVE  \A i \in x..y : ~OffBy(i, x, y, Epsilon)
  <2>0. x \in Nat /\ y \in Nat
    BY <1>2
  <2>1. CASE y <= k
    <3>1. x \in {a, k} \union K /\ y \in {a, k} \union K
      BY <1>1, <1>3, <2>0, <2>1
    <3>2. \A i \in K : i <= x \/ y <= i
      BY <1>3
    <3> QED BY <3>1, <3>2, <1>3 DEF Simplified
  <2>2. CASE k <= x
    <3>1. x \in {k, b} \union L /\ y \in {k, b} \union L
      BY <1>1, <1>3, <2>0, <2>2
    <3>2. \A i \in L : i <= x \/ y <= i
      BY <1>3
    <3> QED BY <3>1, <3>2, <1>3 DEF Simplified
  <2> QED BY <1>3, <2>0, <2>1, <2>2
<1> HIDE DEF M
<1>4. Simplified(a, b, M)
  BY <1>2, <1>3 DEF Simplified
<1> QED BY <1>4 DEF M

\* What Kept keeps of a chord is within epsilon of what it leaves out.
LEMMA KeptSimplifies ==
  ASSUME HistoryShape, LengthAssumption, NEW a \in Samples, NEW b \in Samples, a < b
  PROVE  \E K : Kept(a, b) = {a, b} \union K /\ Simplified(a, b, K)
<1>1. PICK f : /\ \A c \in Pairs : f[c] = KeptStep(f, c)
               /\ \A first, last \in Samples : Kept(first, last) = {first, last} \union f[<<first, last>>]
  BY KeptUnfolds
<1> DEFINE P(m) == \A c \in Pairs : c[1] < c[2] /\ c[2] <= c[1] + m => Simplified(c[1], c[2], f[c])
           T == {m \in Nat : P(m)}
<1>2. \A c \in Pairs : c[1] \in Samples /\ c[2] \in Samples /\ c[1] \in Nat /\ c[2] \in Nat
  BY HistoryPlaces, SMTT(20) DEF Pairs
<1>3. 0 \in T
  BY <1>2
<1>4. ASSUME NEW m \in Nat, m \in T PROVE m + 1 \in T
  <2> SUFFICES ASSUME NEW c \in Pairs, c[1] < c[2], c[2] <= c[1] + (m + 1)
               PROVE  Simplified(c[1], c[2], f[c])
    OBVIOUS
  <2> DEFINE x == c[1]
             y == c[2]
             k == Farthest(x, y)
  <2>1. x \in Samples /\ y \in Samples /\ x \in Nat /\ y \in Nat /\ x < y /\ y <= x + (m + 1)
    BY <1>2
  <2>2. /\ ~Splits(c) => KeptStep(f, c) = {}
        /\ Splits(c) => /\ k \in Samples /\ x < k /\ k < y
                        /\ <<x, k>> \in Pairs /\ <<k, y>> \in Pairs
                        /\ KeptStep(f, c) = {k} \union f[<<x, k>>] \union f[<<k, y>>]
    BY StepFacts
  <2>3. f[c] = KeptStep(f, c)
    BY <1>1
  <2>4. CASE ~Splits(c)
    <3>1. f[c] = {}
      BY <2>2, <2>3, <2>4
    <3>2. y > x + 1 => ~OffBy(Farthest(x, y), x, y, Epsilon)
      BY <2>4 DEF Splits
    <3>3. Epsilon \in Nat
      BY DEF LengthAssumption
    <3> HIDE DEF x, y
    <3>4. \A i \in x..y : ~OffBy(i, x, y, Epsilon)
      BY <2>1, <3>2, <3>3, WithinWhenFarthestIs
    <3>5. Simplified(x, y, {})
      BY <2>1, <3>4 DEF Simplified
    <3> QED BY <3>1, <3>5 DEF x, y
  <2>5. CASE Splits(c)
    <3>1. /\ k \in Samples /\ x < k /\ k < y /\ <<x, k>> \in Pairs /\ <<k, y>> \in Pairs
          /\ f[c] = {k} \union f[<<x, k>>] \union f[<<k, y>>]
      BY <2>2, <2>3, <2>5
    <3> HIDE DEF k, x, y
    <3>2. k \in Nat
      BY <3>1, HistoryPlaces, SMTT(20)
    <3>3. <<x, k>>[1] = x /\ <<x, k>>[2] = k /\ <<k, y>>[1] = k /\ <<k, y>>[2] = y
      OBVIOUS
    <3>4. P(m)
      BY <1>4
    <3>5. k <= x + m /\ y <= k + m
      BY <2>1, <3>1, <3>2
    <3>6. Simplified(x, k, f[<<x, k>>]) /\ Simplified(k, y, f[<<k, y>>])
      <4> HIDE DEF P
      <4>1. \A c2 \in Pairs : c2[1] < c2[2] /\ c2[2] <= c2[1] + m => Simplified(c2[1], c2[2], f[c2])
        BY <3>4 DEF P
      <4> QED BY <3>1, <3>3, <3>5, <4>1
    <3>7. Simplified(x, y, f[c])
      BY <2>1, <3>1, <3>2, <3>6, SimplifiedJoin
    <3> QED BY <3>7 DEF x, y
  <2> QED BY <2>4, <2>5
<1>5. b \in T /\ a \in Nat /\ b \in Nat
  <2> HIDE DEF T
  <2>1. \A m \in Nat : m \in T => m + 1 \in T
    BY <1>4
  <2>2. Nat \subseteq T
    BY <1>3, <2>1, Induction
  <2> QED BY <2>2, HistoryPlaces
<1>6. Simplified(a, b, f[<<a, b>>])
  <2> DEFINE c == <<a, b>>
  <2>1. c \in Pairs /\ c[1] = a /\ c[2] = b
    BY DEF Pairs
  <2> HIDE DEF c
  <2>2. Simplified(c[1], c[2], f[c])
    BY <1>5, <2>1
  <2> QED BY <2>1, <2>2 DEF c
<1> QED BY <1>1, <1>6

\* The chords of a path that leads along chords of C are these, up to the twin.
LEMMA ChordsLead ==
  ASSUME HistoryShape, NEW S, points \in Seq(S), points # <<>>, NEW b, NEW C,
         C \subseteq Samples \X Samples, Leads(points, 0, b, From(C)), NEW c \in Chords
  PROVE  /\ c[1] \in Samples /\ c[2] \in Samples /\ c[1] < c[2]
         /\ \E y \in Samples : <<c[1], y>> \in C /\ c[2] <= y /\ H(y) = H(c[2])
<1> DEFINE n == Len(points)
           g == Indices(points)
<1>1. PICK k \in 1..n - 1 : c = <<g[k], g[k + 1]>>
  BY DEF Chords
<1>2. n \in Nat
  OBVIOUS
<1>3. /\ \A j \in 1..n : g[j] \in Samples
      /\ \A j \in 2..n :
           /\ g[j - 1] < g[j]
           /\ \E y \in Samples : <<g[j - 1], y>> \in C /\ g[j] <= y /\ H(y) = H(g[j])
  <2>1. AllFound(points) /\ Follows(points, C)
    BY IndicesFound
  <2> QED BY <2>1 DEF AllFound, Follows
<1> HIDE DEF n, g
<1>4. k \in 1..n /\ k + 1 \in 2..n /\ k + 1 \in 1..n /\ (k + 1) - 1 = k
  BY <1>2
<1>5. c[1] = g[k] /\ c[2] = g[k + 1]
  BY <1>1
<1>6. /\ g[k] \in Samples /\ g[k + 1] \in Samples /\ g[(k + 1) - 1] < g[k + 1]
      /\ \E y \in Samples : <<g[(k + 1) - 1], y>> \in C /\ g[k + 1] <= y /\ H(y) = H(g[k + 1])
  BY <1>3, <1>4
<1> QED BY <1>4, <1>5, <1>6

\* A path that leads to a sample is not empty.
LEMMA LeadsSome ==
  ASSUME NEW t, NEW b, b # 0, NEW C, Leads(t, 0, b, C)
  PROVE  t # <<>>
BY DEF Leads, Along

\* Chords within epsilon of every sample between their ends.
EpsilonChords == {c \in Pairs : c[1] < c[2] /\ \A i \in c[1]..c[2] : ~OffBy(i, c[1], c[2], Epsilon)}

\* The simplified path leads along such chords to the end of the history.
LEMMA SimplifyLeads ==
  ASSUME HistoryShape, LengthAssumption
  PROVE  LET kept == Picked(reversed, Kept(1, Len(reversed)))
         IN  kept \in Seq(Point) /\ Leads(kept, 0, Len(reversed), From(EpsilonChords))
<1> DEFINE N == Len(reversed)
           I == Kept(1, N)
<1>1. N \in Nat /\ Samples = 1..N /\ 1 \in Samples /\ N \in Samples /\ 1 < N /\ 0 \in Nat
  BY HistoryPlaces DEF HistoryShape
<1> HIDE DEF N, I
<1>2. PICK K : I = {1, N} \union K /\ Simplified(1, N, K)
  BY <1>1, KeptSimplifies DEF I
<1>3. K \subseteq 2..(N - 1)
  BY <1>2 DEF Simplified
<1>4. I \subseteq Samples /\ \A i \in I : 0 < i /\ i <= N
  BY <1>1, <1>2, <1>3
<1>5. PICK x \in {0} \union I : (\A i \in I : i <= x) /\ Leads(Picked(reversed, I), 0, x, Neighbours(0, I))
  BY <1>1, <1>4, PickedLeads
<1>6. x = N
  BY <1>1, <1>2, <1>4, <1>5
<1>7. Neighbours(0, I) \subseteq From(EpsilonChords)
  <2> SUFFICES ASSUME NEW a \in {0} \union I, NEW b \in I, a < b, \A i \in I : i <= a \/ b <= i
               PROVE  <<a, b>> \in From(EpsilonChords)
    <3>1. ASSUME NEW c \in Neighbours(0, I)
          PROVE  /\ c = <<c[1], c[2]>> /\ c[1] \in {0} \union I /\ c[2] \in I /\ c[1] < c[2]
                 /\ \A i \in I : i <= c[1] \/ c[2] <= i
      BY DEF Neighbours
    <3> QED BY <3>1
  <2>1. CASE a = 0
    <3>1. b = 1
      BY <1>1, <1>2, <1>4, <2>1
    <3> QED BY <2>1, <3>1 DEF From
  <2>2. CASE a # 0
    <3>1. a \in {1, N} \union K /\ b \in {1, N} \union K /\ a \in Samples /\ b \in Samples
      BY <1>2, <1>4, <2>2
    <3>2. \A i \in K : i <= a \/ b <= i
      BY <1>2
    <3>3. \A i \in a..b : ~OffBy(i, a, b, Epsilon)
      BY <1>2, <3>1, <3>2 DEF Simplified
    <3>4. <<a, b>> \in EpsilonChords
      BY <3>1, <3>3 DEF EpsilonChords, Pairs
    <3> QED BY <3>4 DEF From
  <2> QED BY <2>1, <2>2
<1>8. Leads(Picked(reversed, I), 0, N, From(EpsilonChords))
  BY <1>5, <1>6, <1>7, LeadsWiden
<1>9. Picked(reversed, I) \in Seq(Point)
  BY <1>1, <1>4, PickedLeads
<1> QED BY <1>8, <1>9 DEF I, N

\* So the chords it is found along are within epsilon too, up to the twin.
LEMMA ChordsWithin ==
  ASSUME HistoryShape, points \in Seq(Point), points # <<>>, NEW b, Leads(points, 0, b, From(EpsilonChords)),
         NEW c \in Chords
  PROVE  \A i \in c[1]..c[2] : ~OffBy(i, c[1], c[2], Epsilon)
<1>1. EpsilonChords \subseteq Samples \X Samples
  BY DEF EpsilonChords, Pairs
<1>2. c[1] \in Samples /\ c[2] \in Samples
  BY <1>1, ChordsLead
<1>3. PICK y \in Samples : <<c[1], y>> \in EpsilonChords /\ c[2] <= y /\ H(y) = H(c[2])
  BY <1>1, ChordsLead
<1>4. \A i \in c[1]..y : ~OffBy(i, c[1], y, Epsilon)
  BY <1>3 DEF EpsilonChords
<1>5. \A i \in c[1]..c[2] : i \in c[1]..y
  BY <1>2, <1>3, HistoryPlaces
<1>6. \A i : OffBy(i, c[1], y, Epsilon) <=> OffBy(i, c[1], c[2], Epsilon)
  BY <1>3, Zenon DEF OffBy
<1> QED BY <1>4, <1>5, <1>6

-----------------------------------------------------------------------------
(* The history is built.                                                   *)

\* The samples flown carry their numbers; the first is the takeoff.
Recorded ==
  /\ flown \in Seq(Point) /\ flown # <<>> /\ flown[1] = Sample(1, Takeoff)
  /\ \A i \in 1..Len(flown) : flown[i].t = i

\* What is added to the samples kept so far, at the k-th.
SpaceStep(q, k) ==
  IF q # <<>> /\ Dist(flown[k].p, Last(q).p) < MinSpacing * MinSpacing THEN q ELSE Append(q, flown[k])

\* Spaced, unfolded: it takes the samples of the flight one by one.
LEMMA SpacedUnfolds ==
  ASSUME Recorded
  PROVE  \E out \in [0..Len(flown) -> Seq(Point)] :
           /\ out[0] = <<>> /\ Spaced = out[Len(flown)]
           /\ \A k \in 1..Len(flown) : out[k] = SpaceStep(out[k - 1], k)
<1> DEFINE n == Len(flown)
           F == [x \in Seq(Point) \X Nat |-> IF x[2] \in 1..n THEN SpaceStep(x[1], x[2]) ELSE x[1]]
<1>1. n \in Nat /\ 0 \in Nat /\ 0 <= n /\ <<>> \in Seq(Point)
  BY DEF Recorded
<1>2. ASSUME NEW q \in Seq(Point), NEW k \in 1..n PROVE SpaceStep(q, k) \in Seq(Point)
  BY DEF Recorded, SpaceStep
<1>3. F \in [Seq(Point) \X Nat -> Seq(Point)]
  <2> HIDE DEF n
  <2> QED BY <1>2
<1>4. ASSUME NEW q \in Seq(Point), NEW k \in 1..n
      PROVE  F[<<q, k>>] = SpaceStep(q, k)
  <2>0. k \in Nat
    BY <1>1
  <2> HIDE DEF n
  <2>1. <<q, k>> \in Seq(Point) \X Nat /\ <<q, k>>[1] = q /\ <<q, k>>[2] = k
    BY <2>0
  <2> QED BY <2>1
<1> HIDE DEF F, n
<1>5. IsDefined(0, n, Seq(Point), <<>>, F)
  BY <1>1, <1>3, Recursion, Zenon
<1>6. PICK g \in [0..n -> Seq(Point)] : g[0] = <<>> /\ \A k \in (0 + 1)..n : g[k] = F[<<g[k - 1], k>>]
  BY <1>5 DEF IsDefined
<1>7. ASSUME NEW k \in 0..n
      PROVE  g[k] = IF k = 0 THEN <<>> ELSE SpaceStep(g[k - 1], k)
  <2>1. CASE k = 0
    BY <2>1, <1>6
  <2>2. CASE k # 0
    <3>1. k \in 1..n /\ k \in (0 + 1)..n /\ k - 1 \in 0..n
      BY <2>2, <1>1
    <3>2. g[k] = F[<<g[k - 1], k>>] /\ g[k - 1] \in Seq(Point)
      BY <3>1, <1>6
    <3> QED BY <3>1, <3>2, <1>4, <2>2
  <2> QED BY <2>1, <2>2
<1>8. g = [k \in 0..n |-> IF k = 0 THEN <<>> ELSE SpaceStep(g[k - 1], k)]
  BY <1>6, <1>7
<1> DEFINE h == CHOOSE h : h = [k \in 0..n |-> IF k = 0 THEN <<>> ELSE SpaceStep(h[k - 1], k)]
           G == [k \in 0..n |-> IF k = 0 THEN <<>> ELSE SpaceStep(h[k - 1], k)]
<1>9. h = G
  BY <1>8, Zenon
<1>10. Spaced = h[n]
  BY Zenon DEF Spaced, SpaceStep, n
<1> HIDE DEF h
<1>11. /\ h = [k \in 0..n |-> h[k]] /\ h[0] = <<>>
       /\ \A k \in 1..n : h[k] = SpaceStep(h[k - 1], k)
  <2>1. G = [k \in 0..n |-> G[k]]
    BY Zenon
  <2>2. G[0] = <<>>
    BY <1>1
  <2>3. ASSUME NEW k \in 1..n PROVE G[k] = SpaceStep(h[k - 1], k)
    <3>1. k \in 0..n /\ k # 0
      BY <1>1
    <3> QED BY <3>1, Zenon
  <2> HIDE DEF G
  <2> QED BY <1>9, <2>1, <2>2, <2>3
<1> HIDE DEF G
<1>12. h \in [0..n -> Seq(Point)]
  <2>1. ASSUME NEW k \in (0 + 1)..n, h[k - 1] \in Seq(Point) PROVE h[k] \in Seq(Point)
    <3>1. k \in 1..n
      BY <1>1
    <3>2. h[k] = SpaceStep(h[k - 1], k)
      BY <1>11, <3>1
    <3> QED BY <2>1, <3>1, <3>2, <1>2
  <2>2. h[0] \in Seq(Point) /\ \A k \in (0 + 1)..n : h[k - 1] \in Seq(Point) => h[k] \in Seq(Point)
    <3>1. h[0] \in Seq(Point)
      BY <1>1, <1>11
    <3> QED BY <2>1, <3>1
  <2> QED BY <1>1, <1>11, <2>2, RecursionType, Zenon
<1> QED BY <1>10, <1>11, <1>12 DEF n

\* Samples of the flight up to the k-th, in their order, from the takeoff on.
Kin(s, k) ==
  /\ s \in Seq(Point) /\ s # <<>> /\ s[1] = flown[1]
  /\ \A i \in 1..Len(s) : \E j \in 1..k : s[i] = flown[j]
  /\ \A i, j \in 1..Len(s) : i < j => s[i].t < s[j].t

\* The next sample may be kept or left out.
LEMMA KinAppend ==
  ASSUME Recorded, NEW s, NEW k \in Nat, k + 1 \in 1..Len(flown), Kin(s, k)
  PROVE  Kin(Append(s, flown[k + 1]), k + 1) /\ Kin(s, k + 1)
<1> DEFINE n == Len(s)
           x == flown[k + 1]
           w == Append(s, x)
<1>1. s \in Seq(Point) /\ x \in Point /\ n \in Nat /\ n >= 1 /\ x.t = k + 1
  BY DEF Kin, Recorded
<1>2. w \in Seq(Point) /\ Len(w) = n + 1 /\ w[n + 1] = x /\ \A i \in 1..n : w[i] = s[i]
  BY <1>1
<1>3. \A i \in 1..n : \E j \in 1..k : s[i] = flown[j]
  BY DEF Kin
<1>4. \A i \in 1..n : \E j \in 1..(k + 1) : s[i] = flown[j]
  <2> HIDE DEF n
  <2> QED BY <1>3
<1>5. \A i \in 1..n : s[i].t < k + 1
  <2> SUFFICES ASSUME NEW i \in 1..n PROVE s[i].t < k + 1
    OBVIOUS
  <2>1. PICK j \in 1..k : s[i] = flown[j]
    BY <1>3
  <2>2. j \in 1..Len(flown) /\ j < k + 1
    OBVIOUS
  <2> QED BY <2>1, <2>2 DEF Recorded
<1>6. \A i, j \in 1..n : i < j => s[i].t < s[j].t
  BY DEF Kin
<1>7. s[1] = flown[1] /\ s # <<>>
  BY DEF Kin
<1> HIDE DEF w, n, x
<1>8. ASSUME NEW i \in 1..n + 1, NEW j \in 1..n + 1, i < j PROVE w[i].t < w[j].t
  <2>1. CASE j = n + 1
    <3>1. i \in 1..n
      BY <2>1, <1>8, <1>1
    <3> QED BY <3>1, <2>1, <1>1, <1>2, <1>5
  <2>2. CASE j # n + 1
    <3>1. i \in 1..n /\ j \in 1..n
      BY <2>2, <1>8, <1>1
    <3> QED BY <3>1, <1>2, <1>6, <1>8
  <2> QED BY <2>1, <2>2
<1>9. ASSUME NEW i \in 1..n + 1 PROVE \E j \in 1..(k + 1) : w[i] = flown[j]
  <2>1. CASE i = n + 1
    <3>1. w[i] = flown[k + 1] /\ k + 1 \in 1..(k + 1)
      BY <2>1, <1>2 DEF x
    <3> QED BY <3>1
  <2>2. CASE i # n + 1
    <3>1. i \in 1..n
      BY <2>2, <1>1
    <3> QED BY <3>1, <1>2, <1>4
  <2> QED BY <2>1, <2>2
<1>10. Kin(w, k + 1)
  <2>1. w # <<>> /\ w[1] = flown[1]
    BY <1>1, <1>2, <1>7
  <2> QED BY <2>1, <1>2, <1>8, <1>9 DEF Kin
<1>11. Kin(s, k + 1)
  BY <1>1, <1>4, <1>6, <1>7 DEF Kin, n
<1> QED BY <1>10, <1>11 DEF w, x

\* Preprocessing keeps the takeoff, the order and the final position.
LEMMA PreprocessedFacts ==
  ASSUME Recorded
  PROVE  Kin(Preprocessed, Len(flown)) /\ Last(Preprocessed).p = Last(flown).p
<1> DEFINE n == Len(flown)
<1>1. n \in Nat /\ n >= 1 /\ Last(flown) = flown[n] /\ flown[1] \in Point /\ \A k \in 1..n : flown[k].t = k
  BY DEF Recorded, Last
<1>2. PICK out \in [0..n -> Seq(Point)] :
        /\ out[0] = <<>> /\ Spaced = out[n]
        /\ \A k \in 1..n : out[k] = SpaceStep(out[k - 1], k)
  BY SpacedUnfolds
<1> HIDE DEF n
<1> DEFINE T == {k \in 1..n : Kin(out[k], k)}
<1>3. 1 \in T
  <2>1. out[1] = <<flown[1]>>
    <3>1. out[1] = SpaceStep(out[1 - 1], 1) /\ 1 - 1 = 0
      BY <1>1, <1>2
    <3>2. out[1] = SpaceStep(<<>>, 1)
      BY <3>1, <1>2
    <3> QED BY <3>2, <1>1 DEF SpaceStep
  <2>2. 1 \in 1..n
    BY <1>1
  <2> DEFINE s == <<flown[1]>>
  <2>3. s \in Seq(Point) /\ s # <<>> /\ s[1] = flown[1] /\ Len(s) = 1
    BY <1>1
  <2> HIDE DEF s
  <2>4. \A i \in 1..Len(s) : i = 1
    BY <2>3
  <2>5. Kin(s, 1)
    BY <2>3, <2>4 DEF Kin
  <2> QED BY <2>1, <2>2, <2>5 DEF s
<1>4. ASSUME NEW k \in (1 + 1)..n, k - 1 \in T PROVE k \in T
  <2>1. k \in 1..n /\ k - 1 \in Nat /\ (k - 1) + 1 = k
    BY <1>1
  <2>2. Kin(out[k - 1], k - 1)
    BY <1>4
  <2>3. Kin(Append(out[k - 1], flown[k]), k) /\ Kin(out[k - 1], k)
    BY <2>1, <2>2, KinAppend DEF n
  <2>4. out[k] = out[k - 1] \/ out[k] = Append(out[k - 1], flown[k])
    BY <2>1, <1>2 DEF SpaceStep
  <2> QED BY <2>1, <2>3, <2>4
<1>5. Kin(Spaced, n)
  <2> HIDE DEF T
  <2>1. \A k \in (1 + 1)..n : k - 1 \in T => k \in T
    BY <1>4
  <2>2. 1 \in Nat
    OBVIOUS
  <2>3. 1..n \subseteq T
    BY <2>1, <2>2, <1>1, <1>3, RangeInduction, Zenon
  <2>4. n \in T
    BY <2>3, <1>1
  <2> QED BY <2>4, <1>2 DEF T
<1>6. CASE Last(Spaced).p = Last(flown).p
  BY <1>5, <1>6 DEF Preprocessed, n
<1>7. CASE Last(Spaced).p # Last(flown).p
  <2> DEFINE s == Spaced
             m == Len(s)
             w == Append(s, flown[n])
  <2>1. Preprocessed = w
    BY <1>1, <1>7 DEF Preprocessed
  <2>2. s \in Seq(Point) /\ m \in 1..m /\ Last(s) = s[m]
    BY <1>5 DEF Kin, Last
  <2>3. flown[n] \in Point
    BY <1>1 DEF Recorded, n
  <2>4. Last(w) = flown[n]
    BY <2>2, <2>3 DEF Last
  <2>5. \A i \in 1..m : \E j \in 1..n : s[i] = flown[j]
    BY <1>5 DEF Kin
  <2>6. \A i, j \in 1..m : i < j => s[i].t < s[j].t
    BY <1>5 DEF Kin
  <2> HIDE DEF s, m
  <2>7. PICK j \in 1..n : s[m] = flown[j]
    BY <2>2, <2>5
  <2>8. j # n
    BY <1>1, <1>7, <2>2, <2>7 DEF s
  <2>9. ASSUME NEW i \in 1..m PROVE \E k \in 1..(n - 1) : s[i] = flown[k]
    <3>1. PICK k \in 1..n : s[i] = flown[k]
      BY <2>5
    <3>2. k <= j
      <4>1. CASE i = m
        <5>1. flown[k].t = k /\ flown[j].t = j /\ flown[k] = flown[j] /\ k \in Nat
          BY <4>1, <2>7, <3>1, <1>1
        <5> QED BY <5>1
      <4>2. CASE i # m
        <5>1. i < m
          BY <4>2, <2>2
        <5>2. s[i].t < s[m].t
          BY <5>1, <2>2, <2>6
        <5> QED BY <5>2, <3>1, <2>7, <1>1
      <4> QED BY <4>1, <4>2
    <3>3. k \in 1..(n - 1)
      BY <3>2, <2>8, <1>1
    <3> QED BY <3>1, <3>3
  <2>10. Kin(s, n - 1)
    BY <1>5, <2>9 DEF Kin, s, m
  <2>11. n - 1 \in Nat /\ (n - 1) + 1 = n /\ n \in 1..Len(flown)
    BY <1>1 DEF n
  <2>12. Kin(w, n)
    BY <2>10, <2>11, KinAppend
  <2> HIDE DEF w
  <2> QED BY <1>1, <2>1, <2>4, <2>12 DEF n
<1> QED BY <1>6, <1>7

\* Samples in the order in which they were recorded.
Rising(d) == d \in Seq(Point) /\ d # <<>> /\ \A i, j \in 1..Len(d) : i < j => d[i].t < d[j].t

\* A landing before the samples: only its points may be the same.
LEMMA LandingFirst ==
  ASSUME NEW d, Rising(d), NEW x \in Point, NEW y \in Point, x.t = 1, y.t = 1,
         \A i \in 1..Len(d) : d[i].t >= 1
  PROVE  LET s == <<x>> \o d
             t == <<x, y>> \o d
         IN  /\ s \in Seq(Point) /\ Len(s) >= 2 /\ s[1] = x /\ Last(s) = Last(d)
             /\ \A i, j \in 1..Len(s) : i < j /\ s[i] = s[j] => i = 1 /\ j = 2
             /\ t \in Seq(Point) /\ Len(t) >= 2 /\ t[1] = x /\ Last(t) = Last(d)
             /\ (\A i \in 1..Len(d) : d[i].t > 1) =>
                  \A i, j \in 1..Len(t) : i < j /\ t[i] = t[j] => i = 1 /\ j = 2
<1> DEFINE n == Len(d)
           s == <<x>> \o d
           t == <<x, y>> \o d
<1>1. d \in Seq(Point) /\ n \in Nat /\ n >= 1 /\ \A i, j \in 1..n : i < j => d[i].t < d[j].t
  BY DEF Rising
<1>2. \A i \in 1..n : d[i] \in Point /\ d[i].t \in Nat
  <2>1. \A i \in 1..n : d[i] \in Point
    BY <1>1
  <2> QED BY <2>1 DEF Point
<1>3. s \in Seq(Point) /\ Len(s) = n + 1 /\ s[1] = x /\ \A i \in 2..(n + 1) : s[i] = d[i - 1]
  BY <1>1
<1>4. t \in Seq(Point) /\ Len(t) = n + 2 /\ t[1] = x /\ t[2] = y /\ \A i \in 3..(n + 2) : t[i] = d[i - 2]
  BY <1>1
<1>5. \A i \in 1..n : d[i].t >= 1
  OBVIOUS
<1> HIDE DEF s, t, n
<1>6. Last(s) = Last(d) /\ Last(t) = Last(d)
  BY <1>1, <1>3, <1>4 DEF Last, n
<1>7. ASSUME NEW i \in 1..(n + 1), NEW j \in 1..(n + 1), i < j, s[i] = s[j] PROVE i = 1 /\ j = 2
  <2>1. j \in 2..(n + 1) /\ j - 1 \in 1..n /\ s[j] = d[j - 1]
    BY <1>1, <1>3, <1>7
  <2>2. CASE i = 1
    <3>1. d[j - 1].t = 1
      BY <1>3, <1>7, <2>1, <2>2
    <3>2. CASE j - 1 > 1
      <4>1. 1 \in 1..n /\ d[1].t < d[j - 1].t /\ d[1].t >= 1 /\ d[1].t \in Nat
        BY <1>1, <1>2, <1>5, <2>1, <3>2
      <4> QED BY <3>1, <4>1
    <3>3. j \in Int /\ (j - 1 > 1 \/ j = 2)
      BY <2>1, <1>1
    <3> QED BY <3>2, <3>3, <2>2
  <2>3. CASE i # 1
    <3>1. i \in 2..(n + 1) /\ i - 1 \in 1..n /\ s[i] = d[i - 1] /\ i - 1 < j - 1
      BY <1>1, <1>3, <1>7, <2>1, <2>3
    <3>2. d[i - 1].t < d[j - 1].t /\ d[i - 1].t \in Nat
      BY <1>1, <1>2, <2>1, <3>1
    <3> QED BY <1>7, <2>1, <3>1, <3>2
  <2> QED BY <2>2, <2>3
<1>8. ASSUME \A k \in 1..n : d[k].t > 1, NEW i \in 1..(n + 2), NEW j \in 1..(n + 2), i < j, t[i] = t[j]
      PROVE i = 1 /\ j = 2
  <2>1. CASE j = 2
    BY <2>1, <1>8
  <2>2. CASE j # 2
    <3>1. j \in 3..(n + 2) /\ j - 2 \in 1..n /\ t[j] = d[j - 2] /\ d[j - 2].t > 1 /\ d[j - 2].t \in Nat
      BY <1>1, <1>2, <1>4, <1>8, <2>2
    <3>2. CASE i \in {1, 2}
      BY <1>4, <1>8, <3>1, <3>2
    <3>3. CASE i \notin {1, 2}
      <4>1. i \in 3..(n + 2) /\ i - 2 \in 1..n /\ t[i] = d[i - 2] /\ i - 2 < j - 2
        BY <1>1, <1>4, <1>8, <3>3
      <4>2. d[i - 2].t < d[j - 2].t /\ d[i - 2].t \in Nat
        BY <1>1, <1>2, <3>1, <4>1
      <4> QED BY <1>8, <3>1, <4>1, <4>2
    <3> QED BY <3>2, <3>3
  <2> QED BY <2>1, <2>2
<1> QED BY <1>1, <1>3, <1>4, <1>6, <1>7, <1>8 DEF s, t, n

\* The samples from the k-th on.
LEMMA RisingFrom ==
  ASSUME NEW d, Rising(d), NEW k \in 1..Len(d)
  PROVE  LET e == SubSeq(d, k, Len(d))
         IN  /\ Rising(e) /\ Last(e) = Last(d)
             /\ \A i \in 1..Len(e) : k - 1 + i \in 1..Len(d) /\ e[i] = d[k - 1 + i]
<1> DEFINE n == Len(d)
           e == SubSeq(d, k, n)
<1>1. d \in Seq(Point) /\ n \in Nat /\ k \in 1..n /\ \A i, j \in 1..n : i < j => d[i].t < d[j].t
  BY DEF Rising
<1>2. e \in Seq(Point) /\ Len(e) = n - k + 1 /\ \A i \in 1..(n - k + 1) : e[i] = d[k + i - 1]
  BY <1>1
<1> HIDE DEF e, n
<1>3. \A i \in 1..(n - k + 1) : k - 1 + i \in 1..n /\ e[i] = d[k - 1 + i]
  <2> SUFFICES ASSUME NEW i \in 1..(n - k + 1) PROVE k - 1 + i \in 1..n /\ e[i] = d[k - 1 + i]
    OBVIOUS
  <2>1. k + i - 1 = k - 1 + i /\ k - 1 + i \in 1..n
    BY <1>1
  <2> QED BY <2>1, <1>2
<1>4. \A i, j \in 1..(n - k + 1) : i < j => e[i].t < e[j].t
  <2> SUFFICES ASSUME NEW i \in 1..(n - k + 1), NEW j \in 1..(n - k + 1), i < j PROVE e[i].t < e[j].t
    OBVIOUS
  <2>1. k - 1 + i \in 1..n /\ k - 1 + j \in 1..n /\ k - 1 + i < k - 1 + j
    BY <1>1, <1>3
  <2>2. d[k - 1 + i].t < d[k - 1 + j].t
    BY <1>1, <2>1
  <2> QED BY <2>2, <1>3
<1>5. e # <<>> /\ Last(e) = Last(d)
  <2>1. n - k + 1 \in 1..(n - k + 1) /\ k - 1 + (n - k + 1) = n
    BY <1>1
  <2>2. e[n - k + 1] = d[n]
    BY <2>1, <1>3
  <2> QED BY <2>1, <2>2, <1>2 DEF Last, n
<1>6. Rising(e)
  BY <1>2, <1>4, <1>5 DEF Rising
<1> QED BY <1>2, <1>3, <1>5, <1>6 DEF e, n

\* Reverse, element by element.
LEMMA ReverseFacts ==
  ASSUME NEW S, NEW s \in Seq(S), s # <<>>
  PROVE  /\ Reverse(s) \in Seq(S) /\ Len(Reverse(s)) = Len(s)
         /\ Reverse(s)[1] = Last(s) /\ Last(Reverse(s)) = s[1]
         /\ \A i \in 1..Len(s) : Reverse(s)[i] = s[Len(s) - i + 1] /\ Len(s) - i + 1 \in 1..Len(s)
<1> DEFINE n == Len(s)
           r == [i \in 1..n |-> s[(n - i) + 1]]
<1>1. Reverse(s) = r
  BY DEF Reverse
<1>2. n \in Nat /\ n >= 1
  OBVIOUS
<1>3. \A i \in 1..n : n - i + 1 \in 1..n
  BY <1>2
<1>4. \A i \in 1..n : s[n - i + 1] \in S
  BY <1>3
<1>5. r \in [1..n -> S] /\ \A i \in 1..n : r[i] = s[n - i + 1]
  <2> HIDE DEF n
  <2> QED BY <1>4
<1>6. r \in Seq(S) /\ Len(r) = n
  <2> HIDE DEF r
  <2>1. r \in Seq(S)
    BY <1>2, <1>5
  <2>2. DOMAIN r = 1..n
    BY <1>5
  <2> QED BY <2>1, <2>2, <1>2
<1> HIDE DEF r, n
<1>7. n - 1 + 1 = n /\ n - n + 1 = 1 /\ 1 \in 1..n /\ n \in 1..n
  BY <1>2
<1>8. r[1] = s[n] /\ r[n] = s[1]
  BY <1>5, <1>7
<1> QED BY <1>1, <1>3, <1>5, <1>6, <1>8 DEF Last, n

\* Whatever h and the samples: the return's history, of a flight recorded so.
LEMMA HistoryFacts ==
  ASSUME Recorded, LengthAssumption, Takeoff \in Place, Len(Preprocessed) >= 2
  PROVE  LET r == ReturnHistory(Preprocessed)
         IN  /\ r \in Seq(Point) /\ Len(r) >= 2
             /\ r[1].p = Last(flown).p
             /\ Last(r).p = AtHeight(Takeoff, Takeoff[3] + HandoffHeight)
             /\ \A i, j \in 1..Len(r) : i < j /\ r[i] = r[j] => i = Len(r) - 1 /\ j = Len(r)
<1> DEFINE S == Preprocessed
           handoff == Sample(flown[1].t, AtHeight(flown[1].p, flown[1].p[3] + HandoffHeight))
           away == {i \in 2..Len(S) : HorizontalDist(S[i].p, handoff.p) > TrimRadius * TrimRadius}
           d == IF away = {} THEN S ELSE SubSeq(S, Min(away), Len(S))
           approach == Sample(handoff.t, AtHeight(handoff.p, d[1].p[3]))
           s == <<handoff>> \o d
           t == <<handoff, approach>> \o d
           r == ReturnHistory(S)
<1>1. r = IF HorizontalDist(d[1].p, approach.p) > 0 THEN Reverse(t) ELSE Reverse(s)
  BY Zenon DEF ReturnHistory
<1>2. /\ S \in Seq(Point) /\ S # <<>> /\ S[1] = flown[1] /\ Last(S).p = Last(flown).p
      /\ \A i, j \in 1..Len(S) : i < j => S[i].t < S[j].t
  BY PreprocessedFacts DEF Kin
<1>3. flown[1] = Sample(1, Takeoff)
  BY DEF Recorded
<1>4. /\ Takeoff[1] \in Nat /\ Takeoff[2] \in Nat /\ Takeoff[3] \in Nat /\ HandoffHeight \in Nat
      /\ Takeoff = <<Takeoff[1], Takeoff[2], Takeoff[3]>>
  BY DEF Place, LengthAssumption
<1>5. handoff = [t |-> 1, p |-> AtHeight(Takeoff, Takeoff[3] + HandoffHeight)] /\ handoff \in Point
  BY <1>3, <1>4, SMTT(20) DEF Sample, AtHeight, Point, Place
<1> HIDE DEF S, handoff
<1>6. Rising(S) /\ 1 \in 1..Len(S) /\ S[1].t = 1
  BY <1>2, <1>3 DEF Rising, Sample
<1>7. ASSUME NEW i \in 1..Len(S), i # 1 PROVE S[i].t > 1
  <2>1. i > 1
    BY <1>2, <1>7
  <2>2. S[1].t < S[i].t /\ S[i] \in Point
    BY <2>1, <1>2, <1>6, SMTT(20)
  <2> QED BY <2>2, <1>6 DEF Point
<1>8. away \subseteq 2..Len(S)
  OBVIOUS
<1> HIDE DEF away
<1>9. /\ Rising(d) /\ Last(d) = Last(S)
      /\ \A i \in 1..Len(d) : d[i].t >= 1
      /\ away # {} => \A i \in 1..Len(d) : d[i].t > 1
  <2>1. CASE away = {}
    <3>1. d = S
      BY <2>1
    <3>2. \A i \in 1..Len(S) : S[i].t >= 1
      <4> SUFFICES ASSUME NEW i \in 1..Len(S) PROVE S[i].t >= 1
        OBVIOUS
      <4>0. S[i] \in Point
        BY <1>2
      <4>1. S[i].t \in Nat
        BY <4>0 DEF Point
      <4>2. i = 1 \/ S[i].t > 1
        BY <1>7
      <4> QED BY <4>1, <4>2, <1>6, SMTT(20)
    <3> HIDE DEF d
    <3> QED BY <2>1, <3>1, <3>2, <1>6
  <2>2. CASE away # {}
    <3> DEFINE k == Min(away)
    <3>1. d = SubSeq(S, k, Len(S))
      BY <2>2
    <3>2. k \in away
      <4>1. away \subseteq Nat
        BY <1>2, <1>8
      <4> QED BY <2>2, <4>1, MinFacts
    <3> HIDE DEF k, d
    <3>3. k \in 1..Len(S) /\ k >= 2
      BY <1>2, <1>8, <3>2
    <3>4. /\ Rising(d) /\ Last(d) = Last(S)
          /\ \A i \in 1..Len(d) : k - 1 + i \in 1..Len(S) /\ d[i] = S[k - 1 + i]
      BY <1>6, <3>1, <3>3, RisingFrom
    <3>5. ASSUME NEW i \in 1..Len(d) PROVE d[i].t > 1 /\ d[i].t >= 1
      <4>1. k - 1 + i \in 1..Len(S) /\ d[i] = S[k - 1 + i] /\ k - 1 + i # 1
        <5>1. Len(d) \in Nat /\ Len(S) \in Nat
          BY <1>2, <3>4, SMTT(20) DEF Rising
        <5>2. k \in Nat /\ i \in Nat /\ i >= 1
          BY <3>3, <5>1
        <5>3. k - 1 + i # 1
          BY <3>3, <5>2
        <5> QED BY <3>4, <5>3
      <4>2. d[i].t > 1
        BY <4>1, <1>7
      <4>3. d[i] \in Point
        BY <4>1, <1>2, SMTT(20)
      <4> QED BY <4>2, <4>3 DEF Point
    <3> QED BY <3>4, <3>5
  <2> QED BY <2>1, <2>2
<1>10. d \in Seq(Point) /\ d[1] \in Point
  <2> HIDE DEF d
  <2>1. d \in Seq(Point) /\ d # <<>>
    BY <1>9 DEF Rising
  <2> QED BY <2>1
<1>11. approach \in Point /\ approach.t = 1 /\ handoff.t = 1
  <2>1. d[1].p[3] \in Nat
    BY <1>10 DEF Point, Place
  <2> HIDE DEF d
  <2> QED BY <1>4, <1>5, <2>1 DEF Sample, AtHeight, Point, Place
<1>12. away = {} => ~(HorizontalDist(d[1].p, approach.p) > 0)
  <2> SUFFICES ASSUME away = {} PROVE ~(HorizontalDist(d[1].p, approach.p) > 0)
    OBVIOUS
  <2>1. d[1].p = Takeoff
    BY <1>2, <1>3 DEF Sample
  <2>2. approach.p[1] = Takeoff[1] /\ approach.p[2] = Takeoff[2]
    BY <1>5 DEF Sample, AtHeight
  <2> HIDE DEF d, approach
  <2>3. HorizontalDist(d[1].p, approach.p) = Dist(<<Takeoff[1], Takeoff[2], 0>>, <<Takeoff[1], Takeoff[2], 0>>)
    BY <2>1, <2>2 DEF HorizontalDist
  <2>4. <<Takeoff[1], Takeoff[2], 0>> \in Place
    BY <1>4 DEF Place
  <2>5. Dist(<<Takeoff[1], Takeoff[2], 0>>, <<Takeoff[1], Takeoff[2], 0>>) = 0
    BY <2>4, DotType
  <2> QED BY <2>3, <2>5
<1> HIDE DEF d, approach
<1>13. /\ s \in Seq(Point) /\ Len(s) >= 2 /\ s[1] = handoff /\ Last(s) = Last(d)
       /\ \A i, j \in 1..Len(s) : i < j /\ s[i] = s[j] => i = 1 /\ j = 2
       /\ t \in Seq(Point) /\ Len(t) >= 2 /\ t[1] = handoff /\ Last(t) = Last(d)
       /\ (\A i \in 1..Len(d) : d[i].t > 1) =>
                  \A i, j \in 1..Len(t) : i < j /\ t[i] = t[j] => i = 1 /\ j = 2
  <2>1. ASSUME NEW x, x = handoff, NEW y, y = approach
        PROVE  LET ss == <<x>> \o d
                   tt == <<x, y>> \o d
               IN  /\ ss \in Seq(Point) /\ Len(ss) >= 2 /\ ss[1] = x /\ Last(ss) = Last(d)
                   /\ \A i, j \in 1..Len(ss) : i < j /\ ss[i] = ss[j] => i = 1 /\ j = 2
                   /\ tt \in Seq(Point) /\ Len(tt) >= 2 /\ tt[1] = x /\ Last(tt) = Last(d)
                   /\ (\A i \in 1..Len(d) : d[i].t > 1) =>
                        \A i, j \in 1..Len(tt) : i < j /\ tt[i] = tt[j] => i = 1 /\ j = 2
    <3>1. x \in Point /\ y \in Point /\ x.t = 1 /\ y.t = 1 /\ Rising(d) /\ \A i \in 1..Len(d) : d[i].t >= 1
      BY <1>5, <1>9, <1>11, <2>1
    <3> QED BY <3>1, LandingFirst, Zenon
  <2> QED BY <2>1, Zenon
<1> HIDE DEF s, t, r
<1>14. PICK q \in {s, t} : /\ r = Reverse(q)
                           /\ \A i, j \in 1..Len(q) : i < j /\ q[i] = q[j] => i = 1 /\ j = 2
  <2>1. CASE HorizontalDist(d[1].p, approach.p) > 0
    <3>1. r = Reverse(t) /\ \A i \in 1..Len(d) : d[i].t > 1
      BY <1>1, <1>9, <1>12, <2>1
    <3> QED BY <3>1, <1>13
  <2>2. CASE ~(HorizontalDist(d[1].p, approach.p) > 0)
    <3>1. r = Reverse(s)
      BY <1>1, <2>2
    <3> QED BY <3>1, <1>13
  <2> QED BY <2>1, <2>2
<1>15. q \in Seq(Point) /\ Len(q) >= 2 /\ q[1] = handoff /\ Last(q) = Last(d) /\ q # <<>>
  BY <1>13, SMTT(20)
<1>16. /\ r \in Seq(Point) /\ Len(r) = Len(q) /\ r[1] = Last(q) /\ Last(r) = q[1]
       /\ \A i \in 1..Len(q) : r[i] = q[Len(q) - i + 1] /\ Len(q) - i + 1 \in 1..Len(q)
  BY <1>14, <1>15, ReverseFacts
<1>17. ASSUME NEW i \in 1..Len(r), NEW j \in 1..Len(r), i < j, r[i] = r[j]
       PROVE  i = Len(r) - 1 /\ j = Len(r)
  <2> DEFINE n == Len(q)
             x == n - j + 1
             y == n - i + 1
  <2>1. n \in Nat /\ Len(r) = n /\ x \in 1..n /\ y \in 1..n /\ x < y /\ q[x] = q[y]
    BY <1>15, <1>16, <1>17, SMTT(20)
  <2>2. x = 1 /\ y = 2
    <3> HIDE DEF n, x, y
    <3> QED BY <1>14, <2>1 DEF n
  <2>3. i \in Int /\ j \in Int /\ n \in Int /\ n - j + 1 = 1 /\ n - i + 1 = 2 /\ Len(r) = n
    BY <2>1, <2>2
  <2> HIDE DEF n
  <2> QED BY <2>3
<1>18. r[1].p = Last(flown).p /\ Last(r).p = AtHeight(Takeoff, Takeoff[3] + HandoffHeight)
  BY <1>2, <1>5, <1>9, <1>15, <1>16
<1> QED BY <1>15, <1>16, <1>17, <1>18 DEF r, S

-----------------------------------------------------------------------------
(* preserveVerticalHistory.                                                *)

\* From anywhere between two points the second is found where it was.
LEMMA FoundBetween ==
  ASSUME HistoryShape, NEW s \in Seq(Point), s # <<>>, AllFound(s), NEW k \in 2..Len(s),
         NEW x \in Nat, Indices(s)[k - 1] <= x, x < Indices(s)[k]
  PROVE  Found(x, s[k], Indices(s)[k])
<1> DEFINE a == Indices(s)[k - 1]
           b == Indices(s)[k]
<1>1. k \in 1..Len(s) /\ k - 1 \in 1..Len(s)
  OBVIOUS
<1>2. a \in Samples /\ b \in Samples /\ H(b) = s[k].p
  BY <1>1 DEF AllFound
<1>3. b = FindIndex(a, s[k])
  BY IndicesUnfold
<1> HIDE DEF a, b
<1>4. a \in Nat /\ b \in Nat
  BY <1>2, HistoryPlaces
<1>5. \A y \in a..(b - 1) : FindIndex(y, s[k]) = b
  BY <1>2, <1>3, <1>4, FindIndexFacts
<1>6. x \in a..(b - 1)
  BY <1>4 DEF a, b
<1>7. Found(x, s[k], b)
  BY <1>2, <1>5, <1>6 DEF Found, b
<1> QED BY <1>7 DEF b

\* The points of a path that are found are found in the order of the history.
LEMMA IndicesRise ==
  ASSUME HistoryShape, NEW s \in Seq(Point), s # <<>>, AllFound(s), NEW k \in 2..Len(s)
  PROVE  /\ Indices(s)[k - 1] \in Samples /\ Indices(s)[k] \in Samples
         /\ Indices(s)[k - 1] \in Nat /\ Indices(s)[k] \in Nat
         /\ Indices(s)[k - 1] < Indices(s)[k]
<1> DEFINE a == Indices(s)[k - 1]
           b == Indices(s)[k]
<1>1. k \in 1..Len(s) /\ k - 1 \in 1..Len(s)
  OBVIOUS
<1>2. a \in Samples /\ b \in Samples
  BY <1>1 DEF AllFound
<1>3. b = FindIndex(a, s[k])
  BY IndicesUnfold
<1> HIDE DEF a, b
<1>4. a \in Nat /\ b \in Nat
  BY <1>2, HistoryPlaces
<1>5. a < b
  BY <1>2, <1>3, <1>4, FindIndexFacts
<1> QED BY <1>2, <1>4, <1>5 DEF a, b

\* Where each piece of a path leads on from sample to sample, so does the whole.
LEMMA PiecesLead ==
  ASSUME HistoryShape, NEW s \in Seq(Point), s # <<>>, AllFound(s), Found(0, s[1], 1), NEW C,
         NEW parts \in Seq(Seq(Point)), Len(parts) = Len(s), parts[1] = <<s[1]>>,
         \A k \in 2..Len(s) : Leads(parts[k], Indices(s)[k - 1], Indices(s)[k], C)
  PROVE  /\ FlattenSeq(parts) \in Seq(Point)
         /\ Leads(FlattenSeq(parts), 0, Indices(s)[Len(s)], From(C))
<1> DEFINE n == Len(s)
           g == Indices(s)
           h == [k \in 0..n |-> IF k = 0 THEN 0 ELSE g[k]]
<1>1. n \in Nat /\ n >= 1 /\ g[1] = 1 /\ Len(parts) = n /\ parts # <<>>
  BY IndicesUnfold
<1> HIDE DEF n, g
<1>2. h[0] = 0 /\ \A k \in 1..n : h[k] = g[k]
  BY <1>1
<1> HIDE DEF h
<1>3. ASSUME NEW k \in 1..n PROVE Leads(parts[k], h[k - 1], h[k], From(C))
  <2>1. CASE k = 1
    <3>1. h[k - 1] = 0 /\ h[k] = 1 /\ parts[k] = <<s[1]>>
      BY <1>1, <1>2, <2>1
    <3>2. <<0, 1>> \in From(C) /\ 0 \in Nat
      BY DEF From
    <3>3. Leads(<<s[1]>>, 0, 1, From(C))
      BY <3>2, LeadsOne
    <3> QED BY <3>1, <3>3
  <2>2. CASE k # 1
    <3>1. k \in 2..n /\ k - 1 \in 1..n
      BY <1>1, <2>2
    <3>2. h[k - 1] = g[k - 1] /\ h[k] = g[k]
      BY <1>2, <3>1
    <3>3. Leads(parts[k], g[k - 1], g[k], C)
      BY <3>1 DEF n, g
    <3>4. C \subseteq From(C)
      BY DEF From
    <3> QED BY <3>2, <3>3, <3>4, LeadsWiden
  <2> QED BY <2>1, <2>2
<1>4. Leads(FlattenSeq(parts), h[0], h[Len(parts)], From(C))
  BY <1>1, <1>3, LeadsFlatten
<1>5. n \in 1..n
  BY <1>1
<1>6. FlattenSeq(parts) \in Seq(Point)
  BY <1>1, FlattenKeeps
<1> QED BY <1>1, <1>2, <1>4, <1>5, <1>6 DEF n, g

\* What is critical of a chord lies between its ends.
LEMMA CriticalBetween ==
  ASSUME NEW a, NEW b
  PROVE  Critical(a, b) \subseteq (a + 1)..(b - 1)
BY DEF Critical

\* The pieces of Protected.
Pieces(s) ==
  [k \in 1..Len(s) |->
     IF k = 1 THEN <<s[1]>>
     ELSE Append(Picked(reversed, Critical(Indices(s)[k - 1], Indices(s)[k])), s[k])]

\* Each piece leads from its point to the next.
LEMMA ProtectedPieces ==
  ASSUME HistoryShape, NEW s \in Seq(Point), s # <<>>, AllFound(s)
  PROVE  /\ Pieces(s) \in Seq(Seq(Point)) /\ Len(Pieces(s)) = Len(s) /\ Pieces(s)[1] = <<s[1]>>
         /\ \A k \in 2..Len(s) :
              /\ Pieces(s)[k] = Append(Picked(reversed, Critical(Indices(s)[k - 1], Indices(s)[k])), s[k])
              /\ Picked(reversed, Critical(Indices(s)[k - 1], Indices(s)[k])) \in Seq(Point)
              /\ Leads(Pieces(s)[k], Indices(s)[k - 1], Indices(s)[k], Pairs)
<1> DEFINE n == Len(s)
           g == Indices(s)
           I(k) == Critical(g[k - 1], g[k])
<1>1. n \in Nat /\ n >= 1 /\ \A k \in 1..n : s[k] \in Point
  OBVIOUS
<1>2. \A k \in 1..n : Pieces(s)[k] = IF k = 1 THEN <<s[1]>> ELSE Append(Picked(reversed, I(k)), s[k])
  BY DEF Pieces
<1>3. ASSUME NEW k \in 2..n
      PROVE  /\ Picked(reversed, I(k)) \in Seq(Point)
             /\ Leads(Append(Picked(reversed, I(k)), s[k]), g[k - 1], g[k], Pairs)
  <2> DEFINE a == g[k - 1]
             b == g[k]
             J == Critical(a, b)
  <2>1. a \in Samples /\ b \in Samples /\ a \in Nat /\ b \in Nat /\ a < b
    BY IndicesRise
  <2>2. \A x \in Nat : a <= x /\ x < b => Found(x, s[k], b)
    BY FoundBetween
  <2>3. J \subseteq (a + 1)..(b - 1)
    BY CriticalBetween
  <2>0. s[k] \in Point
    BY <1>1
  <2> HIDE DEF a, b, J
  <2>4. J \subseteq Samples /\ \A i \in J : a < i /\ i < b /\ i \in Nat
    BY <2>1, <2>3, HistoryPlaces
  <2> DEFINE w == Picked(reversed, J)
  <2>5. w \in Seq(Point) /\ \E x \in {a} \union J : Leads(w, a, x, Neighbours(a, J))
    BY <2>1, <2>4, PickedLeads
  <2> HIDE DEF w
  <2>6. PICK x \in {a} \union J : Leads(w, a, x, Neighbours(a, J))
    BY <2>5
  <2>7. x \in Nat /\ a <= x /\ x < b /\ <<x, b>> \in Pairs
    BY <2>1, <2>4 DEF Pairs
  <2>8. Neighbours(a, J) \subseteq Pairs
    BY <2>1, <2>4 DEF Neighbours, Pairs
  <2>9. Leads(w, a, x, Pairs)
    BY <2>6, <2>8, LeadsWiden
  <2>10. Found(x, s[k], b)
    BY <2>2, <2>7
  <2>11. Leads(Append(w, s[k]), a, b, Pairs)
    BY <2>0, <2>5, <2>7, <2>9, <2>10, LeadsAppend
  <2> QED BY <2>5, <2>11 DEF w, J, a, b
<1> HIDE DEF n, g, I
<1>4. ASSUME NEW k \in 1..n PROVE Pieces(s)[k] \in Seq(Point)
  <2>1. CASE k = 1
    <3>1. Pieces(s)[k] = <<s[1]>> /\ s[1] \in Point
      BY <1>1, <1>2, <2>1
    <3> QED BY <3>1
  <2>2. CASE k # 1
    <3> DEFINE w == Picked(reversed, I(k))
    <3>1. k \in 2..n
      BY <1>1, <2>2
    <3>2. w \in Seq(Point) /\ s[k] \in Point
      BY <3>1, <1>1, <1>3
    <3>3. Pieces(s)[k] = Append(w, s[k])
      BY <1>2, <2>2
    <3> HIDE DEF w
    <3> QED BY <3>2, <3>3
  <2> QED BY <2>1, <2>2
<1>5. Pieces(s) \in Seq(Seq(Point)) /\ Len(Pieces(s)) = n
  <2> DEFINE f == Pieces(s)
  <2>1. f = [k \in 1..n |-> f[k]]
    BY DEF Pieces, n
  <2> HIDE DEF f
  <2>2. \A k \in 1..n : f[k] \in Seq(Point)
    BY <1>4 DEF f
  <2>3. f \in [1..n -> Seq(Point)]
    BY <2>1, <2>2
  <2>4. f \in Seq(Seq(Point)) /\ Len(f) = n
    BY <2>3, <1>1
  <2> QED BY <2>4 DEF f
<1>6. Pieces(s)[1] = <<s[1]>>
  BY <1>1, <1>2
<1>7. ASSUME NEW k \in 2..n
      PROVE  /\ Pieces(s)[k] = Append(Picked(reversed, I(k)), s[k])
             /\ Picked(reversed, I(k)) \in Seq(Point)
             /\ Leads(Pieces(s)[k], g[k - 1], g[k], Pairs)
  <2>1. k \in 1..n /\ k # 1
    BY <1>1
  <2>2. Pieces(s)[k] = Append(Picked(reversed, I(k)), s[k])
    BY <1>2, <2>1
  <2> QED BY <2>2, <1>3
<1> QED BY <1>5, <1>6, <1>7 DEF n, g, I

\* So the path with its vertical history protected leads along it.
LEMMA ProtectedLeads ==
  ASSUME HistoryShape, points \in Seq(Point), points # <<>>, AllFound(points), Found(0, points[1], 1)
  PROVE  /\ Protected = FlattenSeq(Pieces(points))
         /\ Protected \in Seq(Point)
         /\ Leads(Protected, 0, Indices(points)[Len(points)], From(Pairs))
<1>1. Protected = FlattenSeq(Pieces(points))
  BY Zenon DEF Protected, Pieces
<1> DEFINE parts == Pieces(points)
<1>2. /\ parts \in Seq(Seq(Point)) /\ Len(parts) = Len(points) /\ parts[1] = <<points[1]>>
      /\ \A k \in 2..Len(points) : Leads(parts[k], Indices(points)[k - 1], Indices(points)[k], Pairs)
  BY ProtectedPieces
<1> HIDE DEF parts
<1>3. /\ FlattenSeq(parts) \in Seq(Point)
      /\ Leads(FlattenSeq(parts), 0, Indices(points)[Len(points)], From(Pairs))
  BY <1>2, PiecesLead
<1> QED BY <1>1, <1>3 DEF parts

\* Numbers over a finite range are bounded.
LEMMA RangeBounded ==
  ASSUME NEW a \in Nat, NEW b \in Nat, NEW f, \A i \in a..b : f[i] \in Nat
  PROVE  \E m \in Nat : \A i \in a..b : f[i] <= m
<1> DEFINE T == {k \in Nat : k \in a..b => \E m \in Nat : \A i \in a..k : f[i] <= m}
<1>1. CASE a <= b
  <2>1. a \in T
    OBVIOUS
  <2>2. ASSUME NEW k \in (a + 1)..b, k - 1 \in T PROVE k \in T
    <3>1. PICK m \in Nat : \A i \in a..(k - 1) : f[i] <= m
      BY <2>2
    <3>2. f[k] \in Nat /\ k \in Nat
      OBVIOUS
    <3>3. \A i \in a..k : i \in a..(k - 1) \/ i = k
      OBVIOUS
    <3>4. \A i \in a..(k - 1) : f[i] \in Nat
      OBVIOUS
    <3> DEFINE w == m + f[k]
    <3>5. w \in Nat /\ w >= f[k] /\ w >= m
      BY <3>2
    <3>6. \A i \in a..k : f[i] <= w
      <4> HIDE DEF w
      <4> QED BY <3>1, <3>3, <3>4, <3>5
    <3> QED BY <3>2, <3>5, <3>6
  <2> HIDE DEF T
  <2>3. a..b \subseteq T
    <3>1. \A k \in (a + 1)..b : k - 1 \in T => k \in T
      BY <2>2
    <3> QED BY <2>1, <3>1, RangeInduction, Zenon
  <2>4. b \in T
    BY <1>1, <2>3
  <2> QED BY <1>1, <2>4 DEF T
<1>2. CASE a > b
  BY <1>2
<1> QED BY <1>1, <1>2

\* Max is the greatest element of a bounded set.
LEMMA MaxFacts ==
  ASSUME NEW T, T \subseteq Nat, T # {}, NEW m \in Nat, \A t \in T : t <= m
  PROVE  Max(T) \in T /\ \A y \in T : y <= Max(T)
<1> DEFINE U == {m - t : t \in T}
<1>1. U \subseteq Nat /\ U # {}
  <2>1. ASSUME NEW t \in T PROVE m - t \in Nat
    <3>1. t \in Nat /\ t <= m
      OBVIOUS
    <3> QED BY <3>1
  <2> QED BY <2>1
<1>2. PICK u \in U : \A y \in U : u <= y
  <2> HIDE DEF U
  <2> QED BY <1>1, LeastElement
<1>3. PICK x \in T : u = m - x
  <2>1. u \in U
    BY <1>2
  <2> QED BY <2>1
<1>4. \A y \in T : x >= y
  BY <1>2, <1>3
<1>5. Max(T) = CHOOSE x2 \in T : \A y \in T : x2 >= y
  BY Zenon DEF Max
<1>6. Max(T) \in T /\ \A y \in T : Max(T) >= y
  BY <1>4, <1>5, Zenon
<1> HIDE DEF U
<1> DEFINE z == Max(T)
<1>7. z \in T /\ \A y \in T : z >= y
  BY <1>6
<1> HIDE DEF z
<1>8. z \in T /\ \A y \in T : y <= z
  BY <1>7
<1> QED BY <1>8 DEF z

\* Heights are natural numbers.
LEMMA HeightFacts ==
  ASSUME HistoryShape
  PROVE  \A i \in Samples : Height(i) \in Nat
<1> SUFFICES ASSUME NEW i \in Samples PROVE Height(i) \in Nat
  OBVIOUS
<1>1. H(i) \in Place
  BY HistoryPlaces
<1> QED BY <1>1 DEF Place, Height

\* Lowest and Highest are heights on the way, and bound the others.
LEMMA HeightRange ==
  ASSUME HistoryShape, NEW a \in Samples, NEW b \in Samples, a <= b
  PROVE  /\ Highest(a, b) \in Nat /\ Lowest(a, b) \in Nat
         /\ Highest(a, b) \in {Height(i) : i \in a..b} /\ Lowest(a, b) \in {Height(i) : i \in a..b}
         /\ \A i \in a..b : Lowest(a, b) <= Height(i) /\ Height(i) <= Highest(a, b)
<1> DEFINE T == {Height(i) : i \in a..b}
           f == [i \in a..b |-> Height(i)]
<1>1. a \in Nat /\ b \in Nat /\ a \in a..b /\ a..b \subseteq Samples
  BY HistoryPlaces
<1>2. T \subseteq Nat /\ T # {}
  BY <1>1, HeightFacts
<1>3. \A i \in a..b : f[i] \in Nat
  BY <1>1, HeightFacts
<1>4. PICK m \in Nat : \A i \in a..b : f[i] <= m
  <2> HIDE DEF f
  <2> QED BY <1>1, <1>3, RangeBounded
<1>5. \A t \in T : t <= m
  BY <1>4
<1>6. Highest(a, b) = Max(T) /\ Lowest(a, b) = Min(T)
  BY Zenon DEF Highest, Lowest
<1>7. \A i \in a..b : Height(i) \in T
  OBVIOUS
<1>8. Max(T) \in T /\ Min(T) \in T /\ \A y \in T : y <= Max(T) /\ Min(T) <= y
  <2> HIDE DEF T
  <2> QED BY <1>2, <1>5, MaxFacts, MinFacts
<1> DEFINE X == Max(T)
           Y == Min(T)
<1>9. X \in Nat /\ Y \in Nat /\ X \in T /\ Y \in T /\ \A i \in a..b : Y <= Height(i) /\ Height(i) <= X
  <2> HIDE DEF T
  <2> QED BY <1>2, <1>7, <1>8
<1> HIDE DEF X, Y
<1>10. Highest(a, b) = X /\ Lowest(a, b) = Y
  BY <1>6 DEF X, Y
<1> QED BY <1>9, <1>10

\* Extrema holds a lowest and a highest sample.
LEMMA ExtremaFacts ==
  ASSUME HistoryShape, NEW a \in Samples, NEW b \in Samples, a <= b,
         NEW z \in {Lowest(a, b), Highest(a, b)}
  PROVE  \E e \in Extrema(a, b) : e \in a..b /\ Height(e) = z
<1> DEFINE E == {i \in a..b : Height(i) = z}
           e == CHOOSE i \in a..b : Height(i) = z /\ \A j \in a..(i - 1) : Height(j) # z
<1>1. a \in Nat /\ b \in Nat
  BY HistoryPlaces
<1>2. z \in {Height(i) : i \in a..b}
  BY HeightRange
<1>3. E # {} /\ E \subseteq Nat
  BY <1>1, <1>2
<1>4. PICK i \in E : \A j \in E : i <= j
  <2> HIDE DEF E
  <2> QED BY <1>3, LeastElement
<1>5. i \in a..b /\ Height(i) = z /\ \A j \in a..(i - 1) : Height(j) # z
  <2>1. i \in a..b /\ Height(i) = z /\ \A j \in a..b : Height(j) = z => i <= j
    BY <1>4
  <2>2. \A j \in a..(i - 1) : j \in a..b /\ ~(i <= j)
    BY <1>1, <2>1
  <2> QED BY <2>1, <2>2
<1>6. e \in a..b /\ Height(e) = z
  <2> HIDE DEF E
  <2> QED BY <1>5, Zenon
<1>7. e \in Extrema(a, b)
  BY Zenon DEF Extrema
<1> QED BY <1>6, <1>7

\* For each height of the history, points of s about as high, and about as low.
Covers(s) ==
  \A i \in Samples :
    /\ \E k \in 1..Len(s) : s[k].p[3] >= Height(i) - VerticalThreshold
    /\ \E k \in 1..Len(s) : s[k].p[3] <= Height(i) + VerticalThreshold

\* A point of t is at p.
Visits(t, p) == \E m \in 1..Len(t) : t[m].p = p

\* Every position of s is one of t.
Preserves(s, t) == \A k \in 1..Len(s) : Visits(t, s[k].p)

\* Heights stay covered as long as no position is lost.
LEMMA CoversKept ==
  ASSUME NEW s, NEW t, Covers(s), Preserves(s, t)
  PROVE  Covers(t)
BY Zenon DEF Covers, Preserves, Visits

\* The last of s is found at the end of the history, or in its twin.
EndsAtHome(s) ==
  /\ H(Indices(s)[Len(s)]) = H(Len(reversed))
  /\ Indices(s)[Len(s)] \in {Len(reversed) - 1, Len(reversed)}

\* A sample between two points of s, or the sample of one.
LEMMA BetweenPoints ==
  ASSUME HistoryShape, NEW s \in Seq(Point), s # <<>>, AllFound(s), EndsAtHome(s), NEW i \in Samples
  PROVE  \/ \E k \in 2..Len(s) : Indices(s)[k - 1] <= i /\ i <= Indices(s)[k]
         \/ \E k \in 1..Len(s) : H(i) = s[k].p
<1> DEFINE n == Len(s)
           g == Indices(s)
           N == Len(reversed)
           T == {k \in 1..n : i <= g[k]}
<1>1. n \in Nat /\ n >= 1 /\ n \in 1..n /\ N \in Nat /\ i \in 1..N /\ i \in Nat /\ g[1] = 1 /\ 1 \in 1..n
  BY IndicesUnfold, HistoryPlaces
<1>2. \A k \in 1..n : g[k] \in Samples /\ H(g[k]) = s[k].p
  BY DEF AllFound
<1>3. H(g[n]) = H(N) /\ g[n] \in {N - 1, N}
  BY DEF EndsAtHome
<1>4. \A k \in 1..n : g[k] \in Nat
  BY <1>2, HistoryPlaces
<1> HIDE DEF n, g, N
<1>5. CASE T = {}
  <2>1. ~(i <= g[n])
    BY <1>1, <1>5
  <2>2. i = N
    BY <1>1, <1>3, <2>1
  <2>3. H(i) = s[n].p
    BY <1>1, <1>2, <1>3, <2>2
  <2> QED BY <1>1, <2>3 DEF n
<1>6. CASE T # {}
  <2>1. PICK k \in T : \A y \in T : k <= y
    <3>1. T \subseteq Nat
      BY <1>1
    <3> HIDE DEF T
    <3> QED BY <1>6, <3>1, LeastElement
  <2>2. k \in 1..n /\ i <= g[k]
    BY <2>1
  <2>3. CASE k = 1
    <3>1. i = 1 /\ g[1] = i
      BY <1>1, <2>2, <2>3
    <3>2. H(i) = s[1].p
      BY <1>1, <1>2, <3>1
    <3> QED BY <1>1, <3>2 DEF n
  <2>4. CASE k # 1
    <3>1. k - 1 \in 1..n /\ k \in 2..n
      BY <1>1, <2>2, <2>4
    <3>2. k - 1 \notin T
      BY <2>1, <3>1
    <3>3. g[k - 1] <= i
      BY <1>1, <1>4, <3>1, <3>2
    <3> QED BY <2>2, <3>1, <3>3 DEF n, g
  <2> QED BY <2>3, <2>4
<1> QED BY <1>5, <1>6

\* A path is about as high and about as low as sample i.
LevelWith(t, i) ==
  /\ \E m \in 1..Len(t) : t[m].p[3] >= Height(i) - VerticalThreshold
  /\ \E m \in 1..Len(t) : t[m].p[3] <= Height(i) + VerticalThreshold

\* Between two heights, the higher is no lower and the lower no higher.
LEMMA NearHeight ==
  ASSUME NEW low \in Nat, NEW h \in Nat, NEW high \in Nat, NEW v \in Nat, low <= h, h <= high
  PROVE  high >= h - v /\ low <= h + v
OBVIOUS

\* Heights within a span of v differ by v at most.
LEMMA NearSpan ==
  ASSUME NEW low \in Nat, NEW h \in Nat, NEW k \in Nat, NEW high \in Nat, NEW v \in Nat,
         low <= h, h <= high, low <= k, k <= high, high - low <= v
  PROVE  k >= h - v /\ k <= h + v
OBVIOUS

\* The heights between two points are about those of the piece between them.
LEMMA PieceCovers ==
  ASSUME HistoryShape, LengthAssumption, NEW a \in Samples, NEW b \in Samples, a < b,
         NEW i \in a..b, NEW t, Preserves(Picked(reversed, Critical(a, b)), t), Visits(t, H(a)), Visits(t, H(b))
  PROVE  LevelWith(t, i)
<1> DEFINE w == Picked(reversed, Critical(a, b))
<1>1. a \in Nat /\ b \in Nat
  BY HistoryPlaces
<1>2. w = Picked(reversed, Critical(a, b)) /\ Preserves(w, t)
  OBVIOUS
<1> HIDE DEF w
<1>3. a..b \subseteq Samples /\ i \in Samples
  BY <1>1, HistoryPlaces
<1>4. Height(i) \in Nat /\ Height(a) \in Nat /\ Height(b) \in Nat
  BY <1>3, HeightFacts
<1>5. VerticalThreshold \in Nat
  BY DEF LengthAssumption
<1>6. /\ Highest(a, b) \in Nat /\ Lowest(a, b) \in Nat
      /\ \A j \in a..b : Lowest(a, b) <= Height(j) /\ Height(j) <= Highest(a, b)
  BY <1>1, HeightRange
<1>7. PICK ma \in 1..Len(t) : t[ma].p[3] = Height(a)
  BY Zenon DEF Height, Visits
<1>8. PICK mb \in 1..Len(t) : t[mb].p[3] = Height(b)
  BY Zenon DEF Height, Visits
<1>9. CASE Span(a, b) > VerticalThreshold
  <2>1. ASSUME NEW z \in {Lowest(a, b), Highest(a, b)} PROVE \E m \in 1..Len(t) : t[m].p[3] = z
    <3>1. PICK e \in Extrema(a, b) : e \in a..b /\ Height(e) = z
      <4>1. a <= b
        BY <1>1
      <4> QED BY <4>1, ExtremaFacts, Zenon
    <3>2. CASE e \in (a + 1)..(b - 1)
      <4>1. e \in Critical(a, b)
        BY <1>9, <3>1, <3>2 DEF Critical
      <4>2. e \in 1..Len(reversed) /\ reversed \in Seq(Point)
        <5>1. e \in Samples
          BY <1>3, <3>1
        <5> QED BY <5>1 DEF HistoryShape, Samples
      <4>3. PICK j \in 1..Len(w) : w[j] = reversed[e]
        BY <1>2, <4>1, <4>2, PickedKeeps
      <4>4. Visits(t, w[j].p)
        BY <1>2 DEF Preserves
      <4>5. PICK m \in 1..Len(t) : t[m].p = w[j].p
        BY <4>4 DEF Visits
      <4>6. t[m].p[3] = z
        BY <3>1, <4>3, <4>5 DEF Height, H
      <4> QED BY <4>6
    <3>3. CASE e = a
      BY <1>7, <3>1, <3>3
    <3>4. CASE e = b
      BY <1>8, <3>1, <3>4
    <3>5. e = a \/ e = b \/ e \in (a + 1)..(b - 1)
      BY <1>1, <3>1
    <3> QED BY <3>2, <3>3, <3>4, <3>5
  <2>2. PICK x \in 1..Len(t) : t[x].p[3] = Highest(a, b)
    BY <2>1
  <2>3. PICK y \in 1..Len(t) : t[y].p[3] = Lowest(a, b)
    BY <2>1
  <2>4. Lowest(a, b) <= Height(i) /\ Height(i) <= Highest(a, b)
    BY <1>6
  <2>5. t[x].p[3] >= Height(i) - VerticalThreshold /\ t[y].p[3] <= Height(i) + VerticalThreshold
    <3>1. Highest(a, b) >= Height(i) - VerticalThreshold /\ Lowest(a, b) <= Height(i) + VerticalThreshold
      BY <1>4, <1>5, <1>6, <2>4, NearHeight, Zenon
    <3> QED BY <2>2, <2>3, <3>1, Zenon
  <2> QED BY <2>5 DEF LevelWith
<1>10. CASE ~(Span(a, b) > VerticalThreshold)
  <2>2. b \in a..b
    BY <1>1
  <2>3. /\ Lowest(a, b) <= Height(i) /\ Height(i) <= Highest(a, b)
        /\ Lowest(a, b) <= Height(b) /\ Height(b) <= Highest(a, b)
    BY <1>6, <2>2
  <2>4. Highest(a, b) - Lowest(a, b) <= VerticalThreshold
    BY <1>5, <1>6, <1>10, SMTT(20) DEF Span
  <2>5. t[mb].p[3] >= Height(i) - VerticalThreshold /\ t[mb].p[3] <= Height(i) + VerticalThreshold
    <3>1. Height(b) >= Height(i) - VerticalThreshold /\ Height(b) <= Height(i) + VerticalThreshold
      BY <1>4, <1>5, <1>6, <2>3, <2>4, NearSpan, Zenon
    <3> QED BY <1>8, <3>1, Zenon
  <2> QED BY <2>5 DEF LevelWith
<1> QED BY <1>9, <1>10

\* A path put together of such pieces covers every height of the flight.
LEMMA PiecesCover ==
  ASSUME HistoryShape, LengthAssumption, NEW s \in Seq(Point), s # <<>>,
         AllFound(s), EndsAtHome(s)
  PROVE  Covers(FlattenSeq(Pieces(s)))
<1> DEFINE n == Len(s)
           a(k) == Indices(s)[k - 1]
           b(k) == Indices(s)[k]
           W(k) == Picked(reversed, Critical(a(k), b(k)))
<1>1. n \in Nat /\ n >= 1 /\ \A k \in 1..n : s[k] \in Point
  OBVIOUS
<1>2. /\ Pieces(s) \in Seq(Seq(Point)) /\ Len(Pieces(s)) = n /\ Pieces(s)[1] = <<s[1]>>
      /\ \A k \in 2..n : Pieces(s)[k] = Append(W(k), s[k]) /\ W(k) \in Seq(Point)
  BY ProtectedPieces
<1>3. /\ \A k \in 2..n : a(k) \in Samples /\ b(k) \in Samples /\ a(k) < b(k) /\ a(k) \in Nat /\ b(k) \in Nat
      /\ \A k \in 2..n : H(a(k)) = s[k - 1].p /\ H(b(k)) = s[k].p
  <2>1. \A k \in 2..n : k \in 1..n /\ k - 1 \in 1..n
    BY <1>1
  <2> QED BY <2>1, IndicesRise DEF AllFound
<1>4. ASSUME NEW i \in Samples
      PROVE  \/ \E k \in 2..n : a(k) <= i /\ i <= b(k)
             \/ \E k \in 1..n : H(i) = s[k].p
  BY BetweenPoints
<1> DEFINE parts == Pieces(s)
<1>5. /\ parts \in Seq(Seq(Point)) /\ Len(parts) = n /\ parts[1] = <<s[1]>> /\ parts # <<>>
      /\ \A k \in 2..n : parts[k] = Append(W(k), s[k]) /\ W(k) \in Seq(Point)
  BY <1>1, <1>2
<1> HIDE DEF parts, n, W, a, b
<1>6. HasAll(FlattenSeq(parts), parts)
  BY <1>5, FlattenKeeps
<1> DEFINE t == FlattenSeq(parts)
<1>0. \A k \in 1..Len(parts) : \A j \in 1..Len(parts[k]) : \E m \in 1..Len(t) : t[m] = parts[k][j]
  BY <1>6, Zenon DEF HasAll
<1> HIDE DEF t
<1>7. \A k \in 1..n : \A j \in 1..Len(parts[k]) : Visits(t, parts[k][j].p)
  BY <1>5, <1>0, Zenon DEF Visits
<1>8. ASSUME NEW k \in 2..n PROVE Visits(t, s[k].p) /\ Preserves(W(k), t)
  <2> DEFINE w == W(k)
  <2>1. parts[k] = Append(w, s[k]) /\ w \in Seq(Point) /\ k \in 1..n
    BY <1>1, <1>5, SMTT(20)
  <2> HIDE DEF w
  <2>2. s[k] \in Point
    BY <1>1, <2>1
  <2>3. Len(w) + 1 \in 1..Len(parts[k]) /\ parts[k][Len(w) + 1] = s[k]
    BY <2>1, <2>2, SMTT(20)
  <2>4. \A j \in 1..Len(w) : j \in 1..Len(parts[k]) /\ parts[k][j] = w[j]
    BY <2>1, <2>2
  <2>5. Visits(t, s[k].p)
    BY <1>7, <2>1, <2>3
  <2>6. Preserves(w, t)
    BY <1>7, <2>1, <2>4 DEF Preserves
  <2> QED BY <2>5, <2>6 DEF w
<1>9. Visits(t, s[1].p)
  <2>1. 1 \in 1..n /\ parts[1] = <<s[1]>>
    BY <1>1, <1>5
  <2>2. 1 \in 1..Len(parts[1]) /\ parts[1][1] = s[1]
    BY <2>1
  <2> QED BY <1>7, <2>1, <2>2
<1>10. \A k \in 1..n : Visits(t, s[k].p)
  <2> SUFFICES ASSUME NEW k \in 1..n PROVE Visits(t, s[k].p)
    OBVIOUS
  <2>1. k = 1 \/ k \in 2..n
    BY <1>1
  <2> QED BY <2>1, <1>8, <1>9
<1>11. ASSUME NEW i \in Samples PROVE LevelWith(t, i)
  <2>1. CASE \E k \in 2..n : a(k) <= i /\ i <= b(k)
    <3>1. PICK k \in 2..n : a(k) <= i /\ i <= b(k)
      BY <2>1
    <3>2. k \in 1..n /\ k - 1 \in 1..n
      BY <1>1
    <3> DEFINE x == a(k)
               y == b(k)
    <3>3. x \in Samples /\ y \in Samples /\ x < y /\ x \in Nat /\ y \in Nat /\ i \in Nat /\ x <= i /\ i <= y
      BY <1>3, <3>1, HistoryPlaces
    <3>4. Visits(t, H(x)) /\ Visits(t, H(y))
      BY <1>3, <1>10, <3>2
    <3>5. Preserves(Picked(reversed, Critical(x, y)), t)
      BY <1>8 DEF W
    <3> HIDE DEF x, y
    <3>6. i \in x..y
      BY <3>3
    <3> QED BY <3>3, <3>4, <3>5, <3>6, PieceCovers
  <2>2. CASE \E k \in 1..n : H(i) = s[k].p
    <3>1. PICK k \in 1..n : H(i) = s[k].p
      BY <2>2
    <3>2. Visits(t, H(i))
      BY <1>10, <3>1
    <3>3. PICK m \in 1..Len(t) : t[m].p = H(i)
      BY <3>2 DEF Visits
    <3>4. t[m].p[3] = Height(i) /\ Height(i) \in Nat /\ VerticalThreshold \in Nat
      BY <3>3, HeightFacts DEF Height, LengthAssumption
    <3>5. t[m].p[3] >= Height(i) - VerticalThreshold /\ t[m].p[3] <= Height(i) + VerticalThreshold
      BY <3>4, SMTT(20)
    <3> QED BY <3>5 DEF LevelWith
  <2> QED BY <2>1, <2>2, <1>4
<1>12. Covers(t)
  BY <1>11 DEF Covers, LevelWith
<1> QED BY <1>12 DEF t, parts

-----------------------------------------------------------------------------
(* enforceMaxSegmentLength.                                                *)

\* To be near enough is symmetric.
LEMMA ReachesSymmetric ==
  ASSUME HistoryShape, NEW i \in Samples, NEW j \in Samples
  PROVE  Reaches(i, H(j)) <=> Reaches(j, H(i))
<1>1. H(i) \in Place /\ H(j) \in Place
  BY HistoryPlaces
<1>2. Dist(H(i), H(j)) = Dist(H(j), H(i))
  BY <1>1, DotType
<1> QED BY <1>2 DEF Reaches

\* FarthestReached moves on, not past b, and too far only to the next sample.
LEMMA FarthestReachedFacts ==
  ASSUME HistoryShape, NEW i \in Samples, NEW b \in Samples, i < b
  PROVE  /\ FarthestReached(i, b) \in (i + 1)..b
         /\ FarthestReached(i, b) = b => i + 1 = b
         /\ Reaches(i, H(FarthestReached(i, b))) \/ FarthestReached(i, b) = i + 1
<1> DEFINE near == {h \in (i + 1)..(b - 1) : Reaches(i, H(h))}
           k == FarthestReached(i, b)
<1>1. i \in Nat /\ b \in Nat
  BY HistoryPlaces
<1>2. k = IF near = {} THEN i + 1 ELSE Max(near)
  BY Zenon DEF FarthestReached
<1>3. near \subseteq Nat /\ \A h \in near : h <= b
  BY <1>1
<1>4. CASE near = {}
  <2>1. k = i + 1
    BY <1>2, <1>4
  <2> HIDE DEF k
  <2>2. k \in (i + 1)..b
    BY <1>1, <2>1
  <2> QED BY <2>1, <2>2 DEF k
<1>5. CASE near # {}
  <2>1. k = Max(near)
    BY <1>2, <1>5
  <2>2. k \in near
    <3> HIDE DEF near, k
    <3> QED BY <1>1, <1>3, <1>5, <2>1, MaxFacts
  <2>3. k \in (i + 1)..(b - 1) /\ Reaches(i, H(k))
    BY <2>2
  <2> HIDE DEF k
  <2>4. k \in (i + 1)..b /\ k # b
    BY <1>1, <2>3
  <2> QED BY <2>3, <2>4 DEF k
<1> QED BY <1>4, <1>5

\* What f fills in on the way from i to b, the first of it looked for here.
FillStep(f, i, b) ==
  IF i = b \/ Reaches(i, H(b)) THEN <<>>
  ELSE <<reversed[FarthestReached(i, b)]>> \o f[FarthestReached(i, b)]

\* There is a function that fills in step by step.
LEMMA FilledDefined ==
  ASSUME HistoryShape, NEW a \in Samples, NEW b \in Samples, a <= b
  PROVE  \E f \in [a..b -> Seq(Point)] : f = [i \in a..b |-> FillStep(f, i, b)]
<1> DEFINE S == [a..b -> Seq(Point)]
           Upto(f, m) == \A i \in a..b : b <= i + m => f[i] = FillStep(f, i, b)
           T == {m \in Nat : \E f \in S : Upto(f, m)}
<1>1. a \in Nat /\ b \in Nat /\ a..b \subseteq Samples
  BY HistoryPlaces
<1>2. ASSUME NEW f \in S, NEW i \in a..b
      PROVE  FillStep(f, i, b) \in Seq(Point)
  <2> DEFINE k == FarthestReached(i, b)
  <2>1. CASE i = b \/ Reaches(i, H(b))
    BY <2>1 DEF FillStep
  <2>2. CASE ~(i = b \/ Reaches(i, H(b)))
    <3>1. i \in Samples /\ i < b /\ i \in Nat
      BY <1>1, <2>2
    <3>2. k \in (i + 1)..b
      BY <3>1, FarthestReachedFacts
    <3>3. FillStep(f, i, b) = <<reversed[k]>> \o f[k]
      BY <2>2 DEF FillStep
    <3> HIDE DEF k
    <3>4. k \in a..b
      BY <1>1, <3>1, <3>2
    <3>5. reversed[k] \in Point /\ f[k] \in Seq(Point)
      BY <1>1, <3>4, HistoryPlaces
    <3> QED BY <3>3, <3>5
  <2> QED BY <2>1, <2>2
<1>3. 0 \in T
  <2> DEFINE f == [i \in a..b |-> <<>>]
  <2>1. f \in S /\ \A i \in a..b : f[i] = <<>>
    OBVIOUS
  <2> HIDE DEF f
  <2>2. ASSUME NEW i \in a..b, b <= i + 0 PROVE f[i] = FillStep(f, i, b)
    <3>1. i = b
      BY <1>1, <2>2
    <3> QED BY <2>1, <3>1 DEF FillStep
  <2> QED BY <2>1, <2>2
<1>4. ASSUME NEW m \in Nat, m \in T PROVE m + 1 \in T
  <2>1. PICK f \in S : Upto(f, m)
    BY <1>4
  <2> DEFINE g == [i \in a..b |-> IF b = i + (m + 1) THEN FillStep(f, i, b) ELSE f[i]]
  <2>2. g \in S /\ \A i \in a..b : g[i] = IF b = i + (m + 1) THEN FillStep(f, i, b) ELSE f[i]
    BY <1>2
  <2> HIDE DEF g
  <2>3. ASSUME NEW i \in a..b, b <= i + (m + 1) PROVE g[i] = FillStep(g, i, b)
    <3>1. FillStep(g, i, b) = FillStep(f, i, b)
      <4> DEFINE k == FarthestReached(i, b)
      <4>1. CASE i = b \/ Reaches(i, H(b))
        BY <4>1 DEF FillStep
      <4>2. CASE ~(i = b \/ Reaches(i, H(b)))
        <5>1. i \in Samples /\ i < b /\ i \in Nat
          BY <1>1, <4>2
        <5>2. k \in (i + 1)..b
          BY <5>1, FarthestReachedFacts
        <5>3. FillStep(f, i, b) = <<reversed[k]>> \o f[k] /\ FillStep(g, i, b) = <<reversed[k]>> \o g[k]
          BY <4>2 DEF FillStep
        <5> HIDE DEF k
        <5>4. k \in a..b /\ b # k + (m + 1)
          BY <1>1, <2>3, <5>1, <5>2
        <5> QED BY <2>2, <5>3, <5>4
      <4> QED BY <4>1, <4>2
    <3>2. CASE b = i + (m + 1)
      BY <2>2, <3>1, <3>2
    <3>3. CASE b # i + (m + 1)
      <4>1. b <= i + m /\ i \in Nat
        BY <1>1, <2>3, <3>3
      <4>2. f[i] = FillStep(f, i, b)
        BY <2>1, <4>1
      <4>3. g[i] = f[i]
        BY <2>2, <3>3
      <4> QED BY <3>1, <4>2, <4>3
    <3> QED BY <3>2, <3>3
  <2>4. Upto(g, m + 1)
    BY <2>3
  <2> HIDE DEF Upto
  <2> QED BY <2>2, <2>4
<1>5. b \in T
  <2> HIDE DEF T
  <2>1. \A m \in Nat : m \in T => m + 1 \in T
    BY <1>4
  <2>2. Nat \subseteq T
    BY <1>3, <2>1, Induction
  <2> QED BY <1>1, <2>2
<1>6. PICK f \in S : Upto(f, b)
  BY <1>5
<1>7. ASSUME NEW i \in a..b PROVE f[i] = FillStep(f, i, b)
  <2>1. b <= i + b
    BY <1>1
  <2> QED BY <1>6, <2>1
<1>8. f = [i \in a..b |-> FillStep(f, i, b)]
  BY <1>7
<1> QED BY <1>8

\* The typing of what fills in follows from the steps, whatever function makes them.
LEMMA FilledUnfolds ==
  ASSUME HistoryShape, NEW a \in Samples, NEW b \in Samples, a <= b
  PROVE  \E f : /\ \A i \in a..b : f[i] = FillStep(f, i, b)
                /\ Filled(a, b) = f[a]
<1> DEFINE h == CHOOSE h : h = [i \in a..b |-> FillStep(h, i, b)]
           G == [i \in a..b |-> FillStep(h, i, b)]
<1>1. h = G
  <2>1. \E f : f = [i \in a..b |-> FillStep(f, i, b)]
    BY FilledDefined
  <2> QED BY <2>1, Zenon
<1>2. Filled(a, b) = h[a]
  BY Zenon DEF Filled, FillStep
<1> HIDE DEF h
<1>3. \A i \in a..b : G[i] = FillStep(h, i, b)
  OBVIOUS
<1>4. \A i \in a..b : h[i] = FillStep(h, i, b)
  <2> HIDE DEF G
  <2> QED BY <1>1, <1>3
<1> QED BY <1>2, <1>4

\* Chords that are not too long, or do not skip a sample.
BoundChords == {c \in Pairs : c[1] < c[2] /\ (Reaches(c[1], H(c[2])) \/ c[2] = c[1] + 1)}

\* From p on, a point of t is too far from the one before.
FarStep(p, t) ==
  \E j \in 1..Len(t) : Dist(IF j = 1 THEN p ELSE t[j - 1].p, t[j].p) > MaxSegment * MaxSegment

\* A step that is too far is still there after another before it.
LEMMA FarStepMoves ==
  ASSUME NEW p, NEW x \in Point, NEW t \in Seq(Point), FarStep(x.p, t)
  PROVE  FarStep(p, <<x>> \o t)
<1> DEFINE w == <<x>> \o t
           n == Len(t)
<1>1. n \in Nat /\ Len(w) = n + 1 /\ w[1] = x /\ \A j \in 1..n : w[j + 1] = t[j]
  OBVIOUS
<1> HIDE DEF w
<1>2. PICK j \in 1..n : Dist(IF j = 1 THEN x.p ELSE t[j - 1].p, t[j].p) > MaxSegment * MaxSegment
  BY DEF FarStep
<1> HIDE DEF n
<1>3. j + 1 \in 1..(n + 1) /\ j + 1 # 1 /\ (j + 1) - 1 = j /\ w[j + 1] = t[j]
  BY <1>1
<1>4. w[j].p = IF j = 1 THEN x.p ELSE t[j - 1].p
  <2>1. CASE j = 1
    BY <1>1, <2>1
  <2>2. CASE j # 1
    <3>1. j - 1 \in 1..n /\ (j - 1) + 1 = j
      BY <1>1, <2>2
    <3> QED BY <1>1, <2>2, <3>1
  <2> QED BY <2>1, <2>2
<1>5. Dist(w[(j + 1) - 1].p, w[j + 1].p) > MaxSegment * MaxSegment
  BY <1>2, <1>3, <1>4
<1>6. FarStep(p, w)
  BY <1>1, <1>3, <1>5, Zenon DEF FarStep
<1> QED BY <1>6 DEF w

\* On its way a piece leads along chords that are not too long, but for a gap.
FillsWell(t, i, b, s) ==
  /\ t \in Seq(Point)
  /\ \/ \E x \in i..(b - 1) : Reaches(x, H(b)) /\ Leads(t, i, x, BoundChords)
     \/ HistoryGap /\ FarStep(H(i), Append(t, s))

\* What is filled into a chord is such a way.
LEMMA FilledWell ==
  ASSUME HistoryShape, LengthAssumption, NEW a \in Samples, NEW b \in Samples, a < b, NEW s \in Point
  PROVE  FillsWell(Filled(a, b), a, b, s)
<1>1. a \in Nat /\ b \in Nat /\ a..b \subseteq Samples
  BY HistoryPlaces
<1>2. PICK f : /\ \A i \in a..b : f[i] = FillStep(f, i, b)
               /\ Filled(a, b) = f[a]
  BY <1>1, FilledUnfolds
<1> DEFINE P(m) == \A i \in a..(b - 1) : b <= i + m => FillsWell(f[i], i, b, s)
           T == {m \in Nat : P(m)}
<1>3. 0 \in T
  BY <1>1
<1>4. ASSUME NEW m \in Nat, m \in T PROVE m + 1 \in T
  <2> SUFFICES ASSUME NEW i \in a..(b - 1), b <= i + (m + 1) PROVE FillsWell(f[i], i, b, s)
    OBVIOUS
  <2>1. i \in Samples /\ i \in Nat /\ i < b /\ i \in a..b /\ i \in i..(b - 1)
    BY <1>1
  <2>2. f[i] = FillStep(f, i, b)
    BY <1>2, <2>1
  <2>3. CASE Reaches(i, H(b))
    <3>1. f[i] = <<>>
      BY <2>2, <2>3 DEF FillStep
    <3>2. Leads(<<>>, i, i, BoundChords)
      BY <2>1, LeadsNone
    <3> QED BY <2>1, <2>3, <3>1, <3>2 DEF FillsWell
  <2>4. CASE ~Reaches(i, H(b))
    <3> DEFINE k == FarthestReached(i, b)
    <3>1. f[i] = <<reversed[k]>> \o f[k]
      <4>1. i # b
        BY <2>1, <1>1
      <4> QED BY <4>1, <2>2, <2>4, Zenon DEF FillStep
    <3>2. k \in (i + 1)..b /\ (k = b => i + 1 = b) /\ (Reaches(i, H(k)) \/ k = i + 1)
      BY <2>1, FarthestReachedFacts
    <3> HIDE DEF k
    <3>3. k \in Samples /\ k \in Nat /\ i < k /\ k \in a..b /\ reversed[k] \in Point
      <4>1. k \in Nat /\ i < k /\ k \in a..b
        BY <1>1, <2>1, <3>2
      <4>2. k \in Samples
        BY <1>1, <4>1
      <4> QED BY <4>1, <4>2, HistoryPlaces
    <3>4. Found(i, reversed[k], k) /\ <<i, k>> \in BoundChords
      <4>1. /\ H(k) = reversed[k].p
            /\ \/ FindIndex(i, reversed[k]) = k
               \/ k = Len(reversed) /\ FindIndex(i, reversed[k]) = Len(reversed) - 1
        BY <2>1, <3>3, FindIndexExact DEF H
      <4>2. <<i, k>> \in BoundChords
        BY <2>1, <3>2, <3>3 DEF BoundChords, Pairs
      <4> QED BY <3>3, <4>1, <4>2 DEF Found
    <3>5. CASE k = b
      <4>1. i + 1 = b
        BY <3>2, <3>5
      <4>2. HistoryGap
        <5>1. b \in 2..Len(reversed) /\ b - 1 = i
          BY <2>1, <4>1, HistoryPlaces
        <5>2. ~Reaches(b, H(i))
          BY <2>1, <2>4, ReachesSymmetric
        <5> QED BY <5>1, <5>2 DEF HistoryGap
      <4>3. f[k] = <<>>
        BY <1>2, <3>3, <3>5 DEF FillStep
      <4> DEFINE w == Append(f[i], s)
      <4>4. f[i] = <<reversed[k]>> /\ f[i] \in Seq(Point)
        BY <3>1, <3>3, <4>3
      <4>5. w[1] = reversed[b] /\ 1 \in 1..Len(w)
        BY <3>5, <4>4
      <4> HIDE DEF w
      <4>6. Dist(H(i), w[1].p) > MaxSegment * MaxSegment
        <5>1. Dist(H(i), H(b)) \in Nat /\ MaxSegment * MaxSegment \in Nat
          <6>1. H(i) \in Place /\ H(b) \in Place
            BY <2>1, HistoryPlaces
          <6> QED BY <6>1, DotType DEF LengthAssumption
        <5>2. w[1].p = H(b)
          BY <4>5 DEF H
        <5> QED BY <2>4, <5>1, <5>2 DEF Reaches
      <4>7. FarStep(H(i), w)
        BY <4>5, <4>6 DEF FarStep
      <4> QED BY <4>2, <4>4, <4>7 DEF FillsWell, w
    <3>6. CASE k # b
      <4>1. k \in a..(b - 1) /\ b <= k + m
        BY <1>1, <2>1, <3>2, <3>3, <3>6
      <4>2. FillsWell(f[k], k, b, s)
        BY <1>4, <4>1
      <4> DEFINE t == f[k]
                 w == <<reversed[k]>> \o t
      <4>3. t \in Seq(Point)
        BY <4>2 DEF FillsWell
      <4> HIDE DEF t
      <4>4. w \in Seq(Point) /\ <<reversed[k]>> \in Seq(Point)
        BY <3>3, <4>3
      <4>5. f[i] = w
        BY <3>1 DEF t
      <4>6. CASE \E x \in k..(b - 1) : Reaches(x, H(b)) /\ Leads(t, k, x, BoundChords)
        <5>1. PICK x \in k..(b - 1) : Reaches(x, H(b)) /\ Leads(t, k, x, BoundChords)
          BY <4>6
        <5>2. Leads(<<reversed[k]>>, i, k, BoundChords)
          BY <2>1, <3>4, LeadsOne
        <5>3. Leads(w, i, x, BoundChords)
          BY <4>3, <4>4, <5>1, <5>2, LeadsConcat
        <5>4. x \in i..(b - 1)
          BY <1>1, <2>1, <3>3
        <5> HIDE DEF w
        <5> QED BY <4>4, <4>5, <5>1, <5>3, <5>4 DEF FillsWell
      <4>7. CASE HistoryGap /\ FarStep(H(k), Append(t, s))
        <5>1. Append(t, s) \in Seq(Point) /\ Append(w, s) = <<reversed[k]>> \o Append(t, s)
          <6> DEFINE x == reversed[k]
          <6>1. x \in Point /\ t \in Seq(Point) /\ s \in Point
            BY <3>3, <4>3
          <6> HIDE DEF x, w
          <6>2. Append(t, s) \in Seq(Point) /\ Append(<<x>> \o t, s) = <<x>> \o Append(t, s)
            BY <6>1, SMTT(20)
          <6>3. w = <<x>> \o t
            BY DEF w, x
          <6> QED BY <6>2, <6>3 DEF x
        <5>2. FarStep(reversed[k].p, Append(t, s))
          BY <4>7 DEF H
        <5>3. FarStep(H(i), <<reversed[k]>> \o Append(t, s))
          BY <3>3, <5>1, <5>2, FarStepMoves
        <5> HIDE DEF w
        <5> QED BY <4>4, <4>5, <4>7, <5>1, <5>3 DEF FillsWell
      <4> QED BY <4>2, <4>6, <4>7 DEF FillsWell, t
    <3> QED BY <3>5, <3>6
  <2> QED BY <2>3, <2>4
<1>5. b \in T
  <2> HIDE DEF T
  <2>1. \A m \in Nat : m \in T => m + 1 \in T
    BY <1>4
  <2>2. Nat \subseteq T
    BY <1>3, <2>1, Induction
  <2> QED BY <1>1, <2>2
<1>6. a \in a..(b - 1) /\ b <= a + b
  BY <1>1
<1> QED BY <1>2, <1>5, <1>6

\* Neighbours in t are too far apart.
Broken(t) == \E j \in 1..Len(t) - 1 : Dist(t[j].p, t[j + 1].p) > MaxSegment * MaxSegment

\* A concatenation keeps its ends and whatever is too far apart in it.
LEMMA BrokenConcat ==
  ASSUME NEW u \in Seq(Point), NEW v \in Seq(Point), u # <<>>, v # <<>>
  PROVE  /\ u \o v \in Seq(Point) /\ u \o v # <<>>
         /\ (u \o v)[1] = u[1] /\ Last(u \o v) = Last(v)
         /\ Broken(u) => Broken(u \o v)
         /\ FarStep(Last(u).p, v) => Broken(u \o v)
<1> DEFINE w == u \o v
           m == Len(u)
           n == Len(v)
<1>1. m \in Nat /\ n \in Nat /\ m >= 1 /\ n >= 1 /\ Len(w) = m + n /\ w \in Seq(Point)
  OBVIOUS
<1>2. (\A j \in 1..m : w[j] = u[j]) /\ (\A j \in 1..n : w[m + j] = v[j])
  OBVIOUS
<1>3. Last(u) = u[m] /\ Last(v) = v[n] /\ Last(w) = w[Len(w)]
  BY DEF Last
<1> HIDE DEF w
<1>4. w # <<>> /\ w[1] = u[1] /\ Last(w) = Last(v)
  BY <1>1, <1>2, <1>3
<1> HIDE DEF m, n
<1>5. ASSUME Broken(u) PROVE Broken(w)
  <2>1. PICK j \in 1..m - 1 : Dist(u[j].p, u[j + 1].p) > MaxSegment * MaxSegment
    BY <1>5 DEF Broken, m
  <2>2. j \in 1..m /\ j + 1 \in 1..m /\ j \in 1..Len(w) - 1
    BY <1>1
  <2> QED BY <1>2, <2>1, <2>2 DEF Broken
<1>6. ASSUME FarStep(Last(u).p, v) PROVE Broken(w)
  <2>1. PICK j \in 1..n : Dist(IF j = 1 THEN Last(u).p ELSE v[j - 1].p, v[j].p) > MaxSegment * MaxSegment
    BY <1>6 DEF FarStep, n
  <2> DEFINE i == m + j - 1
  <2>2. i \in 1..Len(w) - 1 /\ i + 1 = m + j
    BY <1>1
  <2>3. w[i + 1] = v[j]
    BY <1>2, <2>2
  <2>4. w[i].p = IF j = 1 THEN Last(u).p ELSE v[j - 1].p
    <3>1. CASE j = 1
      <4>1. i = m /\ m \in 1..m
        BY <1>1, <3>1
      <4> QED BY <1>2, <1>3, <3>1, <4>1
    <3>2. CASE j # 1
      <4>1. j - 1 \in 1..n /\ i = m + (j - 1)
        BY <1>1, <3>2
      <4> QED BY <1>2, <3>2, <4>1
    <3> QED BY <3>1, <3>2
  <2> HIDE DEF i
  <2>5. Dist(w[i].p, w[i + 1].p) > MaxSegment * MaxSegment
    BY <2>1, <2>3, <2>4
  <2> QED BY <2>2, <2>5 DEF Broken
<1> QED BY <1>1, <1>4, <1>5, <1>6 DEF w

\* Parts that end with one point of s each.
Pieced(parts, s) ==
  /\ parts \in Seq(Seq(Point)) /\ Len(parts) = Len(s) /\ parts[1] = <<s[1]>>
  /\ \A k \in 1..Len(s) : parts[k] # <<>> /\ Last(parts[k]).p = s[k].p

\* The parts joined start, end and pass where s does, and stay as broken.
LEMMA FlattenEnds ==
  ASSUME NEW s \in Seq(Point), s # <<>>, NEW parts, Pieced(parts, s)
  PROVE  /\ FlattenSeq(parts) \in Seq(Point) /\ FlattenSeq(parts) # <<>>
         /\ FlattenSeq(parts)[1] = s[1] /\ Last(FlattenSeq(parts)).p = Last(s).p
         /\ Preserves(s, FlattenSeq(parts))
         /\ \A k \in 2..Len(s) : FarStep(s[k - 1].p, parts[k]) => Broken(FlattenSeq(parts))
<1> DEFINE n == Len(s)
<1>1. n \in Nat /\ n >= 1 /\ Last(s) = s[n] /\ s[1] \in Point
  BY DEF Last
<1>2. /\ parts \in Seq(Seq(Point)) /\ Len(parts) = n /\ parts[1] = <<s[1]>>
      /\ \A k \in 1..n : parts[k] # <<>> /\ Last(parts[k]).p = s[k].p
  BY DEF Pieced
<1>3. parts # <<>> /\ \A k \in 1..n : parts[k] \in Seq(Point)
  BY <1>1, <1>2
<1> HIDE DEF n
<1> DEFINE w == FlattenSeq(parts)
<1>0. w = FlattenSeq(parts)
  OBVIOUS
<1> HIDE DEF w
<1>12. PICK f \in [1..Len(parts) -> Seq(Point)] :
        /\ f[1] = parts[1] /\ FlattenSeq(parts) = f[Len(parts)]
        /\ \A k \in 2..Len(parts) : f[k] = f[k - 1] \o parts[k]
  <2>1. IsJoined(FlattenSeq(parts), parts, Point)
    BY <1>2, <1>3, FlattenUnfolds
  <2> QED BY <2>1, Zenon DEF IsJoined
<1>4. /\ f \in [1..n -> Seq(Point)] /\ f[1] = parts[1] /\ w = f[n]
      /\ \A k \in 2..n : f[k] = f[k - 1] \o parts[k]
  BY <1>0, <1>2, <1>12
<1> DEFINE T == {k \in 1..n : /\ f[k] # <<>> /\ f[k][1] = s[1] /\ Last(f[k]).p = s[k].p
                              /\ \A i \in 2..k : FarStep(s[i - 1].p, parts[i]) => Broken(f[k])}
<1>5. 1 \in T
  <2>1. f[1] = <<s[1]>> /\ 1 \in 1..n
    BY <1>1, <1>2, <1>4
  <2>2. f[1] # <<>> /\ f[1][1] = s[1] /\ Last(f[1]).p = s[1].p
    BY <2>1 DEF Last
  <2>3. \A i \in 2..1 : FALSE
    OBVIOUS
  <2> QED BY <2>1, <2>2, <2>3
<1>6. ASSUME NEW k \in (1 + 1)..n, k - 1 \in T PROVE k \in T
  <2>1. k \in 1..n /\ k - 1 \in 1..n /\ k \in 2..n /\ k \in Nat
    BY <1>1
  <2> DEFINE u == f[k - 1]
             v == parts[k]
  <2>2. u \in Seq(Point) /\ v \in Seq(Point) /\ u # <<>> /\ v # <<>> /\ f[k] = u \o v
    BY <1>2, <1>3, <1>4, <1>6, <2>1
  <2>3. /\ u[1] = s[1] /\ Last(u).p = s[k - 1].p /\ Last(v).p = s[k].p
        /\ \A i \in 2..(k - 1) : FarStep(s[i - 1].p, parts[i]) => Broken(u)
    BY <1>2, <1>6, <2>1
  <2>4. FarStep(s[k - 1].p, parts[k]) => FarStep(Last(u).p, v)
    BY <2>3
  <2> HIDE DEF u, v
  <2>5. /\ u \o v # <<>> /\ (u \o v)[1] = u[1] /\ Last(u \o v) = Last(v)
        /\ Broken(u) => Broken(u \o v)
        /\ FarStep(Last(u).p, v) => Broken(u \o v)
    BY <2>2, BrokenConcat
  <2>6. ASSUME NEW i \in 2..k, FarStep(s[i - 1].p, parts[i]) PROVE Broken(f[k])
    <3>1. i = k \/ i \in 2..(k - 1)
      BY <2>1
    <3> QED BY <2>2, <2>3, <2>4, <2>5, <2>6, <3>1
  <2> QED BY <2>1, <2>2, <2>3, <2>5, <2>6
<1>7. n \in T
  <2> HIDE DEF T
  <2>1. \A k \in (1 + 1)..n : k - 1 \in T => k \in T
    BY <1>6
  <2>2. 1 \in Nat
    OBVIOUS
  <2>3. 1..n \subseteq T
    BY <1>1, <1>5, <2>1, <2>2, RangeInduction, Zenon
  <2> QED BY <1>1, <2>3
<1>8. /\ w # <<>> /\ w[1] = s[1] /\ Last(w).p = s[n].p /\ w \in Seq(Point)
      /\ \A k \in 2..n : FarStep(s[k - 1].p, parts[k]) => Broken(w)
  <2>1. w = f[n] /\ n \in 1..n
    BY <1>0, <1>1, <1>4
  <2>2. f[n] \in Seq(Point)
    BY <1>4, <2>1
  <2>3. /\ f[n] # <<>> /\ f[n][1] = s[1] /\ Last(f[n]).p = s[n].p
        /\ \A i \in 2..n : FarStep(s[i - 1].p, parts[i]) => Broken(f[n])
    BY <1>7
  <2> HIDE DEF T
  <2> QED BY <2>1, <2>2, <2>3
<1>9. HasAll(w, parts)
  BY <1>0, <1>2, <1>3, FlattenKeeps
<1>10. ASSUME NEW k \in 1..n PROVE Visits(w, s[k].p)
  <2> DEFINE v == parts[k]
             m == Len(v)
  <2>1. v \in Seq(Point) /\ v # <<>> /\ Last(v).p = s[k].p
    BY <1>2, <1>3
  <2>2. m \in 1..m /\ v[m].p = s[k].p
    BY <2>1 DEF Last
  <2>3. \A i \in 1..m : \E j \in 1..Len(w) : w[j] = v[i]
    BY <1>2, <1>9 DEF HasAll
  <2> HIDE DEF m, v
  <2> QED BY <2>2, <2>3 DEF Visits
<1>11. Preserves(s, w)
  BY <1>10 DEF Preserves, n
<1> QED BY <1>0, <1>1, <1>8, <1>11 DEF n

\* The pieces of Bounded.
BoundPieces(s) ==
  [k \in 1..Len(s) |->
     IF k = 1 THEN <<s[1]>> ELSE Append(Filled(Indices(s)[k - 1], Indices(s)[k]), s[k])]

\* t starts and ends as s does, and passes where s does.
Carries(s, t) ==
  /\ t \in Seq(Point) /\ t # <<>> /\ t[1] = s[1] /\ Last(t).p = Last(s).p
  /\ Preserves(s, t)

\* So what is joined of such parts carries s.
LEMMA FlattenCarries ==
  ASSUME NEW s \in Seq(Point), s # <<>>, NEW parts, Pieced(parts, s)
  PROVE  /\ Carries(s, FlattenSeq(parts))
         /\ \A k \in 2..Len(s) : FarStep(s[k - 1].p, parts[k]) => Broken(FlattenSeq(parts))
BY FlattenEnds DEF Carries

\* A piece of Bounded leads on along bounded chords, unless a gap shows in it.
LEMMA FilledPiece ==
  ASSUME HistoryShape, LengthAssumption, NEW s \in Seq(Point), s # <<>>, AllFound(s),
         NEW k \in 2..Len(s), NEW w, w = Append(Filled(Indices(s)[k - 1], Indices(s)[k]), s[k])
  PROVE  /\ w \in Seq(Point) /\ w # <<>> /\ Last(w) = s[k]
         /\ \/ Leads(w, Indices(s)[k - 1], Indices(s)[k], BoundChords)
            \/ HistoryGap /\ FarStep(s[k - 1].p, w)
<1> DEFINE a == Indices(s)[k - 1]
           b == Indices(s)[k]
           t == Filled(a, b)
           p == s[k]
<1>1. a \in Samples /\ b \in Samples /\ a \in Nat /\ b \in Nat /\ a < b
  BY IndicesRise
<1>2. k \in 1..Len(s) /\ k - 1 \in 1..Len(s)
  OBVIOUS
<1>3. H(a) = s[k - 1].p /\ p \in Point
  BY <1>2, SMTT(20) DEF AllFound
<1>4. \A x \in Nat : a <= x /\ x < b => Found(x, p, b)
  BY FoundBetween
<1>5. w = Append(t, p) /\ p = s[k]
  OBVIOUS
<1>6. FillsWell(t, a, b, p)
  <2> HIDE DEF a, b, p
  <2> QED BY <1>1, <1>3, FilledWell
<1> HIDE DEF a, b, t, p
<1>7. t \in Seq(Point)
  BY <1>6 DEF FillsWell
<1>8. w \in Seq(Point) /\ w # <<>> /\ Last(w) = p
  <2>1. w \in Seq(Point) /\ Len(w) = Len(t) + 1 /\ w[Len(t) + 1] = p
    BY <1>3, <1>5, <1>7
  <2> QED BY <2>1, SMTT(20) DEF Last
<1>9. CASE \E x \in a..(b - 1) : Reaches(x, H(b)) /\ Leads(t, a, x, BoundChords)
  <2>1. PICK x \in a..(b - 1) : Reaches(x, H(b)) /\ Leads(t, a, x, BoundChords)
    BY <1>9
  <2>2. x \in Nat /\ a <= x /\ x < b
    BY <1>1
  <2>3. Found(x, p, b)
    BY <1>4, <2>2
  <2>4. <<x, b>> \in BoundChords
    <3>1. x \in Samples
      BY <1>1, <2>2, HistoryPlaces
    <3> QED BY <1>1, <2>1, <2>2, <3>1 DEF BoundChords, Pairs
  <2>5. Leads(w, a, b, BoundChords)
    BY <1>3, <1>5, <1>7, <2>1, <2>2, <2>3, <2>4, LeadsAppend
  <2> QED BY <1>5, <1>8, <2>5 DEF a, b
<1>10. CASE HistoryGap /\ FarStep(H(a), Append(t, p))
  BY <1>3, <1>5, <1>8, <1>10 DEF a, b
<1> QED BY <1>6, <1>9, <1>10 DEF FillsWell

\* Bounded keeps to chords that are not too long, unless the history has a gap
\* and the gap shows.
LEMMA BoundedFacts ==
  ASSUME HistoryShape, LengthAssumption, points \in Seq(Point), points # <<>>, AllFound(points),
         Found(0, points[1], 1)
  PROVE  /\ Carries(points, Bounded)
         /\ \/ Leads(Bounded, 0, Indices(points)[Len(points)], From(BoundChords))
            \/ HistoryGap /\ Broken(Bounded)
<1> DEFINE s == points
           n == Len(s)
           parts == BoundPieces(s)
<1>1. Bounded = FlattenSeq(parts)
  BY Zenon DEF Bounded, BoundPieces
<1>2. n \in Nat /\ n >= 1 /\ s[1] \in Point /\ Last(s) = s[n]
  BY DEF Last
<1>3. parts[1] = <<s[1]>> /\ \A k \in 2..n : parts[k] = Append(Filled(Indices(s)[k - 1], Indices(s)[k]), s[k])
  <2>1. 1 \in 1..n /\ \A k \in 2..n : k \in 1..n /\ k # 1
    BY <1>2
  <2> QED BY <2>1 DEF BoundPieces
<1>4. parts = [k \in 1..n |-> parts[k]]
  BY DEF BoundPieces
<1> HIDE DEF parts
<1>5. \A k \in 2..n : /\ parts[k] \in Seq(Point) /\ parts[k] # <<>> /\ Last(parts[k]) = s[k]
                      /\ \/ Leads(parts[k], Indices(s)[k - 1], Indices(s)[k], BoundChords)
                         \/ HistoryGap /\ FarStep(s[k - 1].p, parts[k])
  <2> SUFFICES ASSUME NEW k \in 2..n
               PROVE  /\ parts[k] \in Seq(Point) /\ parts[k] # <<>> /\ Last(parts[k]) = s[k]
                      /\ \/ Leads(parts[k], Indices(s)[k - 1], Indices(s)[k], BoundChords)
                         \/ HistoryGap /\ FarStep(s[k - 1].p, parts[k])
    OBVIOUS
  <2> DEFINE w == parts[k]
  <2>1. w = Append(Filled(Indices(s)[k - 1], Indices(s)[k]), s[k])
    BY <1>3
  <2> HIDE DEF w
  <2>2. /\ w \in Seq(Point) /\ w # <<>> /\ Last(w) = s[k]
        /\ \/ Leads(w, Indices(s)[k - 1], Indices(s)[k], BoundChords)
           \/ HistoryGap /\ FarStep(s[k - 1].p, w)
    BY <2>1, FilledPiece
  <2> QED BY <2>2 DEF w
<1>6. \A k \in 1..n : parts[k] \in Seq(Point) /\ parts[k] # <<>> /\ Last(parts[k]) = s[k]
  <2> SUFFICES ASSUME NEW k \in 1..n PROVE parts[k] \in Seq(Point) /\ parts[k] # <<>> /\ Last(parts[k]) = s[k]
    OBVIOUS
  <2>1. CASE k = 1
    <3> DEFINE x == s[1]
    <3>1. parts[k] = <<x>> /\ x \in Point /\ x = s[k]
      BY <1>2, <1>3, <2>1
    <3> HIDE DEF x
    <3>2. <<x>> \in Seq(Point) /\ <<x>> # <<>> /\ Len(<<x>>) = 1 /\ <<x>>[1] = x
      BY <3>1
    <3>3. Last(<<x>>) = x
      BY <3>2 DEF Last
    <3>4. parts[k] = <<x>> /\ s[k] = x
      BY <3>1
    <3>5. parts[k] \in Seq(Point) /\ parts[k] # <<>>
      BY <3>2, <3>4
    <3>6. Last(parts[k]) = s[k]
      BY <3>3, <3>4, Zenon
    <3> QED BY <3>5, <3>6
  <2>2. CASE k # 1
    <3>1. k \in 2..n
      BY <1>2, <2>2
    <3> QED BY <3>1, <1>5
  <2> QED BY <2>1, <2>2
<1>7. parts \in Seq(Seq(Point)) /\ Len(parts) = n
  <2>1. parts \in [1..n -> Seq(Point)]
    BY <1>4, <1>6
  <2>2. n \in Nat
    BY <1>2
  <2> HIDE DEF n
  <2> QED BY <2>1, <2>2
<1>8. Pieced(parts, s)
  BY <1>3, <1>6, <1>7 DEF Pieced
<1>9. /\ Carries(s, FlattenSeq(parts))
      /\ \A k \in 2..n : FarStep(s[k - 1].p, parts[k]) => Broken(FlattenSeq(parts))
  BY <1>8, FlattenCarries
<1>10. CASE \A k \in 2..n : Leads(parts[k], Indices(s)[k - 1], Indices(s)[k], BoundChords)
  <2>1. Leads(FlattenSeq(parts), 0, Indices(s)[n], From(BoundChords))
    BY <1>3, <1>7, <1>10, PiecesLead
  <2> QED BY <1>1, <1>9, <2>1
<1>11. CASE ~\A k \in 2..n : Leads(parts[k], Indices(s)[k - 1], Indices(s)[k], BoundChords)
  BY <1>1, <1>5, <1>9, <1>11
<1> QED BY <1>10, <1>11

-----------------------------------------------------------------------------
(* restoreUnsafeShortcuts.                                                 *)

\* Every number has an integer root.
LEMMA RootExists ==
  ASSUME NEW d \in Nat
  PROVE  \E n \in 0..d : n * n <= d /\ (n + 1) * (n + 1) > d
<1> DEFINE T == {m \in Nat : (m + 1) * (m + 1) > d}
<1>1. d \in T
  BY SMT
<1>2. T \subseteq Nat /\ T # {}
  BY <1>1
<1>3. PICK x \in T : \A y \in T : x <= y
  <2> HIDE DEF T
  <2> QED BY <1>2, LeastElement
<1>4. x \in 0..d /\ (x + 1) * (x + 1) > d
  BY <1>1, <1>3
<1>5. x * x <= d
  <2>1. CASE x = 0
    BY <2>1
  <2>2. CASE x # 0
    <3>1. x - 1 \in Nat /\ ~(x <= x - 1) /\ (x - 1) + 1 = x
      BY <1>4, <2>2
    <3>2. x - 1 \notin T
      BY <1>3, <3>1
    <3>3. ~(x * x > d)
      BY <3>1, <3>2
    <3>4. x * x \in Int
      BY <1>4
    <3> QED BY <3>3, <3>4
  <2> QED BY <2>1, <2>2
<1> QED BY <1>4, <1>5

\* So a length in hundredths is a number.
LEMMA LengthType ==
  ASSUME NEW p \in Place, NEW q \in Place
  PROVE  Length(p, q) \in Nat
<1> DEFINE d == 10000 * Dist(p, q)
           m == CHOOSE n \in 0..d : n * n <= d /\ (n + 1) * (n + 1) > d
<1>1. d \in Nat
  <2>1. Dist(p, q) \in Nat
    BY DotType
  <2> QED BY <2>1
<1>2. Length(p, q) = m
  BY DEF Length
<1> HIDE DEF d
<1>3. \E n \in 0..d : n * n <= d /\ (n + 1) * (n + 1) > d
  BY <1>1, RootExists
<1>4. m \in 0..d
  BY <1>3, Zenon
<1> HIDE DEF m
<1>5. m \in Nat
  BY <1>1, <1>4
<1> QED BY <1>2, <1>5

\* The length from the sample before the k-th to it.
Move(k) == Length(H(k - 1), H(k))

\* Moves are lengths.
LEMMA MoveType ==
  ASSUME HistoryShape, NEW k \in 2..Len(reversed)
  PROVE  Move(k) \in Nat
<1>1. k - 1 \in Samples /\ k \in Samples
  BY HistoryPlaces
<1>2. H(k - 1) \in Place /\ H(k) \in Place
  BY <1>1, HistoryPlaces
<1> QED BY <1>2, LengthType DEF Move

\* Flown, unfolded: it adds up the moves.
LEMMA FlownUnfolds ==
  ASSUME HistoryShape
  PROVE  /\ Flown \in [Samples -> Nat] /\ Flown[1] = 0
         /\ \A k \in 2..Len(reversed) : Flown[k] = Flown[k - 1] + Move(k)
<1> DEFINE n == Len(reversed)
           L(k) == IF k \in 2..n THEN Move(k) ELSE 0
           F == [x \in Nat \X Nat |-> x[1] + L(x[2])]
<1>1. n \in Nat /\ 1 \in Nat /\ 1 <= n /\ 0 \in Nat /\ Samples = 1..n
  BY HistoryPlaces DEF HistoryShape
<1>2. \A k : L(k) \in Nat
  BY MoveType
<1> HIDE DEF L
<1>3. F \in [Nat \X Nat -> Nat]
  <2> SUFFICES ASSUME NEW x \in Nat \X Nat PROVE x[1] + L(x[2]) \in Nat
    OBVIOUS
  <2>1. x[1] \in Nat /\ L(x[2]) \in Nat
    BY <1>2
  <2> QED BY <2>1
<1>4. ASSUME NEW v \in Nat, NEW k \in 2..n PROVE F[<<v, k>>] = v + Move(k)
  <2>1. <<v, k>> \in Nat \X Nat /\ <<v, k>>[1] = v /\ <<v, k>>[2] = k
    BY <1>1
  <2>2. L(k) = Move(k)
    BY DEF L
  <2> QED BY <2>1, <2>2
<1> HIDE DEF F, n
<1>5. IsDefined(1, n, Nat, 0, F)
  BY <1>1, <1>3, Recursion, Zenon
<1>6. PICK g \in [1..n -> Nat] : g[1] = 0 /\ \A k \in (1 + 1)..n : g[k] = F[<<g[k - 1], k>>]
  BY <1>5 DEF IsDefined
<1>7. ASSUME NEW k \in 1..n
      PROVE  g[k] = IF k = 1 THEN 0 ELSE g[k - 1] + Move(k)
  <2>1. CASE k = 1
    BY <2>1, <1>6
  <2>2. CASE k # 1
    <3>1. k \in (1 + 1)..n /\ k - 1 \in 1..n /\ k \in 2..n
      BY <2>2, <1>1
    <3>2. g[k] = F[<<g[k - 1], k>>] /\ g[k - 1] \in Nat
      BY <3>1, <1>6
    <3> QED BY <3>1, <3>2, <1>4, <2>2
  <2> QED BY <2>1, <2>2
<1>8. g = [k \in 1..n |-> IF k = 1 THEN 0 ELSE g[k - 1] + Move(k)]
  BY <1>6, <1>7
<1> DEFINE h == CHOOSE h : h = [k \in 1..n |-> IF k = 1 THEN 0 ELSE h[k - 1] + Move(k)]
           G == [k \in 1..n |-> IF k = 1 THEN 0 ELSE h[k - 1] + Move(k)]
<1>9. h = G
  BY <1>8, Zenon
<1>10. Flown = h
  <2>1. Flown = CHOOSE h2 : h2 = [k \in Samples |-> IF k = 1 THEN 0 ELSE h2[k - 1] + Move(k)]
    BY Zenon DEF Flown, Move
  <2> QED BY <1>1, <2>1, Zenon
<1> HIDE DEF h
<1>11. /\ h = [k \in 1..n |-> h[k]] /\ h[1] = 0
       /\ \A k \in 2..n : h[k] = h[k - 1] + Move(k)
  <2>1. G = [k \in 1..n |-> G[k]]
    BY Zenon
  <2>2. G[1] = 0
    BY <1>1
  <2>3. ASSUME NEW k \in 2..n PROVE G[k] = h[k - 1] + Move(k)
    <3>1. k \in 1..n /\ k # 1
      BY <1>1
    <3> QED BY <3>1, Zenon
  <2> HIDE DEF G
  <2> QED BY <1>9, <2>1, <2>2, <2>3
<1> HIDE DEF G
<1>12. h \in [1..n -> Nat]
  <2>1. ASSUME NEW k \in (1 + 1)..n, h[k - 1] \in Nat PROVE h[k] \in Nat
    <3>1. k \in 2..n
      BY <1>1
    <3>2. h[k] = h[k - 1] + Move(k) /\ Move(k) \in Nat
      BY <3>1, <1>11, MoveType DEF n
    <3> QED BY <2>1, <3>2
  <2>2. h[1] \in Nat
    BY <1>1, <1>11
  <2> QED BY <1>1, <1>11, <2>1, <2>2, RecursionType, Zenon
<1> QED BY <1>1, <1>10, <1>11, <1>12 DEF n

\* A path so far and the length flown since its last.
Thinning == [out : Seq(Point), length : Nat]

\* Whether the i-th sample is kept after q, of those from a to b.
ThinStep(q, i, a, b) ==
  IF Keeps(a, b, i, q.length + Move(i))
    THEN [out |-> Append(q.out, reversed[i]), length |-> 0]
    ELSE [out |-> q.out, length |-> q.length + Move(i)]

\* Nothing kept, nothing flown.
ThinStart == [out |-> <<>>, length |-> 0]

\* A step of the thinning makes a path of samples and a length.
LEMMA ThinStepType ==
  ASSUME HistoryShape, NEW a, NEW b, NEW i \in 2..Len(reversed), NEW q \in Thinning
  PROVE  ThinStep(q, i, a, b) \in Thinning
<1>1. q.out \in Seq(Point) /\ q.length \in Nat
  BY DEF Thinning
<1>2. Move(i) \in Nat /\ reversed[i] \in Point
  <2>1. i \in Samples
    BY HistoryPlaces
  <2> QED BY <2>1, MoveType, HistoryPlaces
<1> DEFINE u == Append(q.out, reversed[i])
           l == q.length + Move(i)
<1>3. u \in Seq(Point) /\ l \in Nat
  BY <1>1, <1>2
<1>4. ThinStep(q, i, a, b) = IF Keeps(a, b, i, l) THEN [out |-> u, length |-> 0] ELSE [out |-> q.out, length |-> l]
  BY Zenon DEF ThinStep
<1> HIDE DEF u, l
<1> QED BY <1>1, <1>3, <1>4 DEF Thinning

\* Thinned is made step by step.
ThinsTo(t, a, b) ==
  \E h \in [a..b -> Thinning] :
    /\ h[a] = ThinStart /\ t = h[b].out
    /\ \A i \in (a + 1)..b : h[i] = ThinStep(h[i - 1], i, a, b)

\* Thinned, unfolded: it makes every step of the thinning.
LEMMA ThinnedUnfolds ==
  ASSUME HistoryShape, NEW a \in Samples, NEW b \in Samples, a <= b
  PROVE  ThinsTo(Thinned(a, b), a, b)
<1> DEFINE D(x) == IF x[2] \in 2..Len(reversed) THEN ThinStep(x[1], x[2], a, b) ELSE ThinStart
           F == [x \in Thinning \X Nat |-> D(x)]
<1>1. a \in Nat /\ b \in Nat /\ a..b \subseteq Samples /\ (a + 1)..b \subseteq 2..Len(reversed)
  BY HistoryPlaces
<1>2. ThinStart \in Thinning
  <2>1. <<>> \in Seq(Point) /\ 0 \in Nat
    OBVIOUS
  <2> QED BY <2>1 DEF ThinStart, Thinning
<1>3. F \in [Thinning \X Nat -> Thinning]
  <2> SUFFICES ASSUME NEW x \in Thinning \X Nat PROVE D(x) \in Thinning
    OBVIOUS
  <2>1. x[1] \in Thinning
    OBVIOUS
  <2> QED BY <1>2, <2>1, ThinStepType
<1>4. ASSUME NEW q \in Thinning, NEW k \in (a + 1)..b PROVE F[<<q, k>>] = ThinStep(q, k, a, b)
  <2>1. <<q, k>> \in Thinning \X Nat /\ <<q, k>>[1] = q /\ <<q, k>>[2] = k /\ k \in 2..Len(reversed)
    BY <1>1
  <2> QED BY <2>1
<1> HIDE DEF F, D
<1>5. IsDefined(a, b, Thinning, ThinStart, F)
  BY <1>1, <1>2, <1>3, Recursion, Zenon
<1>6. PICK g \in [a..b -> Thinning] : g[a] = ThinStart /\ \A k \in (a + 1)..b : g[k] = F[<<g[k - 1], k>>]
  BY <1>5 DEF IsDefined
<1>7. ASSUME NEW k \in a..b
      PROVE  g[k] = IF k = a THEN ThinStart ELSE ThinStep(g[k - 1], k, a, b)
  <2>1. CASE k = a
    BY <2>1, <1>6
  <2>2. CASE k # a
    <3>1. k \in (a + 1)..b /\ k - 1 \in a..b
      BY <2>2, <1>1
    <3>2. g[k] = F[<<g[k - 1], k>>] /\ g[k - 1] \in Thinning
      BY <3>1, <1>6
    <3> QED BY <3>1, <3>2, <1>4, <2>2
  <2> QED BY <2>1, <2>2
<1>8. g = [k \in a..b |-> IF k = a THEN ThinStart ELSE ThinStep(g[k - 1], k, a, b)]
  BY <1>6, <1>7
<1> DEFINE h == CHOOSE h : h = [k \in a..b |-> IF k = a THEN ThinStart ELSE ThinStep(h[k - 1], k, a, b)]
           G == [k \in a..b |-> IF k = a THEN ThinStart ELSE ThinStep(h[k - 1], k, a, b)]
<1>9. h = G
  BY <1>8, Zenon
<1>10. Thinned(a, b) = h[b].out
  BY Zenon DEF Thinned, ThinStep, ThinStart, Move
<1> HIDE DEF h
<1>11. /\ h = [k \in a..b |-> h[k]] /\ h[a] = ThinStart
       /\ \A k \in (a + 1)..b : h[k] = ThinStep(h[k - 1], k, a, b)
  <2>1. G = [k \in a..b |-> G[k]]
    BY Zenon
  <2>2. G[a] = ThinStart
    BY <1>1
  <2>3. ASSUME NEW k \in (a + 1)..b PROVE G[k] = ThinStep(h[k - 1], k, a, b)
    <3>1. k \in a..b /\ k # a
      BY <1>1
    <3> QED BY <3>1, Zenon
  <2> HIDE DEF G
  <2> QED BY <1>9, <2>1, <2>2, <2>3
<1> HIDE DEF G
<1>12. h \in [a..b -> Thinning]
  <2>1. ASSUME NEW k \in (a + 1)..b, h[k - 1] \in Thinning PROVE h[k] \in Thinning
    <3>1. h[k] = ThinStep(h[k - 1], k, a, b) /\ k \in 2..Len(reversed)
      BY <1>1, <1>11
    <3> QED BY <2>1, <3>1, ThinStepType
  <2>2. h[a] \in Thinning
    BY <1>2, <1>11
  <2> QED BY <1>1, <1>11, <2>1, <2>2, RecursionType, Zenon
<1> QED BY <1>10, <1>11, <1>12, Zenon DEF ThinsTo

\* Chords that do not skip a sample, or stand for little flight.
ThinChords == {c \in Pairs : c[1] < c[2] /\ (c[2] = c[1] + 1 \/ IsShort(c[1], c[2]))}

\* Thinning has led from a to the last sample kept, and has flown on since.
ThinLeads(q, a, i) ==
  /\ q \in Thinning
  /\ \E x \in a..i :
       /\ Leads(q.out, a, x, ThinChords) /\ q.length = Flown[i] - Flown[x]
       /\ x = i \/ q.length < 100 * FallbackSpacing

\* A sample of the history is found from anywhere before it.
LEMMA FoundExactly ==
  ASSUME HistoryShape, NEW x \in Nat, NEW i \in Samples, x < i
  PROVE  Found(x, reversed[i], i)
<1>1. /\ H(i) = reversed[i].p
      /\ \/ FindIndex(x, reversed[i]) = i
         \/ i = Len(reversed) /\ FindIndex(x, reversed[i]) = Len(reversed) - 1
  BY FindIndexExact DEF H
<1> QED BY <1>1 DEF Found

\* A step leads on, and the last one to the end of the chord.
LEMMA ThinStepLeads ==
  ASSUME HistoryShape, LengthAssumption, NEW a \in Samples, NEW b \in Samples,
         NEW i \in (a + 1)..b, NEW q, ThinLeads(q, a, i - 1)
  PROVE  /\ ThinLeads(ThinStep(q, i, a, b), a, i)
         /\ i = b => /\ Leads(ThinStep(q, i, a, b).out, a, b, ThinChords)
                     /\ ThinStep(q, i, a, b).out # <<>> /\ Last(ThinStep(q, i, a, b).out) = reversed[b]
<1>1. a \in Nat /\ b \in Nat /\ i \in Nat /\ i \in Samples /\ i - 1 \in Samples /\ i \in 2..Len(reversed)
      /\ reversed[i] \in Point
  <2>1. a \in Nat /\ b \in Nat /\ i \in Nat /\ i \in Samples /\ i - 1 \in Samples /\ i \in 2..Len(reversed)
    BY HistoryPlaces, SMTT(20)
  <2> QED BY <2>1, HistoryPlaces
<1> DEFINE o == q.out
           l == q.length + Move(i)
           r == reversed[i]
           u == Append(o, r)
           w == ThinStep(q, i, a, b)
           F == 100 * FallbackSpacing
<1>2. q \in Thinning /\ o \in Seq(Point) /\ q.length \in Nat
  BY DEF ThinLeads, Thinning
<1>3. PICK x \in a..(i - 1) :
        /\ Leads(o, a, x, ThinChords) /\ q.length = Flown[i - 1] - Flown[x]
        /\ x = i - 1 \/ q.length < F
  BY DEF ThinLeads
<1>4. x \in Nat /\ x < i /\ x \in Samples /\ x \in a..i
  <2>1. x \in Nat /\ x < i /\ x \in a..i
    BY <1>1, <1>3
  <2> QED BY <1>1, <2>1, HistoryPlaces
<1>5. /\ Flown[i] \in Nat /\ Flown[i - 1] \in Nat /\ Flown[x] \in Nat /\ Move(i) \in Nat
      /\ Flown[i] = Flown[i - 1] + Move(i)
  BY <1>1, <1>4, FlownUnfolds, MoveType
<1>6. l = Flown[i] - Flown[x] /\ l \in Nat
  <2>1. q.length \in Nat /\ q.length = Flown[i - 1] - Flown[x]
    BY <1>2, <1>3
  <2> DEFINE c == Flown[i]
             d == Flown[i - 1]
             e == Flown[x]
             m == Move(i)
             n == q.length
  <2>2. c \in Nat /\ d \in Nat /\ e \in Nat /\ m \in Nat /\ n \in Nat /\ n = d - e /\ c = d + m
    BY <1>5, <2>1
  <2> HIDE DEF c, d, e, m, n
  <2>3. n + m = c - e /\ n + m \in Nat
    BY <2>2
  <2> QED BY <2>3 DEF c, e, m, n
<1>7. F \in Nat
  BY DEF LengthAssumption
<1>8. w = IF Keeps(a, b, i, l) THEN [out |-> u, length |-> 0] ELSE [out |-> o, length |-> l]
  BY Zenon DEF ThinStep
<1>9. w \in Thinning
  BY <1>1, <1>2, ThinStepType, Zenon
<1>10. ~Keeps(a, b, i, l) => l < F /\ i # b
  BY <1>6, <1>7 DEF Keeps
<1>11. Found(x, r, i)
  BY <1>1, <1>4, FoundExactly
<1>12. u \in Seq(Point) /\ u # <<>> /\ Last(u) = r
  <2>1. o \in Seq(Point) /\ r \in Point
    BY <1>1, <1>2
  <2> HIDE DEF o, r
  <2>2. Len(o) \in Nat /\ u \in Seq(Point) /\ Len(u) = Len(o) + 1 /\ u[Len(o) + 1] = r
    BY <2>1
  <2>3. u # <<>>
    BY <2>2, SMTT(20)
  <2>4. Last(u) = u[Len(u)]
    BY Zenon DEF Last
  <2> QED BY <2>2, <2>3, <2>4
<1> HIDE DEF o, l, u, w, F, r
<1>13. CASE Keeps(a, b, i, l)
  <2>1. w.out = u /\ w.length = 0
    BY <1>8, <1>13
  <2>2. <<x, i>> \in ThinChords
    <3>1. x = i - 1 \/ IsShort(x, i)
      BY <1>3 DEF IsShort, F
    <3>2. i = x + 1 \/ IsShort(x, i)
      BY <1>1, <1>4, <3>1
    <3>3. <<x, i>> \in Pairs /\ <<x, i>>[1] = x /\ <<x, i>>[2] = i
      BY <1>1, <1>4 DEF Pairs
    <3> QED BY <1>4, <3>2, <3>3, Zenon DEF ThinChords
  <2>3. Leads(u, a, i, ThinChords)
    <3>1. r \in Point
      BY <1>1 DEF r
    <3>2. Leads(Append(o, r), a, i, ThinChords)
      BY <1>2, <1>3, <1>4, <1>11, <2>2, <3>1, LeadsAppend
    <3> QED BY <3>2, Zenon DEF u
  <2>4. i \in a..i /\ 0 = Flown[i] - Flown[i]
    <3>1. i \in a..i
      BY <1>1
    <3>2. \A f \in Nat : 0 = f - f
      OBVIOUS
    <3> QED BY <1>5, <3>1, <3>2, Zenon
  <2>5. ThinLeads(w, a, i)
    BY <1>9, <2>1, <2>3, <2>4 DEF ThinLeads
  <2> QED BY <1>12, <2>1, <2>3, <2>5 DEF w, r
<1>14. CASE ~Keeps(a, b, i, l)
  <2>1. w.out = o /\ w.length = l
    BY <1>8, <1>14
  <2>2. ThinLeads(w, a, i)
    BY <1>3, <1>4, <1>6, <1>9, <1>10, <1>14, <2>1 DEF ThinLeads, F
  <2> QED BY <1>10, <1>14, <2>2 DEF w
<1> QED BY <1>13, <1>14

\* What stands for a chord leads along samples no farther apart than the spacing
\* and one sample, to the end of the chord.
LEMMA ThinnedLeads ==
  ASSUME HistoryShape, LengthAssumption, NEW a \in Samples, NEW b \in Samples, a < b
  PROVE  /\ Thinned(a, b) \in Seq(Point) /\ Thinned(a, b) # <<>>
         /\ Last(Thinned(a, b)) = reversed[b]
         /\ Leads(Thinned(a, b), a, b, ThinChords)
<1>1. a \in Nat /\ b \in Nat /\ a \in a..b /\ b \in (a + 1)..b /\ b - 1 \in a..b
  BY HistoryPlaces
<1>2. ThinsTo(Thinned(a, b), a, b)
  BY <1>1, ThinnedUnfolds
<1>3. PICK h \in [a..b -> Thinning] :
        /\ h[a] = ThinStart /\ Thinned(a, b) = h[b].out
        /\ \A i \in (a + 1)..b : h[i] = ThinStep(h[i - 1], i, a, b)
  BY <1>2, Zenon DEF ThinsTo
<1> DEFINE T == {i \in a..b : ThinLeads(h[i], a, i)}
<1>4. a \in T
  <2>1. h[a].out = <<>> /\ h[a].length = 0 /\ h[a] \in Thinning
    BY <1>1, <1>3 DEF ThinStart
  <2>2. Leads(<<>>, a, a, ThinChords)
    BY <1>1, LeadsNone
  <2>3. a \in a..a /\ 0 = Flown[a] - Flown[a]
    <3>1. Flown[a] \in Nat
      BY FlownUnfolds
    <3> QED BY <1>1, <3>1
  <2>4. ThinLeads(h[a], a, a)
    BY <2>1, <2>2, <2>3 DEF ThinLeads
  <2> QED BY <1>1, <2>4
<1>5. ASSUME NEW k \in (a + 1)..b, k - 1 \in T PROVE k \in T
  <2>1. k \in a..b /\ ThinLeads(h[k - 1], a, k - 1) /\ h[k] = ThinStep(h[k - 1], k, a, b)
    <3>1. k \in a..b
      BY <1>1
    <3> QED BY <1>3, <1>5, <3>1
  <2>2. ThinLeads(ThinStep(h[k - 1], k, a, b), a, k)
    BY <2>1, ThinStepLeads
  <2> QED BY <2>1, <2>2
<1>6. b - 1 \in T
  <2> HIDE DEF T
  <2>1. \A k \in (a + 1)..b : k - 1 \in T => k \in T
    BY <1>5
  <2>2. a..b \subseteq T
    BY <1>1, <1>4, <2>1, RangeInduction, Zenon
  <2> QED BY <1>1, <2>2
<1>7. ThinLeads(h[b - 1], a, b - 1) /\ h[b] = ThinStep(h[b - 1], b, a, b)
  BY <1>1, <1>3, <1>6
<1>8. /\ ThinLeads(h[b], a, b) /\ Leads(h[b].out, a, b, ThinChords)
      /\ h[b].out # <<>> /\ Last(h[b].out) = reversed[b]
  BY <1>1, <1>7, ThinStepLeads
<1>9. h[b].out \in Seq(Point)
  BY <1>8 DEF ThinLeads, Thinning
<1> QED BY <1>3, <1>8, <1>9

\* With a map, a chord that skips samples is allowed, or short.
Allowed(a, b) == b = a + 1 \/ Trusted(a, b) \/ Clear(H(a), H(b)) \/ IsShort(a, b)

\* Without a gap in the history a chord is short enough, or restored from the map.
Enough(a, b) == HistoryGap \/ Reaches(a, H(b)) \/ (cloud # {} /\ IsShort(a, b))

\* The chords of a planned path.
FinalChords == {c \in Pairs : c[1] < c[2] /\ (cloud # {} => Allowed(c[1], c[2])) /\ Enough(c[1], c[2])}

\* Samples next to each other are near enough, but for a gap.
LEMMA NextReaches ==
  ASSUME HistoryShape, NEW a \in Samples, NEW b \in Samples, b = a + 1
  PROVE  HistoryGap \/ Reaches(a, H(b))
<1> SUFFICES ASSUME ~Reaches(a, H(b)) PROVE HistoryGap
  OBVIOUS
<1>1. b \in 2..Len(reversed) /\ b - 1 = a
  BY HistoryPlaces
<1>2. ~Reaches(b, H(a))
  BY ReachesSymmetric
<1> QED BY <1>1, <1>2 DEF HistoryGap

\* What thinning leaves may stay in a planned path.
LEMMA ThinIsFinal ==
  ASSUME HistoryShape, cloud # {}
  PROVE  ThinChords \subseteq FinalChords
<1> SUFFICES ASSUME NEW c \in ThinChords PROVE c \in FinalChords
  OBVIOUS
<1>1. /\ c \in Pairs /\ c[1] \in Samples /\ c[2] \in Samples /\ c[1] < c[2]
      /\ c[2] = c[1] + 1 \/ IsShort(c[1], c[2])
  BY DEF ThinChords, Pairs
<1>2. Allowed(c[1], c[2])
  BY <1>1 DEF Allowed
<1>3. Enough(c[1], c[2])
  <2>1. CASE c[2] = c[1] + 1
    BY <1>1, <2>1, NextReaches DEF Enough
  <2>2. CASE IsShort(c[1], c[2])
    BY <2>2 DEF Enough
  <2> QED BY <1>1, <2>1, <2>2
<1> QED BY <1>1, <1>2, <1>3 DEF FinalChords

\* What stands for a chord leads from its start to its end.
LEMMA RestoredPiece ==
  ASSUME HistoryShape, LengthAssumption, cloud # {}, NEW s \in Seq(Point), s # <<>>, AllFound(s),
         NEW k \in 2..Len(s), NEW w, w = Restored(Indices(s)[k - 1], Indices(s)[k], s[k]),
         Enough(Indices(s)[k - 1], Indices(s)[k])
  PROVE  /\ w \in Seq(Point) /\ w # <<>> /\ Last(w).p = s[k].p
         /\ Leads(w, Indices(s)[k - 1], Indices(s)[k], FinalChords)
<1> DEFINE a == Indices(s)[k - 1]
           b == Indices(s)[k]
           p == s[k]
           kept == b = a + 1 \/ Trusted(a, b) \/ Clear(H(a), H(b))
<1>1. a \in Samples /\ b \in Samples /\ a \in Nat /\ b \in Nat /\ a < b
  BY IndicesRise
<1>2. k \in 1..Len(s) /\ k - 1 \in 1..Len(s)
  BY SMTT(20)
<1>3. H(b) = p.p /\ p \in Point
  BY <1>2 DEF AllFound
<1>4. Found(a, p, b)
  <2>1. a <= a
    BY <1>1
  <2> QED BY <1>1, <2>1, FoundBetween, Zenon
<1>5. w = (IF kept THEN <<p>> ELSE Thinned(a, b)) /\ Enough(a, b)
  BY Zenon DEF Restored
<1>6. kept => Allowed(a, b)
  BY DEF Allowed
<1> HIDE DEF a, b, p, kept
<1>7. CASE kept
  <2>1. w = <<p>>
    BY <1>5, <1>7
  <2>2. <<p>> \in Seq(Point) /\ <<p>> # <<>> /\ Len(<<p>>) = 1 /\ <<p>>[1] = p
    BY <1>3
  <2>3. Last(<<p>>) = p
    BY <2>2 DEF Last
  <2>4. <<a, b>> \in FinalChords
    <3>1. <<a, b>> \in Pairs /\ <<a, b>>[1] = a /\ <<a, b>>[2] = b
      BY <1>1 DEF Pairs
    <3> QED BY <1>1, <1>5, <1>6, <1>7, <3>1, Zenon DEF FinalChords
  <2>5. Leads(<<p>>, a, b, FinalChords)
    BY <1>1, <1>4, <2>4, LeadsOne
  <2> QED BY <2>1, <2>2, <2>3, <2>5, Zenon DEF a, b, p
<1>8. CASE ~kept
  <2> DEFINE t == Thinned(a, b)
  <2>1. w = t
    BY <1>5, <1>8
  <2>2. /\ t \in Seq(Point) /\ t # <<>> /\ Last(t) = reversed[b]
        /\ Leads(t, a, b, ThinChords)
    BY <1>1, ThinnedLeads
  <2> HIDE DEF t
  <2>3. Leads(t, a, b, FinalChords)
    BY <2>2, ThinIsFinal, LeadsWiden
  <2>4. Last(t).p = p.p
    BY <1>3, <2>2 DEF H
  <2> QED BY <2>1, <2>2, <2>3, <2>4, Zenon DEF a, b, p
<1> QED BY <1>7, <1>8

\* The pieces of Fallback.
RestoredPieces(s) ==
  [k \in 1..Len(s) |->
     IF k = 1 THEN <<s[1]>> ELSE Restored(Indices(s)[k - 1], Indices(s)[k], s[k])]

\* The path put together of what stands for its chords.
LEMMA RestoredLeads ==
  ASSUME HistoryShape, LengthAssumption, cloud # {}, NEW s \in Seq(Point), s # <<>>, AllFound(s),
         Found(0, s[1], 1), \A k \in 2..Len(s) : Enough(Indices(s)[k - 1], Indices(s)[k])
  PROVE  /\ Carries(s, FlattenSeq(RestoredPieces(s)))
         /\ Leads(FlattenSeq(RestoredPieces(s)), 0, Indices(s)[Len(s)], From(FinalChords))
<1> DEFINE n == Len(s)
           parts == RestoredPieces(s)
<1>2. n \in Nat /\ n >= 1 /\ s[1] \in Point /\ Last(s) = s[n]
  BY DEF Last
<1>3. parts[1] = <<s[1]>> /\ \A k \in 2..n : parts[k] = Restored(Indices(s)[k - 1], Indices(s)[k], s[k])
  <2>1. 1 \in 1..n /\ \A k \in 2..n : k \in 1..n /\ k # 1
    BY <1>2
  <2> QED BY <2>1 DEF RestoredPieces
<1>4. parts = [k \in 1..n |-> parts[k]]
  BY DEF RestoredPieces
<1> HIDE DEF parts
<1>5. \A k \in 2..n : /\ parts[k] \in Seq(Point) /\ parts[k] # <<>> /\ Last(parts[k]).p = s[k].p
                      /\ Leads(parts[k], Indices(s)[k - 1], Indices(s)[k], FinalChords)
  <2> SUFFICES ASSUME NEW k \in 2..n
               PROVE  /\ parts[k] \in Seq(Point) /\ parts[k] # <<>> /\ Last(parts[k]).p = s[k].p
                      /\ Leads(parts[k], Indices(s)[k - 1], Indices(s)[k], FinalChords)
    OBVIOUS
  <2> DEFINE w == parts[k]
  <2>1. w = Restored(Indices(s)[k - 1], Indices(s)[k], s[k]) /\ Enough(Indices(s)[k - 1], Indices(s)[k])
    BY <1>3
  <2> HIDE DEF w
  <2>2. /\ w \in Seq(Point) /\ w # <<>> /\ Last(w).p = s[k].p
        /\ Leads(w, Indices(s)[k - 1], Indices(s)[k], FinalChords)
    BY <2>1, RestoredPiece
  <2> QED BY <2>2 DEF w
<1>6. \A k \in 1..n : parts[k] \in Seq(Point) /\ parts[k] # <<>> /\ Last(parts[k]).p = s[k].p
  <2> SUFFICES ASSUME NEW k \in 1..n PROVE parts[k] \in Seq(Point) /\ parts[k] # <<>> /\ Last(parts[k]).p = s[k].p
    OBVIOUS
  <2>1. CASE k = 1
    <3> DEFINE x == s[1]
    <3>1. parts[k] = <<x>> /\ x \in Point /\ x = s[k]
      BY <1>2, <1>3, <2>1
    <3> HIDE DEF x
    <3>2. <<x>> \in Seq(Point) /\ <<x>> # <<>> /\ Len(<<x>>) = 1 /\ <<x>>[1] = x
      BY <3>1
    <3>3. Last(<<x>>) = x
      BY <3>2 DEF Last
    <3>4. parts[k] = <<x>> /\ s[k] = x
      BY <3>1
    <3> QED BY <3>2, <3>3, <3>4, Zenon
  <2>2. CASE k # 1
    <3>1. k \in 2..n
      BY <1>2, <2>2
    <3> QED BY <3>1, <1>5
  <2> QED BY <2>1, <2>2
<1>7. parts \in Seq(Seq(Point)) /\ Len(parts) = n
  <2>1. parts \in [1..n -> Seq(Point)]
    BY <1>4, <1>6
  <2>2. n \in Nat
    BY <1>2
  <2> HIDE DEF n
  <2> QED BY <2>1, <2>2
<1>8. Pieced(parts, s)
  BY <1>3, <1>6, <1>7 DEF Pieced
<1>9. Carries(s, FlattenSeq(parts))
  BY <1>8, FlattenCarries
<1>10. Leads(FlattenSeq(parts), 0, Indices(s)[n], From(FinalChords))
  BY <1>3, <1>5, <1>7, PiecesLead
<1> QED BY <1>9, <1>10 DEF parts

\* A path from the first sample to the position of the last.
Anchored(s) ==
  s \in Seq(Point) /\ s # <<>> /\ Found(0, s[1], 1) /\ Last(s).p = H(Len(reversed))

\* A path that carries an anchored one is anchored.
LEMMA AnchorsCarried ==
  ASSUME NEW s, NEW t, Anchored(s), Carries(s, t)
  PROVE  Anchored(t)
BY DEF Anchored, Carries

\* A point of an anchored path found in the history is found at its position.
LEMMA AnchoredFound ==
  ASSUME HistoryShape, NEW s, Anchored(s), \A k \in 1..Len(s) : Indices(s)[k] \in Samples
  PROVE  AllFound(s)
<1> SUFFICES ASSUME NEW k \in 1..Len(s) PROVE H(Indices(s)[k]) = s[k].p
  BY DEF AllFound
<1>1. s \in Seq(Point) /\ s # <<>> /\ Found(0, s[1], 1)
  BY DEF Anchored
<1>2. /\ Indices(s) \in [1..Len(s) -> Nat] /\ Indices(s)[1] = 1
      /\ \A i \in 2..Len(s) : Indices(s)[i] = FindIndex(Indices(s)[i - 1], s[i])
  BY <1>1, IndicesUnfold
<1>3. CASE k = 1
  BY <1>1, <1>2, <1>3 DEF Found
<1>4. CASE k # 1
  <2> DEFINE a == Indices(s)[k - 1]
  <2>1. k \in 2..Len(s) /\ k - 1 \in 1..Len(s)
    BY <1>4
  <2>2. a \in Nat /\ Indices(s)[k] = FindIndex(a, s[k]) /\ Indices(s)[k] \in Samples
    BY <1>2, <2>1
  <2> HIDE DEF a
  <2> QED BY <2>2, FindIndexFacts
<1> QED BY <1>3, <1>4

\* A path that leads along chords that are not too long.
LEMMA EnoughChords ==
  ASSUME HistoryShape, NEW s \in Seq(Point), s # <<>>, NEW b, Leads(s, 0, b, From(BoundChords))
  PROVE  AllFound(s) /\ \A k \in 2..Len(s) : Enough(Indices(s)[k - 1], Indices(s)[k])
<1>1. BoundChords \subseteq Samples \X Samples
  BY DEF BoundChords, Pairs
<1>2. AllFound(s) /\ Follows(s, BoundChords)
  BY <1>1, IndicesFound
<1>3. ASSUME NEW k \in 2..Len(s) PROVE Enough(Indices(s)[k - 1], Indices(s)[k])
  <2> DEFINE x == Indices(s)[k - 1]
             z == Indices(s)[k]
  <2>1. k - 1 \in 1..Len(s) /\ k \in 1..Len(s)
    OBVIOUS
  <2>2. x \in Samples /\ z \in Samples
    BY <1>2, <2>1 DEF AllFound
  <2>3. PICK y \in Samples : <<x, y>> \in BoundChords /\ z <= y /\ H(y) = H(z)
    BY <1>2 DEF Follows
  <2>4. x < z
    BY <1>2 DEF Follows
  <2> HIDE DEF x, z
  <2>5. Reaches(x, H(y)) \/ y = x + 1
    BY <2>3 DEF BoundChords
  <2>6. CASE Reaches(x, H(y))
    <3>1. Reaches(x, H(z))
      BY <2>3, <2>6, Zenon
    <3> QED BY <3>1, Zenon DEF Enough, x, z
  <2>7. CASE y = x + 1
    <3>0. x \in Nat /\ z \in Nat /\ y \in Nat
      BY <2>2, HistoryPlaces
    <3>1. z = x + 1
      BY <2>3, <2>4, <2>7, <3>0
    <3>2. Enough(x, z)
      BY <2>2, <3>1, NextReaches DEF Enough
    <3> QED BY <3>2 DEF x, z
  <2> QED BY <2>5, <2>6, <2>7 DEF x, z
<1> QED BY <1>2, <1>3

\* The whole history, thinned, leads along it from its start to its end.
LEMMA LostLeads ==
  ASSUME HistoryShape, LengthAssumption, cloud # {}, NEW s, Anchored(s), NEW t,
         t = <<s[1]>> \o Thinned(1, Len(reversed))
  PROVE  Anchored(t) /\ Leads(t, 0, Len(reversed), From(FinalChords))
<1> DEFINE n == Len(reversed)
           u == Thinned(1, n)
           p == s[1]
<1>1. n \in Samples /\ 1 \in Samples /\ n \in Nat /\ 1 < n
  BY HistoryPlaces DEF HistoryShape
<1>2. /\ u \in Seq(Point) /\ u # <<>> /\ Last(u) = reversed[n]
      /\ Leads(u, 1, n, ThinChords)
  <2> HIDE DEF n
  <2> QED BY <1>1, ThinnedLeads, Zenon
<1>3. p \in Point /\ Found(0, p, 1)
  BY DEF Anchored
<1>4. t = <<p>> \o u
  OBVIOUS
<1> HIDE DEF u, p, n
<1>5. /\ <<p>> \in Seq(Point) /\ <<p>> # <<>> /\ <<p>>[1] = p
      /\ t \in Seq(Point) /\ t # <<>> /\ t[1] = p
  <2>1. p \in Point /\ u \in Seq(Point)
    BY <1>2, <1>3
  <2>2. <<p>> \in Seq(Point) /\ <<p>> # <<>> /\ <<p>>[1] = p /\ Len(<<p>>) = 1
    BY <2>1
  <2> DEFINE v == <<p>>
  <2>3. v \in Seq(Point) /\ v # <<>> /\ v[1] = p /\ t = v \o u
    BY <1>4, <2>2
  <2> HIDE DEF v
  <2>4. v \o u \in Seq(Point) /\ v \o u # <<>> /\ (v \o u)[1] = v[1]
    BY <1>2, <2>3, BrokenConcat
  <2>5. t \in Seq(Point) /\ t # <<>> /\ t[1] = p
    BY <2>3, <2>4, Zenon
  <2> QED BY <2>2, <2>5
<1>6. Last(t) = Last(u)
  <2> DEFINE v == <<p>>
  <2>1. v \in Seq(Point) /\ v # <<>> /\ t = v \o u
    BY <1>4, <1>5
  <2> HIDE DEF v
  <2> QED BY <1>2, <2>1, BrokenConcat
<1>7. Anchored(t)
  <2>1. Last(t).p = H(n)
    BY <1>2, <1>6 DEF H
  <2> QED BY <1>3, <1>5, <2>1, Zenon DEF Anchored, n
<1>8. Leads(<<p>>, 0, 1, From(FinalChords))
  <2>1. <<0, 1>> \in From(FinalChords) /\ 0 \in Nat
    BY DEF From
  <2> QED BY <1>3, <2>1, LeadsOne
<1>9. Leads(u, 1, n, From(FinalChords))
  <2>1. ThinChords \subseteq From(FinalChords)
    BY ThinIsFinal DEF From
  <2> QED BY <1>2, <2>1, LeadsWiden
<1>10. Leads(t, 0, n, From(FinalChords))
  <2> DEFINE v == <<p>>
  <2>1. v \in Seq(Point) /\ t = v \o u /\ Leads(v, 0, 1, From(FinalChords))
    BY <1>4, <1>5, <1>8
  <2> HIDE DEF v
  <2> QED BY <1>2, <1>9, <2>1, LeadsConcat
<1> QED BY <1>7, <1>10 DEF n

\* With a map the path ends up on chords that are allowed, or short, whether its
\* points are found or not; without a gap they are.
LEMMA FallbackLeads ==
  ASSUME HistoryShape, LengthAssumption, cloud # {}, Anchored(points),
         (\E b \in Nat : Leads(points, 0, b, From(BoundChords))) \/ HistoryGap
  PROVE  /\ Anchored(Fallback) /\ \E b \in Nat : Leads(Fallback, 0, b, From(FinalChords))
         /\ HistoryGap \/ Preserves(points, Fallback)
<1>0. points \in Seq(Point) /\ points # <<>> /\ Found(0, points[1], 1)
  BY DEF Anchored
<1> DEFINE n == Len(points)
           met == \A k \in 1..n : Indices(points)[k] \in Samples
<1>1. Fallback = IF met THEN FlattenSeq(RestoredPieces(points)) ELSE <<points[1]>> \o Thinned(1, Len(reversed))
  BY Zenon DEF Fallback, RestoredPieces
<1>2. HistoryGap \/ (AllFound(points) /\ \A k \in 2..n : Enough(Indices(points)[k - 1], Indices(points)[k]))
  BY <1>0, EnoughChords
<1>3. CASE met
  <2>1. AllFound(points)
    BY <1>3, AnchoredFound
  <2>2. \A k \in 2..n : Enough(Indices(points)[k - 1], Indices(points)[k])
    BY <1>2 DEF Enough
  <2>3. /\ Carries(points, Fallback)
        /\ Leads(Fallback, 0, Indices(points)[n], From(FinalChords))
    BY <1>0, <1>1, <1>3, <2>1, <2>2, RestoredLeads
  <2>4. Indices(points)[n] \in Nat
    <3>1. n \in 1..n
      BY <1>0
    <3>2. Indices(points)[n] \in Samples
      BY <1>3, <3>1
    <3> QED BY <3>2, HistoryPlaces
  <2> QED BY <2>3, <2>4, AnchorsCarried DEF Carries
<1>4. CASE ~met
  <2>1. HistoryGap
    BY <1>2, <1>4 DEF AllFound
  <2>2. Fallback = <<points[1]>> \o Thinned(1, Len(reversed))
    BY <1>1, <1>4
  <2>3. Anchored(Fallback) /\ Leads(Fallback, 0, Len(reversed), From(FinalChords))
    BY <2>2, LostLeads
  <2> QED BY <2>1, <2>3, HistoryPlaces
<1> QED BY <1>3, <1>4

-----------------------------------------------------------------------------
(* The stages, one after the other.                                        *)

\* What each stage hands to the next.
AfterSimplify(s) == s \in Seq(Point) /\ Leads(s, 0, Len(reversed), From(EpsilonChords))

\* After preserveVerticalHistory: anchored, every height covered, samples in order.
AfterProtect(s) == Anchored(s) /\ Covers(s) /\ \E b \in Nat : Leads(s, 0, b, From(Pairs))

\* After enforceMaxSegmentLength: bounded chords too, or a gap that shows.
AfterBound(s) ==
  /\ Anchored(s) /\ Covers(s)
  /\ (\E b \in Nat : Leads(s, 0, b, From(BoundChords))) \/ (HistoryGap /\ Broken(s))

\* After restoreUnsafeShortcuts: allowed chords, heights lost only to a gap and a map.
AfterRestore(s) ==
  /\ Anchored(s)
  /\ Covers(s) \/ (HistoryGap /\ cloud # {})
  /\ (\E b \in Nat : Leads(s, 0, b, From(FinalChords))) \/ (cloud = {} /\ HistoryGap /\ Broken(s))

\* All of this is about the history and the map, and stays as they do.
LEMMA HistoryStays ==
  ASSUME reversed' = reversed
  PROVE  /\ Samples' = Samples /\ Pairs' = Pairs /\ Flown' = Flown
         /\ HistoryShape' <=> HistoryShape
         /\ HistoryGap' <=> HistoryGap
         /\ \A i : H(i)' = H(i)
         /\ \A i, p : Reaches(i, p)' <=> Reaches(i, p)
         /\ \A i, a, b, l : OffBy(i, a, b, l)' <=> OffBy(i, a, b, l)
         /\ \A t, a, b, C : Leads(t, a, b, C)' <=> Leads(t, a, b, C)
         /\ \A s : Covers(s)' <=> Covers(s)
         /\ \A s : Anchored(s)' <=> Anchored(s)
<1>1. Samples' = Samples
  BY DEF Samples
<1>2. \A i : H(i)' = H(i)
  BY DEF H
<1>3. Pairs' = Pairs
  BY <1>1, Zenon DEF Pairs
<1>4. Flown' = Flown
  BY <1>1, <1>2, Zenon DEF Flown
<1>5. HistoryShape' <=> HistoryShape
  BY <1>1, Zenon DEF HistoryShape
<1>6. \A i, p : Reaches(i, p)' <=> Reaches(i, p)
  BY <1>2, Zenon DEF Reaches
<1>7. HistoryGap' <=> HistoryGap
  BY <1>2, Zenon DEF HistoryGap, Reaches
<1>8. \A i, a, b, l : OffBy(i, a, b, l)' <=> OffBy(i, a, b, l)
  BY <1>2, Zenon DEF OffBy
<1>9. ASSUME NEW x, NEW s PROVE FindIndex(x, s)' = FindIndex(x, s)
  BY DEF FindIndex, H, Samples
<1>10. ASSUME NEW x, NEW s, NEW y PROVE Found(x, s, y)' <=> Found(x, s, y)
  BY <1>1, <1>2, <1>9, Zenon DEF Found
<1>11. ASSUME NEW t, NEW a, NEW b, NEW C PROVE Leads(t, a, b, C)' <=> Leads(t, a, b, C)
  <2>1. ASSUME NEW at PROVE Along(t, a, b, C, at)' <=> Along(t, a, b, C, at)
    BY <1>10, Zenon DEF Along
  <2> QED BY <2>1, Zenon DEF Leads
<1>12. ASSUME NEW s PROVE Covers(s)' <=> Covers(s)
  BY <1>1, <1>2, Zenon DEF Covers, Height
<1>13. ASSUME NEW s PROVE Anchored(s)' <=> Anchored(s)
  BY <1>2, <1>10, Zenon DEF Anchored
<1> QED BY <1>1, <1>2, <1>3, <1>4, <1>5, <1>6, <1>7, <1>8, <1>11, <1>12, <1>13, Zenon

\* The sets of chords stay.
LEMMA ChordsStay ==
  ASSUME reversed' = reversed
  PROVE  /\ EpsilonChords' = EpsilonChords /\ BoundChords' = BoundChords
         /\ cloud' = cloud => FinalChords' = FinalChords
<1>1. EpsilonChords' = EpsilonChords
  BY HistoryStays, Zenon DEF EpsilonChords
<1>2. BoundChords' = BoundChords
  BY HistoryStays, Zenon DEF BoundChords
<1>3. ASSUME cloud' = cloud PROVE FinalChords' = FinalChords
  <2>1. ASSUME NEW a, NEW b PROVE Clear(H(a), H(b))' <=> Clear(H(a), H(b))
    <3>1. H(a)' = H(a) /\ H(b)' = H(b)
      BY DEF H
    <3> QED BY <1>3, <3>1, Zenon DEF Clear
  <2>2. ASSUME NEW a, NEW b PROVE Trusted(a, b)' <=> Trusted(a, b)
    BY HistoryStays, Zenon DEF Trusted
  <2>3. ASSUME NEW a, NEW b PROVE IsShort(a, b)' <=> IsShort(a, b)
    BY HistoryStays, Zenon DEF IsShort
  <2>4. ASSUME NEW a, NEW b PROVE Allowed(a, b)' <=> Allowed(a, b)
    BY <2>1, <2>2, <2>3, HistoryStays, Zenon DEF Allowed
  <2>5. ASSUME NEW a, NEW b PROVE Enough(a, b)' <=> Enough(a, b)
    BY <1>3, <2>3, HistoryStays, Zenon DEF Enough
  <2> QED BY <1>3, <2>4, <2>5, HistoryStays, Zenon DEF FinalChords
<1> QED BY <1>1, <1>2, <1>3

\* What a stage has handed on stays true of the path.
LEMMA StagesStay ==
  ASSUME reversed' = reversed
  PROVE  /\ \A s : AfterSimplify(s)' <=> AfterSimplify(s)
         /\ \A s : AfterProtect(s)' <=> AfterProtect(s)
         /\ \A s : AfterBound(s)' <=> AfterBound(s)
         /\ cloud' = cloud => \A s : AfterRestore(s)' <=> AfterRestore(s)
<1>1. /\ \A C : From(C)' = From(C)
      /\ \A s : Broken(s)' <=> Broken(s)
  BY DEF From, Broken
<1>2. ASSUME NEW s PROVE AfterSimplify(s)' <=> AfterSimplify(s)
  BY <1>1, HistoryStays, ChordsStay, Zenon DEF AfterSimplify, From
<1>3. ASSUME NEW s PROVE AfterProtect(s)' <=> AfterProtect(s)
  BY <1>1, HistoryStays, ChordsStay, Zenon DEF AfterProtect, From
<1>4. ASSUME NEW s PROVE AfterBound(s)' <=> AfterBound(s)
  BY <1>1, HistoryStays, ChordsStay, Zenon DEF AfterBound, From, Broken
<1>5. ASSUME cloud' = cloud, NEW s PROVE AfterRestore(s)' <=> AfterRestore(s)
  BY <1>1, <1>5, HistoryStays, ChordsStay, Zenon DEF AfterRestore, From, Broken
<1> QED BY <1>2, <1>3, <1>4, <1>5, Zenon

\* A path that leads to the last position is anchored.
LEMMA LeadsAnchored ==
  ASSUME HistoryShape, NEW s \in Seq(Point), NEW b \in Nat, b # 0, NEW C, C \subseteq Pairs,
         Leads(s, 0, b, From(C)), H(b) = H(Len(reversed))
  PROVE  Anchored(s)
<1>1. s # <<>>
  BY LeadsSome
<1>2. C \subseteq Samples \X Samples
  BY DEF Pairs
<1>3. Found(0, s[1], 1) /\ H(b) = s[Len(s)].p
  BY <1>1, <1>2, IndicesFound
<1> QED BY <1>1, <1>3 DEF Anchored, Last

\* What each stage does, given what it is handed: simplify,
LEMMA SimplifyDone ==
  ASSUME HistoryShape, LengthAssumption
  PROVE  AfterSimplify(Picked(reversed, Kept(1, Len(reversed))))
BY SimplifyLeads, Zenon DEF AfterSimplify

\* preserveVerticalHistory,
LEMMA ProtectDone ==
  ASSUME HistoryShape, LengthAssumption, AfterSimplify(points)
  PROVE  AfterProtect(Protected)
<1> DEFINE N == Len(reversed)
           e == Indices(points)[Len(points)]
<1>1. N \in Nat /\ N # 0 /\ N >= 2 /\ N \in Samples
  BY HistoryPlaces DEF HistoryShape
<1>2. points \in Seq(Point) /\ Leads(points, 0, N, From(EpsilonChords)) /\ points # <<>>
  <2>1. points \in Seq(Point) /\ Leads(points, 0, N, From(EpsilonChords))
    BY DEF AfterSimplify
  <2> QED BY <1>1, <2>1, LeadsSome
<1>3. EpsilonChords \subseteq Samples \X Samples
  BY DEF EpsilonChords, Pairs
<1>4. /\ AllFound(points) /\ Found(0, points[1], 1) /\ H(N) = points[Len(points)].p
      /\ e = N \/ e = N - 1
  BY <1>2, <1>3, IndicesFound
<1>5. e \in Samples /\ H(e) = H(N)
  <2>1. Len(points) \in 1..Len(points)
    BY <1>2
  <2> QED BY <1>4, <2>1 DEF AllFound
<1>6. EndsAtHome(points)
  BY <1>4, <1>5 DEF EndsAtHome
<1>7. /\ Protected = FlattenSeq(Pieces(points)) /\ Protected \in Seq(Point)
      /\ Leads(Protected, 0, e, From(Pairs))
  BY <1>2, <1>4, ProtectedLeads
<1>8. Covers(Protected)
  BY <1>2, <1>4, <1>6, <1>7, PiecesCover
<1>9. e \in Nat /\ e # 0
  BY <1>5, HistoryPlaces
<1> HIDE DEF e
<1>10. Anchored(Protected)
  BY <1>5, <1>7, <1>9, LeadsAnchored
<1> QED BY <1>7, <1>8, <1>9, <1>10 DEF AfterProtect

\* enforceMaxSegmentLength,
LEMMA BoundDone ==
  ASSUME HistoryShape, LengthAssumption, AfterProtect(points)
  PROVE  AfterBound(Bounded)
<1>1. points \in Seq(Point) /\ points # <<>> /\ Anchored(points) /\ Covers(points)
  BY DEF AfterProtect, Anchored
<1>2. PICK b \in Nat : Leads(points, 0, b, From(Pairs))
  BY DEF AfterProtect
<1>3. AllFound(points) /\ Found(0, points[1], 1)
  <2>1. Pairs \subseteq Samples \X Samples
    BY DEF Pairs
  <2> QED BY <1>1, <1>2, <2>1, IndicesFound
<1>4. /\ Carries(points, Bounded)
      /\ \/ Leads(Bounded, 0, Indices(points)[Len(points)], From(BoundChords))
         \/ HistoryGap /\ Broken(Bounded)
  BY <1>1, <1>3, BoundedFacts
<1>5. Anchored(Bounded)
  BY <1>1, <1>4, AnchorsCarried
<1>6. Covers(Bounded)
  <2>1. Preserves(points, Bounded)
    BY <1>4 DEF Carries
  <2> QED BY <1>1, <2>1, CoversKept
<1>7. Indices(points)[Len(points)] \in Nat
  <2>1. Len(points) \in 1..Len(points)
    BY <1>1
  <2> QED BY <1>3, <2>1, HistoryPlaces DEF AllFound
<1> QED BY <1>4, <1>5, <1>6, <1>7 DEF AfterBound

\* and restoreUnsafeShortcuts.
LEMMA RestoreDone ==
  ASSUME HistoryShape, LengthAssumption, AfterBound(points)
  PROVE  AfterRestore(IF cloud = {} THEN points ELSE Fallback)
<1>1. Anchored(points) /\ Covers(points)
  BY DEF AfterBound
<1>2. (\E b \in Nat : Leads(points, 0, b, From(BoundChords))) \/ (HistoryGap /\ Broken(points))
  BY DEF AfterBound
<1>3. CASE cloud = {}
  <2>1. BoundChords \subseteq FinalChords
    <3> SUFFICES ASSUME NEW c \in BoundChords PROVE c \in FinalChords
      OBVIOUS
    <3>1. /\ c \in Pairs /\ c[1] \in Samples /\ c[2] \in Samples /\ c[1] < c[2]
          /\ Reaches(c[1], H(c[2])) \/ c[2] = c[1] + 1
      BY DEF BoundChords, Pairs
    <3>2. Enough(c[1], c[2])
      BY <3>1, NextReaches DEF Enough
    <3> QED BY <1>3, <3>1, <3>2 DEF FinalChords
  <2>2. From(BoundChords) \subseteq From(FinalChords)
    BY <2>1 DEF From
  <2>3. (\E b \in Nat : Leads(points, 0, b, From(FinalChords))) \/ (HistoryGap /\ Broken(points))
    BY <1>2, <2>2, LeadsWiden
  <2>4. AfterRestore(points)
    BY <1>1, <1>3, <2>3 DEF AfterRestore
  <2> QED BY <1>3, <2>4
<1>4. CASE cloud # {}
  <2>1. /\ Anchored(Fallback) /\ \E b \in Nat : Leads(Fallback, 0, b, From(FinalChords))
        /\ HistoryGap \/ Preserves(points, Fallback)
    BY <1>1, <1>2, <1>4, FallbackLeads
  <2>2. HistoryGap \/ Covers(Fallback)
    BY <1>1, <2>1, CoversKept
  <2>3. AfterRestore(Fallback)
    BY <1>4, <2>1, <2>2 DEF AfterRestore
  <2> QED BY <1>4, <2>3
<1> QED BY <1>3, <1>4

\* The history, from where the return was asked for to the handoff above Home.
HistoryKnown ==
  /\ HistoryShape
  /\ H(1) = Last(flown).p /\ H(Len(reversed)) = AtHeight(Takeoff, Takeoff[3] + HandoffHeight)

\* The stages, in their order.
Stages == {"recording", "simplify", "protect", "bound", "restore", "finish", "done"}

\* The inductive invariant: what was recorded, the history made of it, and the
\* path as the last stage has to leave it.
PlanInv ==
  /\ stage \in Stages /\ cloud \in Clouds
  /\ Recorded
  /\ stage # "done" => status = "INVALID_INPUT"
  /\ stage = "done" => status \in {"TOO_FEW_POINTS", "SUCCESS", "TRAJECTORY_DISCONTINUITY"}
  /\ stage # "recording" /\ status # "TOO_FEW_POINTS" => HistoryKnown
  /\ stage = "protect" => AfterSimplify(points)
  /\ stage = "bound" => AfterProtect(points)
  /\ stage = "restore" => AfterBound(points)
  /\ stage = "finish" => AfterRestore(points)
  /\ stage = "done" /\ status # "TOO_FEW_POINTS" =>
       AfterRestore(points) /\ (status = "TRAJECTORY_DISCONTINUITY" <=> Broken(points))

\* At the start there is a flight of one sample, and no history.
LEMMA PlanInitInv ==
  PlanInit => PlanInv
<1> SUFFICES ASSUME PlanInit PROVE PlanInv
  OBVIOUS
<1> USE DEF PlanInit
<1> DEFINE x == Sample(1, Takeoff)
<1>1. x \in Point /\ x.t = 1
  BY SpaceAssumption DEF Sample, Point, Place
<1>2. flown = <<x>>
  OBVIOUS
<1>3. Recorded
  <2>1. x = Sample(1, Takeoff)
    OBVIOUS
  <2> HIDE DEF x
  <2> QED BY <1>1, <1>2, <2>1 DEF Recorded
<1> QED BY <1>3, Zenon DEF PlanInv, Stages

\* PlanInv, action by action.  A recorded sample has the next number.
LEMMA RecordInv ==
  ASSUME PlanInv, NEW p \in Space, Record(p)
  PROVE  PlanInv'
<1> DEFINE n == Len(flown)
           x == Sample(n + 1, p)
<1>1. /\ flown \in Seq(Point) /\ flown # <<>> /\ flown[1] = Sample(1, Takeoff)
      /\ \A i \in 1..n : flown[i].t = i
  BY DEF PlanInv, Recorded
<1>2. n \in Nat /\ n >= 1
  BY <1>1
<1>3. x \in Point /\ x.t = n + 1
  BY <1>2, SpaceAssumption DEF Sample, Point, Place
<1>4. flown' = Append(flown, x)
  BY DEF Record
<1> HIDE DEF x
<1>5. /\ flown' \in Seq(Point) /\ Len(flown') = n + 1 /\ flown'[n + 1] = x
      /\ \A i \in 1..n : flown'[i] = flown[i]
  BY <1>1, <1>3, <1>4
<1>6. flown' # <<>> /\ flown'[1] = Sample(1, Takeoff)
  BY <1>1, <1>2, <1>5
<1>7. \A i \in 1..Len(flown') : flown'[i].t = i
  <2> SUFFICES ASSUME NEW i \in 1..(n + 1) PROVE flown'[i].t = i
    BY <1>5
  <2>1. i \in 1..n \/ i = n + 1
    BY <1>2
  <2> QED BY <1>1, <1>3, <1>5, <2>1
<1>8. Recorded'
  BY <1>5, <1>6, <1>7 DEF Recorded
<1>9. /\ stage = "recording" /\ stage' = stage /\ status' = status /\ cloud' = cloud
  BY DEF Record
<1>10. stage' = "recording" /\ status' = "INVALID_INPUT" /\ cloud' \in Clouds
  BY <1>9 DEF PlanInv
<1> QED BY <1>8, <1>10, Zenon DEF PlanInv, Stages

\* The flight stays recorded, and the history known, as long as they stay.
LEMMA RecordedStays ==
  ASSUME Recorded, flown' = flown
  PROVE  Recorded'
BY Zenon DEF Recorded

\* The history is known as long as it and the flight stay.
LEMMA KnownStays ==
  ASSUME HistoryKnown, flown' = flown, reversed' = reversed
  PROVE  HistoryKnown'
<1>1. HistoryShape' /\ H(1)' = H(1) /\ H(Len(reversed))' = H(Len(reversed)')
  BY HistoryStays DEF HistoryKnown, H
<1>2. H(Len(reversed))' = H(Len(reversed))
  BY DEF H
<1> QED BY <1>1, <1>2, Zenon DEF HistoryKnown

\* A flight too short has no history, and needs none.
LEMMA PreprocessFailsInv ==
  ASSUME PlanInv, PreprocessFails
  PROVE  PlanInv'
<1>1. /\ stage' = "done" /\ status' = "TOO_FEW_POINTS" /\ flown' = flown /\ cloud' = cloud
  BY DEF PreprocessFails
<1>2. Recorded' /\ cloud' \in Clouds
  BY <1>1, RecordedStays DEF PlanInv
<1> QED BY <1>1, <1>2, Zenon DEF PlanInv, Stages

\* The history that is built has the shape the stages rely on.
LEMMA BuildInv ==
  ASSUME PlanInv, BuildReturnHistory
  PROVE  PlanInv'
<1>1. /\ stage = "recording" /\ stage' = "simplify" /\ flown' = flown /\ cloud' = cloud /\ status' = status
      /\ Len(Preprocessed) >= 2 /\ reversed' = ReturnHistory(Preprocessed)
  BY DEF BuildReturnHistory
<1>2. Recorded' /\ cloud' \in Clouds /\ Recorded /\ status' = "INVALID_INPUT"
  BY <1>1, RecordedStays DEF PlanInv
<1>3. Takeoff \in Place
  BY SpaceAssumption DEF Place
<1> DEFINE r == ReturnHistory(Preprocessed)
<1>4. /\ r \in Seq(Point) /\ Len(r) >= 2
      /\ r[1].p = Last(flown).p
      /\ Last(r).p = AtHeight(Takeoff, Takeoff[3] + HandoffHeight)
      /\ \A i, j \in 1..Len(r) : i < j /\ r[i] = r[j] => i = Len(r) - 1 /\ j = Len(r)
  BY <1>1, <1>2, <1>3, LengthAssumption, HistoryFacts
<1>5. reversed' = r
  BY <1>1
<1> HIDE DEF r
<1>6. HistoryShape'
  BY <1>4, <1>5 DEF HistoryShape, Samples
<1>7. HistoryKnown'
  BY <1>1, <1>4, <1>5, <1>6 DEF HistoryKnown, H, Last
<1> QED BY <1>1, <1>2, <1>7, Zenon DEF PlanInv, Stages

\* The stages after the history is built leave all else as it is.
LEMMA LaterStages ==
  ASSUME PlanInv, stage # "recording", stage # "done",
         UNCHANGED <<flown, cloud, reversed, status>>
  PROVE  /\ HistoryShape /\ HistoryKnown' /\ Recorded' /\ cloud' \in Clouds /\ status' = "INVALID_INPUT"
         /\ reversed' = reversed /\ cloud' = cloud
<1>1. HistoryKnown /\ Recorded /\ cloud \in Clouds /\ status = "INVALID_INPUT"
  BY DEF PlanInv
<1>2. flown' = flown /\ cloud' = cloud /\ reversed' = reversed /\ status' = status
  OBVIOUS
<1>3. HistoryKnown' /\ Recorded'
  BY <1>1, <1>2, KnownStays, RecordedStays
<1> QED BY <1>1, <1>2, <1>3 DEF HistoryKnown

\* Simplification hands on what preserveVerticalHistory needs.
LEMMA SimplifyInv ==
  ASSUME PlanInv, Simplify
  PROVE  PlanInv'
<1>1. /\ stage = "simplify" /\ stage' = "protect" /\ UNCHANGED <<flown, cloud, reversed, status>>
      /\ points' = Picked(reversed, Kept(1, Len(reversed)))
  BY DEF Simplify
<1>2. /\ HistoryShape /\ HistoryKnown' /\ Recorded' /\ cloud' \in Clouds /\ status' = "INVALID_INPUT"
      /\ reversed' = reversed
  BY <1>1, LaterStages
<1> DEFINE t == Picked(reversed, Kept(1, Len(reversed)))
<1>3. AfterSimplify(t) /\ points' = t
  BY <1>1, <1>2, LengthAssumption, SimplifyDone
<1> HIDE DEF t
<1>4. AfterSimplify(points)'
  BY <1>2, <1>3, StagesStay
<1> QED BY <1>1, <1>2, <1>4, Zenon DEF PlanInv, Stages

\* preserveVerticalHistory hands on what enforceMaxSegmentLength needs.
LEMMA ProtectInv ==
  ASSUME PlanInv, PreserveVertical
  PROVE  PlanInv'
<1>1. /\ stage = "protect" /\ stage' = "bound" /\ UNCHANGED <<flown, cloud, reversed, status>>
      /\ points' = Protected
  BY DEF PreserveVertical
<1>2. /\ HistoryShape /\ HistoryKnown' /\ Recorded' /\ cloud' \in Clouds /\ status' = "INVALID_INPUT"
      /\ reversed' = reversed
  BY <1>1, LaterStages
<1>3. AfterProtect(Protected)
  BY <1>1, <1>2, LengthAssumption, ProtectDone DEF PlanInv
<1>4. AfterProtect(points)'
  BY <1>1, <1>2, <1>3, StagesStay
<1> QED BY <1>1, <1>2, <1>4, Zenon DEF PlanInv, Stages

\* enforceMaxSegmentLength hands on what restoreUnsafeShortcuts needs.
LEMMA BoundInv ==
  ASSUME PlanInv, EnforceMaxSegmentLength
  PROVE  PlanInv'
<1>1. /\ stage = "bound" /\ stage' = "restore" /\ UNCHANGED <<flown, cloud, reversed, status>>
      /\ points' = Bounded
  BY DEF EnforceMaxSegmentLength
<1>2. /\ HistoryShape /\ HistoryKnown' /\ Recorded' /\ cloud' \in Clouds /\ status' = "INVALID_INPUT"
      /\ reversed' = reversed
  BY <1>1, LaterStages
<1>3. AfterBound(Bounded)
  BY <1>1, <1>2, LengthAssumption, BoundDone DEF PlanInv
<1>4. AfterBound(points)'
  BY <1>1, <1>2, <1>3, StagesStay
<1> QED BY <1>1, <1>2, <1>4, Zenon DEF PlanInv, Stages

\* restoreUnsafeShortcuts hands on what is left to be checked.
LEMMA RestoreInv ==
  ASSUME PlanInv, RestoreUnsafeShortcuts
  PROVE  PlanInv'
<1> DEFINE t == IF cloud = {} THEN points ELSE Fallback
<1>1. /\ stage = "restore" /\ stage' = "finish" /\ UNCHANGED <<flown, cloud, reversed, status>>
      /\ points' = t
  BY DEF RestoreUnsafeShortcuts
<1>2. /\ HistoryShape /\ HistoryKnown' /\ Recorded' /\ cloud' \in Clouds /\ status' = "INVALID_INPUT"
      /\ reversed' = reversed /\ cloud' = cloud
  BY <1>1, LaterStages
<1>3. AfterRestore(t)
  BY <1>1, <1>2, LengthAssumption, RestoreDone DEF PlanInv
<1> HIDE DEF t
<1>4. AfterRestore(points)'
  BY <1>1, <1>2, <1>3, StagesStay
<1> QED BY <1>1, <1>2, <1>4, Zenon DEF PlanInv, Stages

\* The end fails for a path exactly if its points are too far apart.
LEMMA FinishInv ==
  ASSUME PlanInv, Finish
  PROVE  PlanInv'
<1>1. /\ stage = "finish" /\ stage' = "done" /\ UNCHANGED <<flown, cloud, reversed, points>>
      /\ status' = IF Discontinuous THEN "TRAJECTORY_DISCONTINUITY" ELSE "SUCCESS"
  BY DEF Finish
<1>2. /\ HistoryKnown /\ Recorded /\ cloud \in Clouds /\ AfterRestore(points)
  BY <1>1 DEF PlanInv
<1>3. flown' = flown /\ cloud' = cloud /\ reversed' = reversed /\ points' = points
  BY <1>1
<1>4. HistoryKnown' /\ Recorded' /\ cloud' \in Clouds
  BY <1>2, <1>3, KnownStays, RecordedStays
<1>5. AfterRestore(points)'
  <2> DEFINE t == points
  <2>1. AfterRestore(t) /\ points' = t
    BY <1>2, <1>3
  <2> HIDE DEF t
  <2> QED BY <1>3, <2>1, StagesStay
<1>6. Broken(points)' <=> Broken(points)
  BY <1>3, Zenon DEF Broken
<1>7. Broken(points) <=> Discontinuous
  BY Zenon DEF Broken, Discontinuous
<1>8. /\ status' = "TRAJECTORY_DISCONTINUITY" <=> Broken(points)'
      /\ status' \in {"TOO_FEW_POINTS", "SUCCESS", "TRAJECTORY_DISCONTINUITY"}
  BY <1>1, <1>6, <1>7
<1> QED BY <1>1, <1>4, <1>5, <1>8, Zenon DEF PlanInv, Stages

\* Nothing is lost when nothing happens.
LEMMA PlanStutterInv ==
  ASSUME PlanInv, UNCHANGED planVars
  PROVE  PlanInv'
<1>1. /\ stage' = stage /\ flown' = flown /\ cloud' = cloud /\ reversed' = reversed /\ points' = points
      /\ status' = status
  BY DEF planVars
<1>2. Recorded' /\ cloud' \in Clouds /\ (HistoryKnown => HistoryKnown')
  BY <1>1, KnownStays, RecordedStays DEF PlanInv
<1>3. /\ AfterSimplify(points) => AfterSimplify(points)'
      /\ AfterProtect(points) => AfterProtect(points)'
      /\ AfterBound(points) => AfterBound(points)'
      /\ AfterRestore(points) => AfterRestore(points)'
      /\ Broken(points) <=> Broken(points)'
  <2> DEFINE t == points
  <2>1. points' = t
    BY <1>1
  <2>2. Broken(points) <=> Broken(points)'
    BY <1>1, Zenon DEF Broken
  <2>3. /\ AfterSimplify(t) => AfterSimplify(points)'
        /\ AfterProtect(t) => AfterProtect(points)'
        /\ AfterBound(t) => AfterBound(points)'
        /\ AfterRestore(t) => AfterRestore(points)'
    <3> HIDE DEF t
    <3> QED BY <1>1, <2>1, StagesStay
  <2> QED BY <2>2, <2>3
<1> QED BY <1>1, <1>2, <1>3, Zenon DEF PlanInv

\* Every stage hands on what the next needs, whatever the constants.
THEOREM PlanInvariant == PlanSpec => []PlanInv
<1>1. PlanInit => PlanInv
  BY PlanInitInv
<1>2. PlanInv /\ [PlanNext]_planVars => PlanInv'
  <2> SUFFICES ASSUME PlanInv, [PlanNext]_planVars PROVE PlanInv'
    OBVIOUS
  <2>1. CASE \E p \in Space : Record(p)
    BY <2>1, RecordInv
  <2>2. CASE PreprocessFails
    BY <2>2, PreprocessFailsInv
  <2>3. CASE BuildReturnHistory
    BY <2>3, BuildInv
  <2>4. CASE Simplify
    BY <2>4, SimplifyInv
  <2>5. CASE PreserveVertical
    BY <2>5, ProtectInv
  <2>6. CASE EnforceMaxSegmentLength
    BY <2>6, BoundInv
  <2>7. CASE RestoreUnsafeShortcuts
    BY <2>7, RestoreInv
  <2>8. CASE Finish
    BY <2>8, FinishInv
  <2>9. CASE UNCHANGED planVars
    BY <2>9, PlanStutterInv
  <2> QED BY <2>1, <2>2, <2>3, <2>4, <2>5, <2>6, <2>7, <2>8, <2>9 DEF PlanNext
<1> QED BY <1>1, <1>2, PTL DEF PlanSpec

-----------------------------------------------------------------------------
(* What the properties ask of the path.                                    *)

\* The length flown never falls.
LEMMA FlownRises ==
  ASSUME HistoryShape, NEW a \in Samples, NEW b \in Samples, a <= b
  PROVE  Flown[a] \in Nat /\ Flown[b] \in Nat /\ Flown[a] <= Flown[b]
<1> DEFINE T == {k \in a..b : Flown[a] <= Flown[k]}
<1>1. a \in Nat /\ b \in Nat /\ a..b \subseteq Samples /\ (a + 1)..b \subseteq 2..Len(reversed)
      /\ a \in a..b /\ b \in a..b
  BY HistoryPlaces
<1>2. Flown \in [Samples -> Nat]
  BY FlownUnfolds
<1>3. \A k \in a..b : Flown[k] \in Nat
  BY <1>1, <1>2
<1>4. a \in T
  BY <1>1, <1>3
<1>5. ASSUME NEW k \in (a + 1)..b, k - 1 \in T PROVE k \in T
  <2>1. k \in a..b /\ k - 1 \in a..b /\ k \in 2..Len(reversed)
    BY <1>1
  <2>2. Flown[k] = Flown[k - 1] + Move(k) /\ Move(k) \in Nat
    BY <2>1, FlownUnfolds, MoveType
  <2>3. Flown[k] \in Nat /\ Flown[k - 1] \in Nat /\ Flown[a] \in Nat /\ Flown[a] <= Flown[k - 1]
    BY <1>1, <1>3, <1>5, <2>1
  <2>4. Flown[a] <= Flown[k]
    <3> DEFINE x == Flown[a]
               y == Flown[k - 1]
               z == Flown[k]
               m == Move(k)
    <3>1. x \in Nat /\ y \in Nat /\ z \in Nat /\ m \in Nat /\ x <= y /\ z = y + m
      BY <2>2, <2>3
    <3> HIDE DEF x, y, z, m
    <3>2. x <= z
      BY <3>1
    <3> QED BY <3>2 DEF x, z
  <2> QED BY <2>1, <2>4
<1>6. b \in T
  <2> HIDE DEF T
  <2>1. \A k \in (a + 1)..b : k - 1 \in T => k \in T
    BY <1>5
  <2>2. a..b \subseteq T
    BY <1>1, <1>4, <2>1, RangeInduction, Zenon
  <2> QED BY <1>1, <2>2
<1> QED BY <1>1, <1>3, <1>6

\* A shorter chord from the same sample is short if the longer is.
LEMMA ShortWithin ==
  ASSUME HistoryShape, LengthAssumption, NEW a \in Samples, NEW b \in Samples, NEW c \in Samples,
         a < b, b <= c, IsShort(a, c)
  PROVE  IsShort(a, b)
<1>1. a \in Nat /\ b \in Nat /\ c \in Nat /\ b - 1 \in Samples /\ c - 1 \in Samples /\ b - 1 <= c - 1
  BY HistoryPlaces, SMTT(20)
<1>2. Flown[b - 1] \in Nat /\ Flown[c - 1] \in Nat /\ Flown[b - 1] <= Flown[c - 1]
  BY <1>1, FlownRises
<1>3. Flown[a] \in Nat
  BY FlownRises, <1>1
<1> DEFINE x == Flown[b - 1]
           y == Flown[c - 1]
           z == Flown[a]
           f == 100 * FallbackSpacing
<1>4. x \in Nat /\ y \in Nat /\ z \in Nat /\ f \in Nat /\ x <= y /\ y - z < f
  BY <1>2, <1>3 DEF IsShort, LengthAssumption
<1> HIDE DEF x, y, z, f
<1>5. x - z < f
  BY <1>4
<1> QED BY <1>5 DEF IsShort, x, z, f

\* Squares are not negative.
LEMMA Square ==
  ASSUME NEW x \in Int
  PROVE  x * x >= 0 /\ x * x \in Int
<1>1. CASE x >= 0
  BY <1>1
<1>2. CASE x < 0
  BY <1>2
<1> QED BY <1>1, <1>2

\* Along one axis, 20 times the way from o to a k-th of the way from p to q.
LEMMA Axis ==
  ASSUME NEW k \in Int, NEW p \in Int, NEW q \in Int, NEW o \in Int
  PROVE  (((20 - k) * p - (-k) * q) - 20 * o) * (((20 - k) * p - (-k) * q) - 20 * o)
           = k * k * ((q - p) * (q - p)) - 40 * k * ((o - p) * (q - p)) + 400 * ((o - p) * (o - p))
OBVIOUS

\* The three cases of a distance to a segment, in twentieths of it.
LEMMA BeforeStart ==
  ASSUME NEW k \in 0..20, NEW l \in Nat, NEW s \in Int, NEW d \in Nat, s <= 0
  PROVE  k * k * l - 40 * k * s + 400 * d >= 400 * d
<1>1. k * k \in Nat /\ k * k * l \in Nat
  OBVIOUS
<1>2. 40 * k * s <= 0
  <2>1. k * s <= 0
    BY Scale
  <2> QED BY <2>1
<1> QED BY <1>1, <1>2

\* The part of the segment behind its end,
LEMMA BehindEnd ==
  ASSUME NEW k \in 0..20, NEW l \in Nat, NEW s \in Int, NEW d \in Nat, s >= l
  PROVE  k * k * l - 40 * k * s + 400 * d >= 400 * (d - 2 * s + l)
<1>1. 40 * s - (20 + k) * l >= 0
  <2>1. (20 + k) * l <= 40 * l
    <3>1. (20 - k) * l >= 0
      OBVIOUS
    <3> QED BY <3>1
  <2> QED BY <2>1
<1>2. (20 - k) * (40 * s - (20 + k) * l) >= 0
  <2> DEFINE u == 20 - k
             v == 40 * s - (20 + k) * l
  <2>1. u \in Nat /\ v \in Nat
    BY <1>1
  <2> HIDE DEF u, v
  <2>2. u * v >= 0
    BY <2>1
  <2> QED BY <2>2 DEF u, v
<1>3. k * k * l - 40 * k * s + 400 * d - 400 * (d - 2 * s + l) = (20 - k) * (40 * s - (20 + k) * l)
  OBVIOUS
<1> QED BY <1>2, <1>3

\* and the one beside the place.
LEMMA Beside ==
  ASSUME NEW k \in 0..20, NEW l \in Nat, NEW s \in Int, NEW d \in Nat
  PROVE  l * (k * k * l - 40 * k * s + 400 * d) >= 400 * (d * l - s * s)
<1>1. (k * l - 20 * s) * (k * l - 20 * s) >= 0
  <2> DEFINE x == k * l - 20 * s
  <2>1. x \in Int
    OBVIOUS
  <2> HIDE DEF x
  <2>2. x * x >= 0
    BY <2>1, Square
  <2> QED BY <2>2 DEF x
<1>2. l * (k * k * l - 40 * k * s + 400 * d) - 400 * (d * l - s * s) = (k * l - 20 * s) * (k * l - 20 * s)
  OBVIOUS
<1> QED BY <1>1, <1>2

\* Where the check looks at the way from p to q, in twentieths of the grid.
Twentieth(k, p, q) == Diff(Times(20 - k, p), Times(-k, q))

\* How far o is from there, and from q, made of inner products.
Spans(k, p, q, o) ==
  /\ Dist(p, q) \in Nat /\ Dot(Diff(o, p), Diff(q, p)) \in Int /\ Dist(o, p) \in Nat
  /\ Dist(Twentieth(k, p, q), Times(20, o))
       = k * k * Dist(p, q) - 40 * k * Dot(Diff(o, p), Diff(q, p)) + 400 * Dist(o, p)
  /\ Dist(o, q) = Dist(o, p) - 2 * Dot(Diff(o, p), Diff(q, p)) + Dist(p, q)

\* These are the distances, for all places.
LEMMA TwentiethDist ==
  ASSUME NEW k \in 0..20, NEW p \in Place, NEW q \in Place, NEW o \in Place
  PROVE  Spans(k, p, q, o)
<1> DEFINE p1 == p[1]
           p2 == p[2]
           p3 == p[3]
           q1 == q[1]
           q2 == q[2]
           q3 == q[3]
           o1 == o[1]
           o2 == o[2]
           o3 == o[3]
<1>1. /\ p1 \in Int /\ p2 \in Int /\ p3 \in Int /\ q1 \in Int /\ q2 \in Int /\ q3 \in Int
      /\ o1 \in Int /\ o2 \in Int /\ o3 \in Int
  BY DEF Place
<1>2. Dist(p, q) \in Nat /\ Dot(Diff(o, p), Diff(q, p)) \in Int /\ Dist(o, p) \in Nat /\ Dist(p, q) = Dist(q, p)
  BY DotType
<1>3. Dist(q, p) = (q1 - p1) * (q1 - p1) + (q2 - p2) * (q2 - p2) + (q3 - p3) * (q3 - p3)
  BY Zenon DEF Dist, Dot, Diff
<1>4. Dot(Diff(o, p), Diff(q, p)) = (o1 - p1) * (q1 - p1) + (o2 - p2) * (q2 - p2) + (o3 - p3) * (q3 - p3)
  BY Zenon DEF Dot, Diff
<1>5. Dist(o, p) = (o1 - p1) * (o1 - p1) + (o2 - p2) * (o2 - p2) + (o3 - p3) * (o3 - p3)
  BY Zenon DEF Dist, Dot, Diff
<1>6. Dist(o, q) = (o1 - q1) * (o1 - q1) + (o2 - q2) * (o2 - q2) + (o3 - q3) * (o3 - q3)
  BY Zenon DEF Dist, Dot, Diff
<1> DEFINE A(x, y, z) == ((20 - k) * x - (-k) * y) - 20 * z
<1>7. Dist(Twentieth(k, p, q), Times(20, o))
        = A(p1, q1, o1) * A(p1, q1, o1) + A(p2, q2, o2) * A(p2, q2, o2) + A(p3, q3, o3) * A(p3, q3, o3)
  BY Zenon DEF Dist, Dot, Diff, Times, Twentieth
<1>8. ASSUME NEW x \in Int, NEW y \in Int, NEW z \in Int
      PROVE  A(x, y, z) * A(x, y, z)
               = k * k * ((y - x) * (y - x)) - 40 * k * ((z - x) * (y - x)) + 400 * ((z - x) * (z - x))
  BY Axis
<1> DEFINE X(x, y, z) == A(x, y, z) * A(x, y, z)
           L(x, y) == (y - x) * (y - x)
           M(x, y, z) == (z - x) * (y - x)
<1>9. /\ X(p1, q1, o1) = k * k * L(p1, q1) - 40 * k * M(p1, q1, o1) + 400 * L(p1, o1)
      /\ X(p2, q2, o2) = k * k * L(p2, q2) - 40 * k * M(p2, q2, o2) + 400 * L(p2, o2)
      /\ X(p3, q3, o3) = k * k * L(p3, q3) - 40 * k * M(p3, q3, o3) + 400 * L(p3, o3)
  <2>1. \A u, v, w \in Int : X(u, v, w) = k * k * L(u, v) - 40 * k * M(u, v, w) + 400 * L(u, w)
    BY <1>8, Zenon
  <2> HIDE DEF A, p1, p2, p3, q1, q2, q3, o1, o2, o3, X, L, M
  <2> QED BY <1>1, <2>1
<1> HIDE DEF A, p1, p2, p3, q1, q2, q3, o1, o2, o3
<1>10. \A x, y, z \in Int : L(x, y) \in Int /\ M(x, y, z) \in Int
  OBVIOUS
<1> DEFINE l1 == L(p1, q1)
           l2 == L(p2, q2)
           l3 == L(p3, q3)
           m1 == M(p1, q1, o1)
           m2 == M(p2, q2, o2)
           m3 == M(p3, q3, o3)
           d1 == L(p1, o1)
           d2 == L(p2, o2)
           d3 == L(p3, o3)
<1>11. /\ l1 \in Int /\ l2 \in Int /\ l3 \in Int /\ m1 \in Int /\ m2 \in Int /\ m3 \in Int
       /\ d1 \in Int /\ d2 \in Int /\ d3 \in Int
  BY <1>1, <1>10
<1>12. Dist(p, q) = l1 + l2 + l3 /\ Dot(Diff(o, p), Diff(q, p)) = m1 + m2 + m3 /\ Dist(o, p) = d1 + d2 + d3
  BY <1>2, <1>3, <1>4, <1>5
<1>13. Dist(Twentieth(k, p, q), Times(20, o))
         = (k * k * l1 - 40 * k * m1 + 400 * d1) + (k * k * l2 - 40 * k * m2 + 400 * d2)
             + (k * k * l3 - 40 * k * m3 + 400 * d3)
  BY <1>7, <1>9
<1>14. Dist(o, q) = (d1 + d2 + d3) - 2 * (m1 + m2 + m3) + (l1 + l2 + l3)
  BY <1>1, <1>6
<1> HIDE DEF l1, l2, l3, m1, m2, m3, d1, d2, d3
<1>15. (k * k * l1 - 40 * k * m1 + 400 * d1) + (k * k * l2 - 40 * k * m2 + 400 * d2)
             + (k * k * l3 - 40 * k * m3 + 400 * d3)
         = k * k * (l1 + l2 + l3) - 40 * k * (m1 + m2 + m3) + 400 * (d1 + d2 + d3)
  BY <1>11
<1> QED BY <1>2, <1>12, <1>13, <1>14, <1>15 DEF Spans

\* A chord that is clear of obstacles all along is so in every twentieth.
LEMMA ClearMisses ==
  ASSUME LengthAssumption, NEW p \in Place, NEW q \in Place, cloud \subseteq Place, Clear(p, q)
  PROVE  ~Meets(p, q)
<1> SUFFICES ASSUME NEW o \in cloud, NEW k \in 0..20,
                    Dist(Twentieth(k, p, q), Times(20, o)) < 20 * SafeRadius * 20 * SafeRadius
             PROVE  FALSE
  BY DEF Meets, Twentieth
<1> DEFINE l == Dist(p, q)
           s == Dot(Diff(o, p), Diff(q, p))
           d == Dist(o, p)
           x == Dist(Twentieth(k, p, q), Times(20, o))
           r == SafeRadius * SafeRadius
           e == Dist(o, q)
           f == SegmentDist(o, p, q)
<1>1. o \in Place
  OBVIOUS
<1>2. /\ l \in Nat /\ s \in Int /\ d \in Nat
      /\ x = k * k * l - 40 * k * s + 400 * d /\ e = d - 2 * s + l
  <2>1. k \in 0..20 /\ p \in Place /\ q \in Place /\ o \in Place
    BY <1>1
  <2> HIDE DEF l, s, d, x, e
  <2>2. Spans(k, p, q, o)
    BY <2>1, TwentiethDist, Zenon
  <2> QED BY <2>2, Zenon DEF l, s, d, x, e, Spans
<1>3. r \in Nat /\ x < 400 * r
  <2>1. SafeRadius \in Nat /\ 20 * SafeRadius * 20 * SafeRadius = 400 * (SafeRadius * SafeRadius)
    BY DEF LengthAssumption
  <2>2. r \in Nat
    BY <2>1
  <2> QED BY <2>1, <2>2
<1>4. ~(r * f.den > f.num * 1)
  BY DEF Clear, Farther
<1>5. f = CASE s <= 0 \/ l = 0 -> [num |-> d, den |-> 1]
            [] s >= l /\ l # 0 -> [num |-> e, den |-> 1]
            [] OTHER -> [num |-> d * l - s * s, den |-> l]
  BY Zenon DEF SegmentDist
<1>6. l = 0 => s = 0
  <2> SUFFICES ASSUME l = 0 PROVE s = 0
    OBVIOUS
  <2> DEFINE a == q[1] - p[1]
             b == q[2] - p[2]
             c == q[3] - p[3]
             u == Diff(o, p)
  <2>1. a \in Int /\ b \in Int /\ c \in Int /\ u[1] \in Int /\ u[2] \in Int /\ u[3] \in Int
    BY <1>1 DEF Place, Diff
  <2>2. Dist(q, p) = a * a + b * b + c * c /\ Dist(q, p) = l
    <3>1. Dist(q, p) = a * a + b * b + c * c
      BY Zenon DEF Dist, Dot, Diff
    <3>2. Dist(q, p) = l
      BY DotType
    <3> QED BY <3>1, <3>2
  <2>3. s = u[1] * a + u[2] * b + u[3] * c
    BY Zenon DEF Dot, Diff
  <2> HIDE DEF a, b, c, u, l, s
  <2>4. a * a >= 0 /\ b * b >= 0 /\ c * c >= 0 /\ a * a + b * b + c * c = 0
    BY <2>1, <2>2, Square
  <2>5. a = 0 /\ b = 0 /\ c = 0
    BY <2>1, <2>4
  <2> QED BY <2>1, <2>3, <2>5
<1> HIDE DEF l, s, d, x, r, e, f
<1>7. k \in Nat
  OBVIOUS
<1>8. CASE s <= 0
  <2>0. f = [num |-> d, den |-> 1]
    BY <1>2, <1>5, <1>8
  <2>1. f.num = d /\ f.den = 1
    BY <2>0
  <2>2. d >= r
    BY <1>2, <1>3, <1>4, <2>1
  <2>3. x >= 400 * d
    BY <1>2, <1>8, BeforeStart
  <2> QED BY <1>2, <1>3, <2>2, <2>3
<1>9. CASE ~(s <= 0) /\ s >= l
  <2>1. f.num = e /\ f.den = 1
    BY <1>5, <1>6, <1>9
  <2>2. e \in Int
    BY <1>2
  <2>3. e >= r
    BY <1>3, <1>4, <2>1, <2>2
  <2>4. x >= 400 * e
    BY <1>2, <1>9, BehindEnd
  <2> QED BY <1>2, <1>3, <2>2, <2>3, <2>4
<1>10. CASE ~(s <= 0) /\ ~(s >= l)
  <2>1. l # 0 /\ l > 0
    BY <1>2, <1>6, <1>10
  <2>2. f.num = d * l - s * s /\ f.den = l
    BY <1>5, <1>10, <2>1
  <2>3. d * l - s * s >= r * l
    <3>1. d * l - s * s \in Int /\ r * l \in Int
      BY <1>2, <1>3
    <3> QED BY <1>4, <2>2, <3>1
  <2>4. l * x >= 400 * (d * l - s * s)
    BY <1>2, Beside
  <2>5. l * x >= 400 * (r * l)
    <3>1. d * l - s * s \in Int /\ r * l \in Int /\ l * x \in Int
      BY <1>2, <1>3
    <3> QED BY <2>3, <2>4, <3>1
  <2>6. x \in Int /\ (400 * r) * l > x * l
    <3>1. x \in Int /\ 400 * r \in Int /\ 400 * r > x /\ l \in Nat \ {0}
      BY <1>2, <1>3, <2>1
    <3> DEFINE y == 400 * r
    <3> HIDE DEF y
    <3>2. y > x => y * l > x * l
      BY <3>1, Scale DEF y
    <3> QED BY <3>1, <3>2 DEF y
  <2> QED BY <1>2, <1>3, <2>5, <2>6
<1> QED BY <1>2, <1>8, <1>9, <1>10

\* A path planned to the end.
LEMMA Planned ==
  ASSUME PlanInv, stage = "done", status # "TOO_FEW_POINTS"
  PROVE  HistoryShape /\ HistoryKnown /\ AfterRestore(points) /\ Anchored(points)
         /\ points \in Seq(Point) /\ points # <<>> /\ cloud \subseteq Place
<1>1. HistoryKnown /\ AfterRestore(points) /\ cloud \in Clouds
  BY DEF PlanInv
<1>2. cloud \subseteq Place
  BY <1>1, SpaceAssumption DEF Place
<1> QED BY <1>1, <1>2 DEF HistoryKnown, AfterRestore, Anchored

\* A path that is not broken, or of a history without gaps.
LEMMA PlannedLeads ==
  ASSUME AfterRestore(points), ~Broken(points) \/ ~HistoryGap \/ cloud # {}
  PROVE  \E b \in Nat : Leads(points, 0, b, From(FinalChords))
BY DEF AfterRestore

\* What the stages handed on makes a path a part of the history.
LEMMA HistoryHolds ==
  ASSUME PlanInv
  PROVE  PathIsHistory
<1> SUFFICES ASSUME Succeeds
             PROVE  /\ \A k \in 1..Len(points) : Indices(points)[k] \in Samples /\ H(Indices(points)[k]) = points[k].p
                    /\ points[1].p = Last(flown).p
                    /\ Last(points).p = AtHeight(Takeoff, Takeoff[3] + HandoffHeight)
  BY Zenon DEF PathIsHistory
<1>1. stage = "done" /\ status # "TOO_FEW_POINTS" /\ status # "TRAJECTORY_DISCONTINUITY"
  BY DEF Succeeds
<1>2. /\ HistoryShape /\ HistoryKnown /\ AfterRestore(points) /\ Anchored(points)
      /\ points \in Seq(Point) /\ points # <<>> /\ ~Broken(points)
  BY <1>1, Planned DEF PlanInv
<1>3. PICK b \in Nat : Leads(points, 0, b, From(FinalChords))
  BY <1>2, PlannedLeads
<1>4. AllFound(points)
  <2>1. FinalChords \subseteq Samples \X Samples
    BY DEF FinalChords, Pairs
  <2> QED BY <1>2, <1>3, <2>1, IndicesFound
<1>5. points[1].p = Last(flown).p
  BY <1>2 DEF HistoryKnown, Anchored, Found
<1>6. Last(points).p = AtHeight(Takeoff, Takeoff[3] + HandoffHeight)
  BY <1>2 DEF HistoryKnown, Anchored
<1> QED BY <1>4, <1>5, <1>6, Zenon DEF AllFound

\* What simplification handed on is within epsilon.
LEMMA WithinHolds ==
  ASSUME PlanInv
  PROVE  WithinEpsilon
<1> SUFFICES ASSUME stage = "protect", NEW c \in Chords
             PROVE  \A i \in c[1]..c[2] : ~OffBy(i, c[1], c[2], Epsilon)
  BY DEF WithinEpsilon
<1>1. AfterSimplify(points) /\ HistoryShape
  BY DEF PlanInv, HistoryKnown
<1>2. Len(reversed) # 0
  BY <1>1, HistoryPlaces DEF HistoryShape
<1>3. points \in Seq(Point) /\ Leads(points, 0, Len(reversed), From(EpsilonChords)) /\ points # <<>>
  <2>1. points \in Seq(Point) /\ Leads(points, 0, Len(reversed), From(EpsilonChords))
    BY <1>1 DEF AfterSimplify
  <2> QED BY <1>2, <2>1, LeadsSome
<1> QED BY <1>1, <1>3, ChordsWithin

\* The heights of a path, largest and smallest.
LEMMA PathHeights ==
  ASSUME NEW s \in Seq(Point), s # <<>>
  PROVE  /\ Max({s[k].p[3] : k \in 1..Len(s)}) \in Nat /\ Min({s[k].p[3] : k \in 1..Len(s)}) \in Nat
         /\ \A k \in 1..Len(s) : /\ s[k].p[3] \in Nat
                                 /\ s[k].p[3] <= Max({s[j].p[3] : j \in 1..Len(s)})
                                 /\ Min({s[j].p[3] : j \in 1..Len(s)}) <= s[k].p[3]
<1> DEFINE n == Len(s)
           f == [k \in 1..n |-> s[k].p[3]]
           T == {s[k].p[3] : k \in 1..n}
<1>1. n \in Nat /\ 1 \in 1..n
  OBVIOUS
<1>2. \A k \in 1..n : s[k].p[3] \in Nat
  <2> SUFFICES ASSUME NEW k \in 1..n PROVE s[k].p[3] \in Nat
    OBVIOUS
  <2>1. s[k] \in Point
    OBVIOUS
  <2> QED BY <2>1 DEF Point, Place
<1>3. PICK m \in Nat : \A k \in 1..n : f[k] <= m
  <2>1. 1 \in Nat /\ \A k \in 1..n : f[k] \in Nat
    BY <1>2
  <2> HIDE DEF f, n
  <2> QED BY <1>1, <2>1, RangeBounded
<1>4. T \subseteq Nat /\ T # {} /\ (\A t \in T : t <= m) /\ \A k \in 1..n : s[k].p[3] \in T
  BY <1>1, <1>2, <1>3
<1> HIDE DEF T
<1>5. Max(T) \in T /\ Min(T) \in T /\ \A y \in T : y <= Max(T) /\ Min(T) <= y
  BY <1>4, MaxFacts, MinFacts
<1>6. Max(T) \in Nat /\ Min(T) \in Nat /\ \A k \in 1..n : s[k].p[3] <= Max(T) /\ Min(T) <= s[k].p[3]
  BY <1>4, <1>5
<1> QED BY <1>2, <1>6, Zenon DEF T, n

\* A covered path flies as high and as low as the flight, but for the threshold.
LEMMA AltitudeHolds ==
  ASSUME PlanInv
  PROVE  AltitudeKept
<1> DEFINE T == {points[k].p[3] : k \in 1..Len(points)}
           N == Len(reversed)
<1> SUFFICES ASSUME Succeeds, ~(HistoryGap /\ cloud # {})
             PROVE  /\ Max(T) >= Highest(1, N) - VerticalThreshold
                    /\ Min(T) <= Lowest(1, N) + VerticalThreshold
  BY Zenon DEF AltitudeKept
<1>1. /\ HistoryShape /\ AfterRestore(points) /\ points \in Seq(Point) /\ points # <<>>
  BY Planned DEF Succeeds
<1>2. Covers(points)
  BY <1>1 DEF AfterRestore
<1>3. VerticalThreshold \in Nat
  BY LengthAssumption DEF LengthAssumption
<1>4. 1 \in Samples /\ N \in Samples /\ 1 <= N /\ 1..N = Samples
  BY <1>1, HistoryPlaces DEF HistoryShape
<1>5. /\ Highest(1, N) \in Nat /\ Lowest(1, N) \in Nat
      /\ Highest(1, N) \in {Height(i) : i \in 1..N} /\ Lowest(1, N) \in {Height(i) : i \in 1..N}
  <2> HIDE DEF N
  <2> QED BY <1>1, <1>4, HeightRange
<1>6. PICK i \in Samples : Height(i) = Highest(1, N)
  BY <1>4, <1>5
<1>7. PICK j \in Samples : Height(j) = Lowest(1, N)
  BY <1>4, <1>5
<1>8. PICK k \in 1..Len(points) : points[k].p[3] >= Height(i) - VerticalThreshold
  BY <1>2 DEF Covers
<1>9. PICK m \in 1..Len(points) : points[m].p[3] <= Height(j) + VerticalThreshold
  BY <1>2 DEF Covers
<1> DEFINE x == Max(T)
           y == Min(T)
           u == points[k].p[3]
           v == points[m].p[3]
<1>10. x \in Nat /\ y \in Nat /\ u \in Nat /\ v \in Nat /\ u <= x /\ y <= v
  BY <1>1, PathHeights
<1> HIDE DEF T, N
<1>11. u >= Highest(1, N) - VerticalThreshold /\ v <= Lowest(1, N) + VerticalThreshold
  BY <1>6, <1>7, <1>8, <1>9
<1> DEFINE a == Highest(1, N)
           b == Lowest(1, N)
<1>12. /\ a \in Nat /\ b \in Nat /\ u >= a - VerticalThreshold /\ v <= b + VerticalThreshold
  BY <1>5, <1>11
<1> HIDE DEF x, y, u, v, a, b
<1>13. x >= a - VerticalThreshold /\ y <= b + VerticalThreshold
  BY <1>3, <1>10, <1>12
<1> QED BY <1>13 DEF x, y, a, b

\* A chord of a planned path is one that was allowed, and near enough.
LEMMA FinalChord ==
  ASSUME PlanInv, stage = "done", status # "TOO_FEW_POINTS",
         ~Broken(points) \/ ~HistoryGap \/ cloud # {}, NEW c \in Chords
  PROVE  /\ c[1] \in Samples /\ c[2] \in Samples /\ c[1] < c[2]
         /\ cloud # {} => Allowed(c[1], c[2])
         /\ Enough(c[1], c[2])
<1>1. /\ HistoryShape /\ AfterRestore(points) /\ points \in Seq(Point) /\ points # <<>>
  BY Planned
<1>2. PICK b \in Nat : Leads(points, 0, b, From(FinalChords))
  BY <1>1, PlannedLeads
<1>3. FinalChords \subseteq Samples \X Samples
  BY DEF FinalChords, Pairs
<1>4. /\ c[1] \in Samples /\ c[2] \in Samples /\ c[1] < c[2]
      /\ \E y \in Samples : <<c[1], y>> \in FinalChords /\ c[2] <= y /\ H(y) = H(c[2])
  BY <1>1, <1>2, <1>3, ChordsLead
<1>5. PICK y \in Samples : <<c[1], y>> \in FinalChords /\ c[2] <= y /\ H(y) = H(c[2])
  BY <1>4
<1> DEFINE a == c[1]
           z == c[2]
<1>6. /\ a \in Samples /\ z \in Samples /\ a < z /\ z <= y /\ H(y) = H(z)
      /\ a \in Nat /\ z \in Nat /\ y \in Nat
  BY <1>1, <1>4, <1>5, HistoryPlaces
<1>7. (cloud # {} => Allowed(a, y)) /\ Enough(a, y)
  BY <1>5 DEF FinalChords
<1> HIDE DEF a, z
<1>8. y = a + 1 => z = a + 1
  BY <1>6
<1>9. IsShort(a, y) => IsShort(a, z)
  BY <1>1, <1>6, LengthAssumption, ShortWithin
<1>10. Clear(H(a), H(y)) => Clear(H(a), H(z))
  BY <1>6, Zenon
<1>11. Trusted(a, y) => Trusted(a, z)
  <2> SUFFICES ASSUME TrustFlown, \A i \in a..y : ~OffBy(i, a, y, TrustDeviation)
               PROVE  \A i \in a..z : ~OffBy(i, a, z, TrustDeviation)
    BY Zenon DEF Trusted
  <2> SUFFICES ASSUME NEW i \in a..z PROVE ~OffBy(i, a, z, TrustDeviation)
    OBVIOUS
  <2>1. i \in a..y
    BY <1>6
  <2>2. ~OffBy(i, a, y, TrustDeviation)
    BY <2>1
  <2> QED BY <1>6, <2>2, Zenon DEF OffBy
<1>12. Reaches(a, H(y)) => Reaches(a, H(z))
  BY <1>6, Zenon
<1>13. (cloud # {} => Allowed(a, z)) /\ Enough(a, z)
  BY <1>7, <1>8, <1>9, <1>10, <1>11, <1>12, Zenon DEF Allowed, Enough
<1> QED BY <1>4, <1>13 DEF a, z

\* A chord of a path planned with a map that was not checked is short.
LEMMA UncheckedHolds ==
  ASSUME PlanInv
  PROVE  UncheckedIsShort
<1> SUFFICES ASSUME Succeeds, cloud # {}, NEW c \in Chords
             PROVE  \/ c[2] = c[1] + 1 \/ Trusted(c[1], c[2]) \/ ~Meets(H(c[1]), H(c[2]))
                    \/ IsShort(c[1], c[2])
  BY Zenon DEF UncheckedIsShort
<1>1. stage = "done" /\ status # "TOO_FEW_POINTS"
  BY DEF Succeeds
<1>2. c[1] \in Samples /\ c[2] \in Samples /\ Allowed(c[1], c[2])
  BY <1>1, FinalChord
<1>3. HistoryShape /\ cloud \subseteq Place
  BY <1>1, Planned
<1>4. H(c[1]) \in Place /\ H(c[2]) \in Place
  BY <1>2, <1>3, HistoryPlaces
<1>5. Clear(H(c[1]), H(c[2])) => ~Meets(H(c[1]), H(c[2]))
  BY <1>3, <1>4, LengthAssumption, ClearMisses
<1> QED BY <1>2, <1>5, Zenon DEF Allowed

\* A path that fails has a gap of the history in it, or a chord from the map.
LEMMA FailsHolds ==
  ASSUME PlanInv
  PROVE  FailsForGaps
<1> SUFFICES ASSUME stage = "done", status = "TRAJECTORY_DISCONTINUITY", ~HistoryGap
             PROVE  cloud # {} /\ \E c \in Chords :
                      c[2] > c[1] + 1 /\ ~Reaches(c[1], H(c[2])) /\ IsShort(c[1], c[2])
  BY Zenon DEF FailsForGaps
<1>1. /\ HistoryShape /\ AfterRestore(points) /\ points \in Seq(Point) /\ points # <<>> /\ Broken(points)
      /\ status # "TOO_FEW_POINTS"
  BY Planned DEF PlanInv
<1>2. PICK b \in Nat : Leads(points, 0, b, From(FinalChords))
  BY <1>1, PlannedLeads
<1>3. AllFound(points)
  <2>1. FinalChords \subseteq Samples \X Samples
    BY DEF FinalChords, Pairs
  <2> QED BY <1>1, <1>2, <2>1, IndicesFound
<1>4. PICK k \in 1..Len(points) - 1 : Dist(points[k].p, points[k + 1].p) > MaxSegment * MaxSegment
  BY <1>1 DEF Broken
<1> DEFINE a == Indices(points)[k]
           z == Indices(points)[k + 1]
           c == <<a, z>>
<1>5. c \in Chords
  BY Zenon DEF Chords
<1>6. k \in 1..Len(points) /\ k + 1 \in 1..Len(points)
  BY <1>1
<1>7. a \in Samples /\ z \in Samples /\ H(a) = points[k].p /\ H(z) = points[k + 1].p
  BY <1>3, <1>6 DEF AllFound
<1>8. c[1] = a /\ c[2] = z
  OBVIOUS
<1> HIDE DEF a, z, c
<1>9. a < z /\ Enough(a, z)
  BY <1>1, <1>5, <1>8, FinalChord
<1>10. ~Reaches(a, H(z))
  <2>1. Dist(H(a), H(z)) \in Nat /\ MaxSegment * MaxSegment \in Nat
    <3>1. H(a) \in Place /\ H(z) \in Place
      BY <1>1, <1>7, HistoryPlaces
    <3>2. Dist(H(a), H(z)) \in Nat
      BY <3>1, DotType
    <3>3. MaxSegment \in Nat
      BY LengthAssumption DEF LengthAssumption
    <3> QED BY <3>2, <3>3
  <2>2. Dist(H(a), H(z)) > MaxSegment * MaxSegment
    BY <1>4, <1>7, Zenon
  <2> QED BY <2>1, <2>2 DEF Reaches
<1>11. cloud # {} /\ IsShort(a, z)
  BY <1>9, <1>10, Zenon DEF Enough
<1>12. z > a + 1
  <2>1. z # a + 1
    BY <1>1, <1>7, <1>10, NextReaches
  <2>2. a \in Nat /\ z \in Nat
    BY <1>1, <1>7, HistoryPlaces
  <2> QED BY <1>9, <2>1, <2>2
<1> QED BY <1>5, <1>8, <1>10, <1>11, <1>12, Zenon

\* The path that is planned is made of samples of the flight, in its order.
THEOREM PathHistory == PlanSpec => []PathIsHistory
<1>1. PlanInv => PathIsHistory
  BY HistoryHolds
<1> QED BY <1>1, PlanInvariant, PTL

\* Simplification leaves out only what is within rdp_epsilon of the chord, however
\* the flight winds, for the distances pointToSegmentDistance computes.
THEOREM PathEpsilon == PlanSpec => []WithinEpsilon
<1>1. PlanInv => WithinEpsilon
  BY WithinHolds
<1> QED BY <1>1, PlanInvariant, PTL

\* The return climbs over all the flight climbed over, and passes under what it
\* passed under, unless the history has a gap and there is a map.
THEOREM PathAltitude == PlanSpec => []AltitudeKept
<1>1. PlanInv => AltitudeKept
  BY AltitudeHolds
<1> QED BY <1>1, PlanInvariant, PTL

\* With a map, no stage leaves a long chord that was neither flown, nor trusted,
\* nor free of obstacles at any twentieth of it.
THEOREM PathUnchecked == PlanSpec => []UncheckedIsShort
<1>1. PlanInv => UncheckedIsShort
  BY UncheckedHolds
<1> QED BY <1>1, PlanInvariant, PTL

\* Planning fails for a gap only where the flight has one, or a chord that the
\* map restored is left, thinned.
THEOREM PathFails == PlanSpec => []FailsForGaps
<1>1. PlanInv => FailsForGaps
  BY FailsHolds
<1> QED BY <1>1, PlanInvariant, PTL
==============================================================================
