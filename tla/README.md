# fanhang: a model of the flight software

`fanhang` is a ROS stack that flies quadrotors alone or in a swarm: a planner turns
goals into trajectories around obstacles, a trajectory server turns trajectories
into setpoints, a bridge carries trajectories between drones, and, the part the
project is named after, a *manual return* records where the drone was flown and
brings it back along that path. This directory holds TLA+ models of the programs
that decide who flies the drone, when it moves and when it stops; TLC configurations
that check them; and proofs of the main results, checked by TLAPS.

Paths below are relative to `src/src/` of the repository.

## 1. Inventory

### How the parts interact

    goals ─────────────► diff_planner_node ──PolyTraj──► traj_server ──pos_cmd_normal──┐
    (user, multipoint,     ▲     │      └──heartbeat──────────▲                         ▼
     rtlplanner)           │     └─MINCOTraj─► swarm bridge   yaw commands        command gate ──► controller
                 mandatory stop         (other drones)                                  ▲
                           │                                                            │
                     manual_return_node / mission_return_node ──return commands─────────┘
                           └──────── set_manual_return / set_normal (services) ─────────┘

| component | state | operations | behind it | what makes it correct |
|---|---|---|---|---|
| command gate (`manual_return_planner/src/command_gate_node.cpp`, `command_gate.h`) | the selected source | two switch services, two command streams in, one out | process may restart and forget the source | only the selected stream passes |
| manual return node (`manual_return_node.cpp`) | run state, history, planned path, profile | record, trigger, take over, execute, hold Home, reset | blocking service calls to the gate; gate restarts; operator; late odometry; queued commands | keeps the controller while it returns, gives it back afterwards, flies to *this* flight's Home and gets there |
| planner state machine (`plan_manage/src/diff_replan_fsm.cpp`, `planner_manager.cpp`) | one of seven states, goal, local trajectory, counters, stop flags | 100 Hz machine, 20 Hz safety check, goals, triggers, stops, broadcasts | nested `spinOnce` inside a callback; failures; stops at any time | flies a plan for the latest goal, stops when told, stays stopped, finishes only at the goal |
| trajectory server (`plan_manage/src/traj_server.cpp`) | trajectory, heartbeat, yaw command, times | timer, trajectory, heartbeat, yaw | lost heartbeat, yaw commands in any order | never jumps in hover; holds each end; lets go at last |
| swarm bridge transport (`swarm_bridge/include/reliable_bridge.hpp`) | a queue per peer, sender and receiver threads, callbacks | send, register, stop | threads, sockets, reconnects, restarts | order kept, nothing lost while nothing fails, nothing stuck |
| swarm trajectory store (`diff_replan_fsm.cpp:856`, `checkCollision`) | latest trajectory of every drone | receive, check | reordered, repeated, old or far broadcasts | stores the newest; an old one never replaces it |
| mission return node (`mission_return_node.cpp`) | state, path, start time | trigger, execute, reset | blocking gate call inside the trigger, two locks | as for the manual return |
| multi-waypoint mission (`user_command/multipoint`) | list, index, modified goals, RC step | timer, start, back, RC, modified goal | nested spin, sleeping in a callback | every waypoint visited in order; nothing from the previous mission |
| breadcrumb return (`rtlplanner`) | breadcrumbs, index, state | odometry, trigger, timer | timed wait for the planner to stop | goes back breadcrumb by breadcrumb to Home |
| manual take-over (`utils/manual_take_over`) | last joystick and command | joystick, command | shares the command topic with the planner | moves only when the planner is silent, and without a jump |
| return path pipeline (`manual_return_planner.cpp`, `safe_rdp.cpp`) | none between calls; a path handed from stage to stage | preprocess, trim and reverse, simplify, guard altitudes, bound segments, check against the map | each stage looks its points up in the history again; flights that cross themselves; limits met exactly | the path is the flight backwards, ends, altitudes and error bounds kept |
| trajectory analysis | none | labels | boundaries and empty inputs | labels cover the flight |
| local A* (`path_searching`), grid map (`plan_env`) | node pool, ring buffer | search; update, move | rounds instead of clearing, wrap-around | shortest path; no cell of another place |
| optimiser, detector, visualisation, simulator, goal generators, monitor | – | – | – | not modelled, see section 7 |

Sequential parts (ROS callbacks of one node) run in one thread, `ros::spin`; they
interleave only where a callback waits (a service call, a nested `spinOnce`). Real
threads exist in the swarm bridge. `PROJECT.json` lists the hazards, each at its line.

## 2. Modules

| module | models | composed with |
|---|---|---|
| `CommandGate` | `command_gate.h`, `command_gate_node.cpp` | extended by `ManualReturn` and `MissionReturn` |
| `ManualReturn` | `manual_return_node.cpp` and the gate as a second process | implements `ControlHandover` |
| `ControlHandover` | abstract: in which phase of a return who owns the controller | |
| `ReturnPath` | `manual_return_planner.cpp`, `safe_rdp.cpp`: how a return is planned | what `ManualReturn` abstracts as `ReturnPaths`; both are proved about in `ManualReturnProofs` |
| `MissionReturn` | `mission_return_node.cpp` and the gate | |
| `ReplanFSM` | `diff_replan_fsm.cpp` with the control of `planner_manager.cpp` | |
| `TrajServer` | `traj_server.cpp` | |
| `ReliableBridge` | one direction between two devices of `reliable_bridge.hpp` | implements `OrderedChannel` |
| `OrderedChannel` | abstract: a channel that may lose messages and never swaps or repeats them | |
| `SwarmTraj` | the broadcasts of `diff_replan_fsm.cpp` between all drones, what each stores, the start in sequence | |
| `Multipoint` | `multipointplan.cpp`, with px4ctrl, the planner and the pilot around it | |
| `RTLPlanner` | `rtl_planner.cpp` with the stop of the planner | |
| `MC*` | instances for TLC: plans, grids and maps that a `.cfg` cannot write | |
| `*Proofs` | theorems about the module they are named after, and about `ReturnPath` in `ManualReturnProofs` | |

The `map` of `PROJECT.json` gives the source lines of each definition. Where a
module has two definitions of one idea and only one is used (`ClearRun` and
`ClearRunKeepsState`), the other is the same operation with a plausible bug. Each
property has one of these: put in place of the real one it makes TLC report that
property violated, which shows that the property depends on the code it is about.

### ManualReturn and CommandGate

The node is one thread. A handler that calls the gate is two actions, `TakeoverCall` /
`TakeoverReturns` and `ResetCall` / `ResetReturns`, with `pc` telling in which service
the thread is blocked. Between them anything else may happen: the gate answers
(`SetManualReturn`, `SetNormal`), an operator switches it (`OperatorSwitch`), it dies
and comes back (`GateCrashes`, `GateStarts`), queued commands arrive, the vehicle moves.
A call ends answered, broken by the end of the gate or, with `CallFaults`, by the network
(`CallEnded`): before the gate was asked, or with the gate switched and the answer lost (`Answers`).
A request whose connection broke before the gate read it is not served later.
`TakeoverUnreachable` and `ResetUnreachable` are calls that fail at once. The executor is
`StepReturn`, which moves an index along the path and finishes when the profile is over
*and* the odometry is near, and `PublishHomeHold`.

Abstractions: a position is a model value, two positions being close when equal. The
planning pipeline chooses any subsequence of the reversed history that keeps both ends
(`ReturnPaths`); `ReturnPath` models how it does, and its `PathIsHistory` is the fact relied on.
The takeover delay may end
at any moment, but if `DelayDrains` not before the queue of return commands is empty
(the delay is seconds, a ROS message takes milliseconds). `home`
is a history variable: the first sample since recording began. `stopSent` is the latched
stop message, kept for the composition with the planner.

### ReturnPath

The one function `planManualReturn` as a pipeline: `Record` builds any flight, then
`BuildReturnHistory` (spacing, trimming around Home, the way down over Home, reversal),
`Simplify` (Ramer-Douglas-Peucker), `PreserveVertical`, `EnforceMaxSegmentLength`,
`RestoreUnsafeShortcuts` and `Finish` each replace `points`, so that it can be said what every
stage is given and what it leaves; `stage` is where the function is. Positions are points of an integer grid; squared
distances to a chord are exact fractions. The code's `1e-9` tolerances then decide
nothing, and comparisons *at* a limit are real cases. The explicit stack of the
simplifier is a recursive function: the order in which parts are taken off the stack does
not matter for what is kept. So is every loop over samples, each value made of the one before,
which is what the proofs unfold. `Indices` is where a stage finds the points of its input in the
history again.

### MissionReturn

Built like `ManualReturn`, on the same `CommandGate`, and different where the code is:
`TriggerCall` is one handler up to the blocking call, with the node RETURNING and its clock
running *before* the gate has answered; a trigger is refused only while RETURNING; a reset
whose call fails changes nothing, also when the gate did switch; `Arrived` accepts missing
odometry. A reset that was served without an answer hands the controller to the normal stream behind the node's back: the
history variable `lostReset` remembers it, until a later call is answered, and `ControlKept`,
`NormalNeverRetakes` and `ReturnArrives` except it and nothing else the node's own calls can do.
The loaded mission is a constant: all its points are key points, which the planner keeps.

### ReplanFSM

One action per branch of the state machine's `switch`, one per outcome of the safety
check, one per callback. `planNextWaypoint` called while executing waits in a nested
`ros::spinOnce`; `GoalWaits` suspends the callback, `waits` counts how many are
suspended, and `GoalWaitEnds` / `GoalWaitTimeout` resume the innermost. Map, optimiser
and clock decide by nondeterministic choice: whether the goal is occupied, planning
succeeds, it is time to replan, the drone is stuck, a danger is seen. A trajectory is
the goal it was planned for and its kind: it ends on the way, at the goal, or it brakes.
`progress` is how much of it has been flown. The cases of `EXEC_TRAJ` are in the order of the
code: near a waypoint that is not the last one the next is assigned, and only then is arrival
looked at, with no regard to the number of the waypoint. `Nearness` ties the first test to the
trajectory: at the end of one that reaches the goal the drone is near it. `halted` is a history variable: stopped by
an order, and no goal accepted since.

### SwarmTraj

All drones at once. `Deliver(r, s)` brings drone `r` *any* earlier broadcast of `s`, now or
again, which is loss, repetition and reordering in one. The callback's early returns are
`Ignores`, `RecvOld` (which still grows the store), `RecvStored` and `RecvFar` (which
invalidates the entry and keeps its time). `MayPlan` is SEQUENTIAL_START; an ordered stop
(`BrakeAndBroadcast`) broadcasts a braking trajectory without asking it. A trajectory is its
start time.

### TrajServer

One action per branch of `cmdCallback` (the timed hover, yaw only, flying, too early,
alignment, the end) and one per message callback. Time is kept as the questions the
code asks: `beat`, `finish`, `yaw_old`, `yaw_late` and `point` say whether a time is over
its limit, and `BeatExpires`, `FinishAges`, `YawAges` and `TrajAdvances` let it pass the
limit at any moment. A callback may publish twice (the lost-heartbeat hover falls
through), so `out` is the sequence of setpoints of the last callback.

### ReliableBridge

The ROS thread (`SendChecks`, `SendPushes`, `SendNotifies`), the sender thread
(`StartsWaiting`, `ChecksQueue`, `SocketSends` or `SocketFails`, `Pops`), the receiver
thread of the peer (`Receives`) and its registration interleave at the statements that touch shared
data. What the mutex makes atomic is one step; `empty()`, `front()` and `size()`, read
without it, are steps of their own. The ZMQ sockets are external: they keep order, block
or fail when full, and lose their content when a connection or the peer fails
(`Disconnects`, `PeerRestarts`).

### Multipoint

`Point_send` sleeps and spins in its middle, so it is cut there: `pc` is where the thread
is (`turnFirst`, `first`, `check`, `wait`, `turn`, `next`, `end`), and a new plan, a moved goal or
a button press may come in at each cut, between the reading of a variable and its use.
`modified_goals` keeps its content between missions, as in the code. A report of a moved
goal carries whether another goal has been sent since (`late`). The planner replaces the height
of every goal by one metre (`Received`; `Level` is a constant function) and reports that to nobody; `levelled` remembers that
the goal last sent is not the place flown to. px4ctrl, the pilot and the planner's moving of goals
out of obstacles are external actions.

### RTLPlanner

Breadcrumbs along a corridor of numbers: `Records`, `ComesBack` (truncation at the first
breadcrumb that is near), `Trigger`, the timer (`ExecStart`, `ExecResend`, `ExecArrives`,
`ExecCompletes`), and of the planner what decides whether a return gets home: it stops, by
order or by itself, and drops its goal when it leaves the stop, one sent meanwhile included; it flies
to a goal at its own height (`Received`), and beside one that is in an obstacle (`PlannerMovesGoal`), of
which this node hears nothing. The pilot may fly anywhere (`PilotFlies`) and drop breadcrumbs where
the planner would not go.

## 3. What the runs check

| run | what it shows | distinct states |
|---|---|---|
| `mr_takeover` | the node keeps the controller while returning or holding; paths lead to this flight's Home; the normal stream never takes over again; only commands of this run are flown; a return reaches Home and is held there unless the operator or a restart interferes; `ControlHandover` is implemented | 670 608 |
| `rp_plan` | a planned path is the flight backwards, end to end; simplification keeps to epsilon; highest and lowest altitude are kept; with a map, chords that are neither clear nor close to the flight stand for little of it; planning fails only for gaps | 1 047 558 |
| `ms_return` | but for a restart of the gate or an operator: when the node publishes the gate listens to it; READY means the controller was given back; a return arrives. The first and the last also but for a served reset whose answer was lost | 162 986 |
| `rf_manual` | what is flown was planned for the latest goal; ordered stops brake, hold and end; planning ends; a goal is taken up (without `realworld_experiment`: with it, one that was accepted); a mission completes only at its goal | 29 303 |
| `rf_preset` | a preset round is reported over only at its last waypoint, at the end of a trajectory to it, with broadcasts of other drones in every state and a start in sequence | 74 310 |
| `sw_store` | the order of the start; a stored trajectory is never replaced by an older one; everybody takes off | 14 634 |
| `rb_link` | nothing lost while nothing fails; an ordered channel is implemented; a notified sender empties the queue; the queue holds at most `queue_size + 1` | 4 692 |
| `ts_hover` | no setpoint without motion moves the vehicle; every end is held before it is let go, and is let go at last | 27 940 |
| `mp_mission` | indices stay in range though plans change inside `Point_send`; no waypoint is skipped; a mission that may land ends, unless a waypoint is not at the planner's height | 235 994 |
| `rtl_home` | breadcrumbs lead home by bounded legs and without loops; the drone lands at Home; a return ends, unless a breadcrumb is out of the planner's reach | 546 913 |

Two more runs show a disagreement between the code and what the repository says of it;
`findings` in `PROJECT.json` quotes the lines:

| run | property | counterexample |
|---|---|---|
| `rf_swarm_stop` | `StopHolds` | a conflicting broadcast takes a stopped planner back to planning |
| `rb_wakeup` | `SendsImmediately` | a lost wakeup leaves a message in the queue until the next one |

Divergences met on the way that have no run:

*Manual return*
- A reset in RECORDING succeeds and erases the history, and Home with it, though the message
  says "reset only allowed in FINISHED or FAILED state" (`manual_return_node.cpp:1007`).
- `frame_error_` (`manual_return_node.cpp:448`) is never cleared: one message in another
  frame disables the return until the process restarts.
- A gate call that fails may have been served. In the manual return a reset then clears the run, and
  a failed one leaves the gate armed with no executor (`manual_return_node.cpp:1013`). In the mission
  return a reset of which only the answer was lost leaves the node RETURNING or FINISHED, publishing
  commands that the gate, now NORMAL, drops (`mission_return_node.cpp:226`).
- In plan-only mode the node still publishes the mandatory stop (`:594`), although
  `manual_return_planner/README.md:239` calls it "the offline/visualization-only default".
- Return path: the README says of the vertical guard that "any output segment spanning more
  height is either an adjacent measured segment or has all skipped measured samples restored"
  (`manual_return_planner/README.md:518`); the code restores the critical samples only
  (`manual_return_planner.cpp:423`). "Max-segment enforcement only inserts more history
  points, so it cannot increase" the deviation (`:701`) does not hold in general: a
  point far off a chord pulls its neighbours' chords with it. The fallback is
  "retaining turns" (`safe_rdp.h:18`), but the turn test at `safe_rdp.cpp:58` skips the first
  sample of an interval and compares the move before the previous sample with the
  one after this one, and the chords between the samples it keeps are not checked against the map.
- Where two samples of the flight are farther apart than `max_segment_length` the filling of
  long segments adds the sample behind the gap a second time (`manual_return_planner.cpp:520`); with a
  map the next stage does not find the copy in the history, thins the whole history instead
  (`safe_rdp.cpp:240`), and may drop its lowest or highest sample, that the vertical guard had
  protected, and with it the gap, where the comment at `manual_return_planner.cpp:531` says that
  the planner "fails explicitly instead of silently creating a spatial shortcut". `AltitudeKept` therefore is about flights without a gap or
  plans without a map; the attempt to prove it in general found this, and with `MaxMove = 10`,
  `MaxSegment = 1`, `FallbackSpacing = 6` on a grid three high TLC shows the plan that succeeds.
- A flight whose samples stay above Home up to more than `landing_handoff_height +
  max_segment_length` (5.25 m by default) before it leaves always fails with "historical samples
  cannot satisfy max_segment_length": trimming (`manual_return_planner.cpp:68`) removes the
  samples of the climb that would satisfy it.

*Planner, trajectory server, bridge, swarm*
- With `realworld_experiment`, as `advanced_param_exp.xml:63` has it, a goal whose callback timed out
  before the first odometry is stored without its trigger (`diff_replan_fsm.cpp:701`): the machine waits in WAIT_TARGET
  until another goal is accepted.
- The emergency stop by the safety check enters EMERGENCY_STOP with `flag_escape_emergency_`
  false (`diff_replan_fsm.cpp:517`), so that no braking trajectory is published.
- The stop for a lost camera (`:443`) may be undone by the rest of the same callback.
- After a lost heartbeat the vehicle may be sent back to the position of an old yaw command
  (`traj_server.cpp:232`; the comment at `:214` says "yaw_pos_ was just updated, not stale").
- A slow first plan makes `traj_server` hover at `last_pos_` before it ever had one, the
  origin, and drop the trajectory; after the hover for a lost heartbeat the same
  callback still publishes the next moving point.
- `size() > queue_size` (`reliable_bridge.hpp:399`) admits one message more than the
  "max send message queue" (`:229`).
- The bridge's constructor starts threads that index vectors it is still growing, and
  the callbacks' map is read and written without a lock: undefined behaviour, left out.
- `have_recv_pre_agent_` is set once drone 0 alone was heard (`diff_replan_fsm.cpp:973`), and
  the broadcast of an ordered stop lets a drone past SEQUENTIAL_START.

*Missions and breadcrumbs*
- `modified_goals_` (`multipointplan.cpp:231`) is never cleared: the next mission's first goal is
  the moved point of the last one, where the comment at `:518` speaks of the waypoint being flown.
  A report that comes after the next goal was sent is stored for the wrong waypoint (`:519`), and
  the landing test (`:394`) uses values from before the spin.
- With `auto_planning` the RC button stays in MOVE, and with `auto_landing` the LAND step cannot be
  reached. A goal the planner dropped in a stop is never sent again.
- The planner sets the height of every goal to one metre (`diff_replan_fsm.cpp:785`, the line above it
  with the height sent is commented out), while `multipointplan.cpp:309` and `rtl_planner.cpp:179`
  measure arrival in three dimensions against the height they sent. The points of `config/points.yaml`, at 0.8 m with a
  `next_distance` of 0.1 m, are not reached, and the mission stays where it is; nor is a breadcrumb
  half a metre or more above or below one metre, or one where the map now has an obstacle: the node
  sends it again every second.
- RTL: a breadcrumb at a turning point is truncated by the next odometry message, though the
  comment at `rtl_planner.cpp:222` wants it kept; Home is the fixed point of the parameters;
  moved goals are not heard of.

### Bounds, and why they are enough

- ManualReturn: three positions tell Home from elsewhere, a path of one run from that of another,
  and give a path with a waypoint in between. `MaxHistory = 2` samples before a trigger,
  to which the trigger adds the current position. `MaxCrashes = 1`; `QueueSize = 1` return
  command in flight (50 in the code), which may be an old one when the next run starts.
- ReturnPath: a grid of 4 x 2 x 2, the handoff in its upper layer, with two peaks above it, six samples and moves of at most sqrt 2: enough for a
  climb and a descent on the way, a crossing of the own track, a chord that skips up to
  six samples, and a chord that is too long. Every limit (epsilon, spacing, trimming radius 1, segment 2)
  is met exactly and exceeded. `TrustFlown` is on, as by default, with a threshold of zero, so
  that chords over samples exactly in line are trusted and all others are checked.
- MissionReturn: Home and two waypoints, one crash, calls that fail though the gate runs, and answers that are lost.
- ReplanFSM: two goals, `MaxFail = 2` (10 in the code; the count is tested, counted and
  reset the same way) and `MaxNest = 2` suspended callbacks: the innermost, and one that
  resumes after it.
- SwarmTraj: three drones, the least for which "the drone before" is not drone 0, with 3, 2
  and 1 broadcasts.
- Bridge: `QueueSize = 1` makes the off-by-one visible, `WireSize = 2` lets the socket
  hold more than one and fill up, four messages fill queue and socket and go beyond.
- TrajServer: two trajectories (flags of the first reach the second), two points each
  (a first and a last), two yaw commands.
- Multipoint: a plan of two waypoints, the first with a wait, and a shorter one back; one plan
  and one report in flight; one place to move goals to. The way out is at the planner's height, so that its mission must end, the way back is not. All four settings of the parameters.
- RTLPlanner: a corridor of 0..7, its end higher than the rest and one place an obstacle, with breadcrumbs every 3 and an arrival radius of 1: up to
  three breadcrumbs beyond Home without turning, more with it, and goals on both sides.

Deadlock is checked in every run but `sw_store` (the bound of broadcasts is used up) and
`rp_plan` (planning ends). The type invariants are proved; a run checks `TypeOK` alone or as a
conjunct only where it says something more (`rb_link`: the limit of the queue; `IndexInRange`,
`TrailLeadsHome`). The proofs do not depend on any of these bounds.

### Fairness

- **ManualReturn**, **MissionReturn**: the node's timers fire, service calls are answered, ROS delivers what
  is queued, odometry keeps coming, the controller flies where it is told to. The operator, the
  normal stream and a dead gate owe nothing. Odometry is faster than the vehicle, as it is (hundreds of Hz).
- **ReplanFSM**: the timer fires, odometry comes, trajectories get flown, and the drone stands
  still once its trajectory is over or is the braking one. Mandatory stops end one day: each of
  them starts another stop, so nothing could be promised to a user who never lets go of the button.
- **SwarmTraj**: planning succeeds one day, and of a drone's broadcasts not all are lost to the drones after it.
- **ReliableBridge**: threads are scheduled, ZMQ reconnects, one day the peer stays, and a
  send that is possible again and again succeeds. *Spurious* wakeups are possible and not fair.
- **TrajServer**: the timer fires, time passes, the planner's heartbeat was heard at
  least once, and a yaw alignment ends. It does not assume that heartbeats go on.
- **Multipoint**: the thread runs, its messages and the flight get their turn again and again
  (strong fairness: a spinning callback enables and disables them), and one day goals stay where
  they are and no new plan is taken. Pilot and button owe nothing.
- **RTLPlanner**: timer and odometry run, the planner leaves its stops, the drone flies to the goal
  the planner has, and one day no more danger and no user's goal comes and the pilot leaves it alone.

## 4. What is proved

For every value of the constants (positions, goals, waypoints, drones, capacities, limits, flags):

| module | theorems | argument |
|---|---|---|
| `ManualReturnProofs`, on `ManualReturn` | `TypeCorrect`, `ControlCorrect`, `KeepsControl`, `NeverOrphans`, `NormalStaysOut`, `OwnCommands`, `LeadsHome`, `Refinement`, `OwnerKnown`, `OwnerFollows` | see below |
| `ManualReturnProofs`, on `ReturnPath` | `PlanInvariant`, `PathHistory`, `PathEpsilon`, `PathAltitude`, `PathUnchecked`, `PathFails` | see below |
| `MissionReturnProofs` | `TypeCorrect`, `ControlCorrect`, `KeepsControl`, `Released`, `NormalStaysOut`, `FliesTheMission` | see below |
| `ReplanFSMProofs` | `TypeCorrect`, `ExecutesCurrent`, `CompletesThere`, `RoundComplete`, `StopBrakes`, `StopIsKept` | see below |
| `SwarmTrajProofs` | `TypeCorrect`, `StartOrdered`, `NeverBack` | see below |
| `RTLPlannerProofs` | `TrailCorrect`, `LeadsHome`, `Apart`, `LandsThere` | see below |
| `ReliableBridgeProofs` | `TypeCorrect`, `Implements`, `StrictOrder`, `NothingMissing` | the message between send and pop is in the queue *and* in the socket, and `Unsent` leaves it out; the invariant: a sender that sends or pops has a message in hand. `StrictOrder`, through the refinement: delivered, then pending, is increasing and at most what was accepted (`Ordered`); a lemma on cutting a sequence serves `Lose`. `NothingMissing`: while nothing was lost, what is delivered followed by what is pending is 1, 2, ... up to the last message accepted |
| `TrajServerProofs` | `TypeCorrect`, `HoldsInPlace`, `HeldFirst` | see below |
| `MultipointProofs` | `Indexed`, `RouteCorrect`, `NoneSkipped` | see below |

**ManualReturn.** `KeepsControl` is not inductive: while the thread is blocked in a call,
the state still is the old one and the gate may have switched. `RunInv` (a run
past planning has a path; the thread waits only for a call) is proved with the types, and `Inv`
adds `ControlInv`, what each side knows of the other at each stage of a call: an answered call has put
the gate where it was asked to be unless somebody else touched it since, a gate that broke off a call
has forgotten what the node set, and a source the node set is the one its state needs.
`LeadsHome` rests on `ReturnPathsEnds`, on what a planned path keeps. `NeverOrphans` and
`Refinement` assume `~CallFaults`: if a call can fail although the gate switched, the node cannot
know, and the claim is false.
`OwnCommands` assumes `DelayDrains`: the queue of return commands is empty when the takeover
is called, and from then on it holds waypoints of this run only (`QueueInv`), as the blocked thread
publishes nothing. With a shorter delay a command of the previous run could still be in flight.
`Refinement` goes action by action, the takeover's two halves mapping to `Engage` or
`Interfere`, then `Depart` or `Abort`. `OwnerKnown` is about the abstract module, that the phase
alone says who owns the controller; `OwnerFollows` carries it over the refinement to node and gate.

**ReturnPath.** Every property of `rp_plan` holds for every flight, map and setting of the lengths.
The stages are recursive functions, so the first section makes the tools: `Induction` and `RangeInduction`
over sets of numbers, from the library's theorem that every set of numbers has a least one (its own induction
takes a predicate as a parameter, which the provers cannot instantiate); `Recursion`, that a function on a range
exists whose values are each made of the last; and for each recursive definition a lemma that unfolds it.

The argument then is one notion. `Leads(t, a, b, C)`: the points of `t` are samples of the history, found one
after the other from sample `a`, the last one at `b`, along chords in the set `C`. Paths that lead on from one
another join (`LeadsConcat`, `LeadsFlatten`), which is how every stage builds its path, and a path that leads from
the start is found again by the next stage where it came from (`IndicesFound`). It is not quite so for the last
point: over Home the approach and the handoff are equal when the drone departs at the handoff's height, and a search
for the last sample may end in its twin before it; `Found` allows for that. `HistoryShape` says that no other two
samples are equal, which trimming and the timestamps see to (`HistoryFacts`).

`PlanInv` says what each stage hands to the next: `AfterSimplify`, chords within epsilon; `AfterProtect`,
the first sample and the last position, and for each height of the flight a point about as high and one about as
low (`Covers`); `AfterBound`, chords that are not too long, or a gap that shows; `AfterRestore`,
chords that are allowed or short. `SimplifyDone` ... `RestoreDone` prove these one by one. Epsilon comes from the induction over
the length of a chord (`KeptSimplifies`); heights from comparing the pieces between two points, whose
extrema are kept, with the span of those that are not (`PieceCovers`); the short chords from the length flown since
the last sample kept (`ThinLeads`). That a chord `Clear` of obstacles is so at any twentieth of it, as `UncheckedIsShort` asks,
is an identity of polynomials for each of the three cases of the distance to a segment
(`BeforeStart`, `BehindEnd`, `Beside`). The
obstacles are the map's as it is: the code checks chords against the map after a voxel filter (`safe_rdp.cpp:226`),
which puts one point, the mean, for all those in a cell of `voxel_resolution`, and so may be wrong by the size of a cell. `PlanInv` speaks of functions into all numbers, which TLC cannot enumerate; the
five properties that follow from it are what it checks.

**MissionReturn.** The same kind of invariant, without assuming `~CallFaults`: this node's FAILED makes no
claim on the gate, and its reset says READY only after an answer (`AnswerMeansServed`: a call that
returned true was served). While a reset is under way the gate may have switched already; a request that was not yet served, and
one that failed before it was, leave the node in control (`Unserved`), and one that was served and not answered sets
`lostReset`, the one case `KeepsControl` and `NormalStaysOut` except. It does *not* implement
`ControlHandover`: it is RETURNING before the gate has switched, and it may be triggered anew
in FINISHED and FAILED, which the abstract hand-over has no step for.

**ReplanFSM.** `Inv` adds to the types that `EXEC_TRAJ` flies a watched plan for the latest goal,
and `ArrivalKnown`: the plan reaches the goal exactly when the machine aims at it, which is what
the arrival test relies on. So does the end of a round, which no test of the waypoint's number guards: a drone
that has arrived is near its goal (`ArrivedAtLast`), and would have been sent on were it not at the last waypoint.
`RoundInv` says that the goal of a preset round is its current waypoint, unless goals are moved. `StopInv` says where an ordered stop can be: in `EMERGENCY_STOP`
with `need_hover_stop_`, or in `WAIT_TARGET` with no target. It holds, and `StopBrakes` and
`StopIsKept` with it, if no other drone broadcasts (`~Swarm`); `rf_swarm_stop` is what happens otherwise.

**SwarmTraj**, for any number of drones. `StartsInOrder` needs what the store knows: an entry never
runs ahead of its drone and a valid one is not blank (`EntryInv`), the last entry of a store was
heard of (`SizeInv`), a set flag means that drone 0 was (`FlagInv`), and who has sent something has
planned or was stopped (`SentInv`).

**RTLPlanner.** The legs home are bounded because the drone is never farther than `Dist` from
`last_record_pos`, which is at most half of that from the last breadcrumb, although truncation sets
one without the other (`PlaceInv`). `TrailApart` is kept by a new breadcrumb because the
callback truncates instead when it is near an old one. Neither depends on where the planner or the pilot flies,
only on steps of one. Landing at Home follows from what `rtl_idx < 0` means.

**TrajServer.** `YawInv` says why holding the position of a yaw command does not move the
vehicle: nothing was flown since the command, or it came after the end. `FinishInv` says that
what is being finished has ended and was held.

**Multipoint**, for any plans, empty ones included. `IndexInRange` holds because a mission that is on
has waypoints and a plan taken in the middle of `Point_send` starts at zero. `NoWaypointSkipped` needs what
the node and the planner know of one goal (`RouteInv`): they agree but for the planner's height (`levelled`), or a report on its way tells of the
place, and then the vehicle is not where the node expects it; that the arrival test sees where the
vehicle is (`FreshInv`); and that it stays while the node waits or turns (`ArrivedInv`).

The assumptions are the named `ASSUME`s of the modules; TLC evaluates them in the runs.

**Only model-checked**: every liveness property (`ReturnCompletes`, `HoldsHome`, `ReturnArrives`,
`EmergencyEnds`, `PlanningDecides`, `GoalTakenUp`, `EveryoneStarts`, `NotifiedSends`, `FinishReleases`,
`MissionEnds`, `ReturnEnds`), which is out of the prover's reach. Every safety property of the
passing runs is a theorem.

## 5. Plan

1. **Flight stack**: `ManualReturn`, `ReplanFSM` and `TrajServer` together through the gate and
   the latched stop. The abstract promise: once a return is under way the planner publishes
   nothing the controller hears, and after a reset the normal stream does not start with a jump.
2. **ManualTakeOver** with `ground_station.cpp`: silence of the planner, no jump.
3. **DynAStar** on a small grid (rounds instead of clearing, shortest path against a reference), and the
   ring buffer of the **grid map**: no cell keeps the value of another place.
4. A theorem that a path planned by `ReturnPath` is one of `ReturnPaths` once positions that
   `ManualReturn` calls close are taken for one. So far the two meet in `PathIsHistory` only.

## 6. How to run

    tlc -config ts_hover.cfg TrajServer.tla
    tlapm TrajServerProofs.tla

`PROJECT.json` names the module of each configuration.

## 7. Not modelled

- The **trajectory optimiser**, the **drone detector** and the polynomial trajectories are
  arithmetic on reals; the models let them give any outcome the caller distinguishes.
- **Manual take-over** runs instead of the programs modelled here and shares no state with them.
- **Trajectory analysis** is a set of pure functions that label the recorded path; nothing reads the labels back.
- **Local A\*** keeps nothing between calls but a round counter; `ReplanFSM` lets planning succeed or fail.
- **Grid map** occupancy, **visualisation** and logs hold no control the properties are about.
- The **simulator** (`MARSIM-ubuntu20`) is third-party; the models assume that a vehicle follows its setpoints.
- The **monitor node** is commented out of the build (`plan_manage/CMakeLists.txt:55`).
- The **bridge nodes** relay messages and keep only a rate limit; **goal generators** and moving
  obstacles are test drivers.
- In the manual return: map input, CSV preload, headings, logs, tracking metrics, and the return
  node's validation of parameters; in the mission return, how the map check chooses a path.
- px4ctrl, the controller and the vehicle are external: they follow the commands they hear.
