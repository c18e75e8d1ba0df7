# Slambot navigation: TLA+ models, checks and proofs

This directory is a verification development for the Python code under `src/`
of this repository: a four-wheeled ROS 2 robot that explores a building on its
own, maps it, and is driven by a base controller that must stop it when
commands stop coming. The specifications are written from the code; where the
code and its comments or guides disagree, a run shows the disagreement.

## 1. The system

| component | code | state it keeps | operations | talks to |
|---|---|---|---|---|
| exploration node | `navigation/autonomous_exploration_node.py` | state machine, map, goal, path, blacklist, planner flag and generation, save future and generation | control tick (15 Hz), `_map_cb`, `_scan_cb`, `_odom_cb`, `_goal_cb`, `~/start`, `~/pause`, `~/resume`, `~/stop`, planning job on a worker thread, answer of the map saver, shutdown | publishes `cmd_vel`; calls `SaveMap`; reads map, scan, odometry, TF |
| completion monitor | `navigation/exploration_core.py:77` | count of absent goals, area, time of the last change | `reset`, `observe` | called by `_plan_done` |
| grid algorithms | `navigation/exploration_core.py` | none | inflation, reachability, frontiers, candidates, A*, simplification | called by the planning job |
| base controller | `controller/odom_publisher_node.py` | speeds, time of the last command and of the last stop, e-stop latch, pose | `cmd_vel` (two topics), `~/estop`, `~/estop_release`, `set_odom`, SIGINT; odometry thread with the command watchdog | publishes motor orders and odometry |
| kinematics | `mecanum.py`, `ackermann.py` | none | `set_velocity` | called by the base controller |
| board SDK and its node | `ros_robot_controller/` | serial port, parser, one-slot queues | commands, reads with a timeout, receive thread, publishing thread, SIGINT | the STM32 board; publishes battery, IMU, buttons, gamepad |
| servo controllers | `servo_controller/` | positions, trajectory threads | joint commands, trajectory action, action groups | board |
| teleoperation | `peripherals/joystick_control.py`, `teleop_key_control.py` | last axes and buttons, last twist, dead man; key, speeds, count of empty reads | joystick and key events, heartbeat | publishes `cmd_vel` to the base controller |
| simulation helpers | `landerpi_gazebo_sim/scripts/` | stage, phase and retries of the demo, its obstacle | staged goals, obstacle spawning | Nav2, Gazebo |

What is hard here, by kind, with the lines in `PROJECT.json` ("hazards"):

- *Two threads, a lock that covers some writes.* The exploration tick reads
  and writes its state without the lock that the worker's `_plan_done` holds;
  the base controller has no lock at all.
- *Late answers.* Planning results and map-save answers arrive after a pause,
  a stop, a new goal, a new map geometry or a new run.
- *Stale coordinates.* Goals and failure records are cell indices and a map
  may change its origin or size at any time.
- *Watchdogs and their limits.* Planning timeout, save timeout, command
  timeout, the one-second limit on repeated stops.
- *Heartbeats.* Joystick and keyboard repeat what they hold so that the watchdog
  leaves the base alone; a command they forget to drop is driven for ever.
- *An int where a message takes a float.* The generated messages of ROS 2 Humble
  assert the type of what a field is given. Three places store an int 0 or 1; the
  AssertionError ends a thread, a node, or a callback before its last statement.
- *A line that loses bytes, answers that come late.* The parser of the board has
  to find its way back, and a read does not look at whose answer it takes.
- *Several requests to other programs at once.* The demo waits for two action
  servers and two services with one variable that says what it waits for.

What makes each part correct: the exploration node moves only when it has a
path for the map it has, stops when told to, never waits for ever, and saves the
map when it is done; the base controller drives only what a fresh command asked
for, and nothing under an emergency stop; the teleoperation nodes repeat a
command as long as a hand holds it and no longer; the board's node hands on what
the board sent and nothing else, and stops the motors when it is stopped; the
demo sends one goal at a time and ends.

## 2. Modules

| module | models | kind |
|---|---|---|
| `Exploration` | exploration node with its worker, map saver and operator | state machine |
| `MCExploration` | maps and places for TLC | instance |
| `ExplorationProofs` | inductive invariants, seven theorems | proofs |
| `CommandGate` | what the base promises of its motors | abstract specification |
| `Chassis` | base controller, callback thread and odometry thread | state machine, refines `CommandGate` |
| `MCChassis` | the commands TLC sends | instance |
| `ChassisProofs` | inductive invariants, seven theorems, the refinement among them | proofs |
| `GridSearch` | the computation of one planning job, loop by loop | state machine |
| `MCGridSearch` | the maps and the heuristic TLC uses | instance |
| `GridSearchProofs` | the two searches: inductive invariants, three theorems | proofs |
| `GridPathProofs` | the paths: inductive invariants, two theorems | proofs |
| `GridShortestProofs` | the costs: inductive invariant, one theorem | proofs |
| `Teleop` | joystick and keyboard nodes, composed with the base's promise (`CommandGate`) | state machine |
| `MCTeleop` | the stick positions TLC reports | instance |
| `TeleopProofs` | inductive invariants, five theorems | proofs |
| `BoardLink` | the SDK of the board and its node, with three threads, the line and SIGINT | state machine |
| `Crc8` | the checksum of the SDK | function |
| `MCBoardLink` | two bus servos and an SBUS receiver, with `Crc8` | instance |
| `BoardLinkProofs` | inductive invariants, seven theorems, two of them about `Crc8` | proofs |
| `StagedDemo` | the staged demonstration with Nav2 and Gazebo | state machine, its own instance |
| `StagedDemoProofs` | inductive invariants, four theorems | proofs |

### Exploration

The node runs on a single-threaded executor, so its callbacks never interleave
with each other; the planning pool has one worker, whose computation and
`_plan_done` run beside them. The variables are the node's fields, plus `exec`
(where the executor is in `_control_tick`), `worker` (where the worker is), and
`queued`/`running` (the pool's queue and the job taken).

- Callbacks and services are single steps, with the guard `LockFree` when the
  code takes `self._lock`. `_pause` takes none and has no such guard.
- `_control_tick` is several steps, split where the worker can be observed:
  `TickHalted`, `TickWaitSensor`, `TickSave` return at once; `TickEnter` begins
  the freshness checks; `PlannerBusy` and `PlannerIdle` read `planning`;
  `PlanInTime` and `PlanExpired` read `planning_started`, which the worker may
  have zeroed since; `Branch` reads the state; then one handler per state.
- `_begin_plan` takes a snapshot (`Job`): geometry, goals left after the
  blacklist, the fixed goal, whether it is manual.
- `_plan_done` checks the generation and takes the lock (`ResultTaken`), decides
  (`ResultUseless`, `PathUnsafe`, `PathCommitted`, `FixedGoalFailed`,
  `ExplorationFinished`, `GoalsAbsent`), publishes the state (`PublishOutcome`)
  and then frees the planner (`ReleasePlanner`), as `_finish_planning` does. In
  `_begin_save` the order is the other one, and so it is in `EnterSave`.
- Only equality of generations matters, so a running job whose generation is no
  longer the current one is the value `Stale`, and a save request of the current
  generation is `saveLive`.

Abstractions, all of which add behaviours rather than remove them unless said:

- The outcome of comparing a clock with a timeout is free. (Kept: a timestamp
  that was just zeroed is always expired.)
- A goal is a place of the world, a cell is a place with the geometry its index
  was computed in, and `Index` says which index that is. Two cells are the same
  key for the code when their indices are equal.
- A grid is its geometry and the set of candidate goals that can be reached in
  it. A* is taken to find a way to each of them; `GridSearch` shows that it
  does (`NoCandidateFails`). Which candidates are too near, which of the listed records
  have expired and which candidate scores best is free.
- The `WAIT_SENSOR` and `SAVE_MAP` branches of the tick, which the worker can hardly
  disturb, read and write the state in one step. An exception in the tick
  (`TickFailed`) is raised before its handler has changed anything.
- Scores, the DFS heading, the arithmetic of following and recovery, and every
  publication but the velocity are left out; a velocity is zero or not.

### Chassis and CommandGate

A velocity is the set of axes on which it is not zero. `cmd_vel_callback` is
split at every access to a field the odometry thread also writes: accept
(`CommandHeard`), assign (`LinearXSet`, `LinearYSet`, `TurnTaken`,
`AngularSet`), read again field by field (`FieldRead`), compute, publish. A
pass of `cal_odom_fun` decides on the age of the command and the latch
(`PassHalted` or `PassIntegrated`), zeroes the fields one by one
(`AxisZeroed`), then sends or skips a stop, and fills the odometry message
(`TwistFilled`). SIGINT (`Shutdown`) interrupts a callback anywhere. Time is
counted in units; only the pause between two passes takes time.

`ints` is the set of fields that hold the int 0 `set_odom` stores
(`odom_publisher_node.py:215`); commands and halted passes overwrite it with floats.
A pass that finds one there cannot fill its message: `TwistRaised` is the
AssertionError at line 318, which nothing catches, and ends the thread for good,
odometry and watchdog. From then on only commands, the emergency stop and SIGINT
stop the motors.

Left out: on bases other than mecanum the linear fields hold the message's
values for an instant before they are corrected; pose integration; the
steering servo. Assumed: `pub_odom_topic` is true, as the launch file sets it
(`controller/launch/odom_publisher.launch.py:64`), since there is no watchdog
without it, `cmd_timeout_sec` is positive, and the clock is not set back.

`CommandGate` says what a user of the base may rely on: motors start only on a
fresh command with the latch open, and no command outlives `RunOn` units as long
as the watchdog is there. A reset of the odometry upsets it (`Upset`); a watchdog
that is upset calms down or is lost (`Calm`, `Lose`). `Chassis` maps `age` to the
age of the last command, `latched` to the e-stop, `moving` to "the last order
drives some axis", and `watch` to whether the thread lives and finds an int.

### GridSearch

The functions a planning job calls, in the order it calls them; `phase` says
which one is running. `FloodLayer` is `reachable_free`, a layer of its queue at a
time. `FrontierGoal` and `FixedGoal` start `astar` as the two branches of
`work()` do; `Expand`, `EntryOutdated` and `GoalReached` are the three ends of one
turn of its loop, on the least entry of the heap, and `TraceBack` its walk back.
`Simplify` is one turn of the loop of `simplify_path`, `RoundCorner` one of
`round_path_corners`, and `Rounded` the check that falls back on the simplified
path. Cells off the map do not exist: a fixed goal there is refused by the
code as one in an obstacle is. The radius is in cells, as the code has it after
rounding it up.

Left out or free: the clusters of frontiers, the sampling of candidates, their
minimum distance and the bounded batch (any reachable cell may be the candidate
once there is a frontier), the scores, and the search of one candidate stands
for those of a job. Lengths are integers and quotients exact, where the code
has floats. `Estimate` is any function with natural values: only that the path is
the shortest depends on more, namely that a move brings the estimate down by no
more than it costs (`HeuristicAssumption`), as it does `math.hypot`
(`exploration_core.py:451`).

### Teleop

Both nodes publish on `controller/cmd_vel`, with queues of one message
(`cmdVel`); the base takes a message and acts on it in two steps (`BaseHears`,
`BaseActs`), and its watchdog revokes (`BaseRevokes`). The base is the abstract
`CommandGate` that `Chassis` is shown to implement, so that what is shown of a
hand on the stick holds of the motors.

- `JoyCallback` is one call of `joy_callback`. `ButtonPressed`, `ButtonReleased`
  and `SticksCompared` are what it can do, in the order of the code;
  `SticksCompared` keeps the call of `_deadman_held` on a dictionary, with its
  three outcomes. `axes_callback` changes the axes it is given, and those are
  what `last_axes` becomes: that is `DeadZone`.
- `Heartbeat` is the timer, `KeyRead` one turn of the keyboard loop, whose wait
  for a key ends empty after one unit; `KeyQuit` is ctrl-C and the `finally`.
  `JoyKilled` and `KeyKilled` end a node without its last words: then only the
  watchdog is left.
- `Raises` is the int 1 that `axes_callback` gives to `linear.z` on the Ackermann
  base when the stick does not drive it (`joystick_control.py:111`). The call at line
  193 is in a try: nothing is published or released, and the command of an earlier
  message is repeated. The call at 185, when the button goes down, is not:
  `JoyRaised` ends the node.
- The keyboard's speeds are their signs. `Published` allows both answers where
  the 0.1 s between messages may have passed or not.

Left out: the buttons that sound the buzzer, the magnitude of velocities, an
emergency stop of the base, and resets of its odometry (no program of the repository
publishes on `set_odom`), so that the gate's watchdog is on. A unit of time is 0.1 s; messages and callbacks take
none.

### BoardLink and Crc8

`exec` is where the executor thread is: `spin`, in `set_motor_state` (`motor`),
between the packets of another command (`write`), between two reads of a service
call (`read`), or waiting for an answer (`waiting`); `down` once an exception or
the end of `spin` has ended the process. `Received` gives one byte to
`recv_task` (`StartByte1` to `Check` are its six states, `Put` its handlers with
their queues of one), `PubData` is one look of the publishing thread, and `PubRaised` its
end: an SBUS report that says its signal is lost makes `get_sbus` put ints into four
channels, which the message refuses. Every report of every kind is published by that
thread (`publishing`), so none is from then on; the services go on.
`Interrupted` is the handler of SIGINT, which runs in the middle of whatever the
executor thread does; the callback then goes on. `TimedOut` is `queue.Empty`:
nobody catches it, so it ends the process. So do an answer that the arrays of a
response do not take (`AnswerRaised`), a value that does not fit into its field
(`CommandRaised`), and `set_oled_state`, which calls a function `Board` has not.

The board and the line are external: a request is answered once, late or never,
inputs are reported again and again, and up to `MaxFaults` bytes from the board
are lost or altered. `Checksum` is a parameter of `BoardLink`; the run takes
`checksum_crc8` from `Crc8`, table and all, since which faults get through
depends on it.

Left out: what the fields of a report mean (a report is one byte here, and one
that is published), and of commands but the motors' everything but how many
packets they send. The parser's frame is cleared when a packet is done with, as
nothing reads it before the next begins.

### StagedDemo

All callbacks of the node run on one executor, so each is a step: the timer
(`Waiting`, `StartNavigation`, `NextStage`, `Retry`, `Insert`, `SafetySkip`), the
answers of Nav2 (`goal` says how far the one outstanding goal is) and those of
Gazebo (`deleting`, `spawning`: the calls under way, `world`: the obstacles there
are). `fail_or_retry` and `clear_active_obstacle` are part of the steps that
call them. A service that is not there is skipped, as the code does.

Free: when the timer's pauses are over and where the robot is. `steady` and
`prompt`, chosen at the start, are assumptions on Gazebo (its delete service does
not go away; it answers before the next obstacle is due) that the two properties
of the obstacles name as their condition; the runs also explore the behaviours
without them.

## 3. Runs

| run | question | result |
|---|---|---|
| `exploration_default` | shipped parameters, two places, two geometries, two confirmations | passes, 331,014 states |
| `exploration_goals` | external goals accepted, one place, two geometries | passes, 173,837 states |
| `exploration_save_lost` | is SAVE_MAP left only by the outcome of the save? | violated |
| `exploration_stale_record` | are the failure records those of the present map? | violated |
| `exploration_early_completion` | does a run complete only without reachable goals? | violated |
| `chassis_watchdog` | Ackermann base, five commands, timeouts 2 and 4, passes up to 2 apart | passes, 28,962 states |
| `grid_search` | 3 by 3 maps, up to two occupied and one unknown cell, two starts, radius 0 and 1 | passes, 61,544 states |
| `chassis_revoked_late` | are the motors stopped one pass after the command timeout? (mecanum) | violated |
| `teleop` | mecanum and Ackermann, five stick positions, every kind of dead man, all keys | passes, 421,084 states |
| `teleop_held` | is a command that is repeated one a stick is held for? | violated |
| `board_link` | two servos, one packet or read in a callback, an SBUS stick at two places and its lost signal, one fault, seven bytes under way | passes, 821,124 states |
| `staged_demo` | three stages, one retry each | passes, 16,226 states |

Bounds. Two geometries are enough for a map to change and to change back; two
places, of which one lies outside the second map and the other one has there
the index of the first, are enough for a goal to be kept, to be lost, and to be
confused with another one. One queued and one running job is all the pool can
hold. `ConfirmCount = 2` distinguishes the first absence from the last. The
external-goal run is over one place: what matters there is who asked for
it. `Oldest` (the cap on ages) is above every age a property mentions, which
`TimingAssumption` requires. A 3 by 3 map is the smallest in which a diagonal is barred at a
corner, a way leads around an obstacle, costs are improved after a cell was
reached and lines are longer than one move; the two starts are a corner and an
edge. In `teleop` the sticks are centred, drift, are held ahead, aside, and so as
to turn while another drifts: every pair the comparison with `last_axes` can take
for another. The timeout of the base is three heartbeats, as configured (0.3 s).
In `board_link` two servos read one after the other, in two calls, are the least
that can mix their answers, and seven bytes hold a whole packet of an answer; one
fault in it, a byte lost or turned into the function of a servo, is enough to move
the rest of a frame and of the next, or a report to the queue of the answers. All
reports take the same way through the code but for the lost signal of SBUS, so one
that can lose it stands for all. Ids, functions and stances are small bytes; Crc8 is the whole
table. Three stages are a first, one with an obstacle before and after it, and a
last one. No symmetry is used: places, geometries, servos and stages are not
interchangeable.

Properties. `PlanFlagMatchesJob`, `FollowIsCommitted`, `MovesWithoutPlan`,
`StopHolds`, `CommitMatchesRequest` and `StillWhenNotDriving` are about what two
threads leave behind together. `SaveResolves` and `PlanResolves` are liveness
properties. On the base, `RunOnBounded`, `OdometryFollowsCommands` and
`EStopHolds` bound what a lost or forbidden command can still do (the first two for
as long as the odometry thread lives), and
`WithinRequest` says that fields torn by the two threads only lose axes.
`NoCandidateFails` relates two searches that were written apart,
`FloodIsReachable`, `FailureIsReal` and `PathIsShortest` compare a loop with
what it should compute, and `PathServesGoal` says that neither thinning pass
gives up what the search has established. `StickIsHeld`, `DeadmanRevokes`,
`NobodyDrives` and `KeptFed` relate the hand, the command that is repeated and the
watchdog of the base (`StickIsHeld` says what is left of the hand where the Ackermann
base raises an exception); `TurnEnds` is about the key that is no longer pressed.
`ParserInFrame`, `PacketsAreGenuine` and `AnswerMatchesRequest` say what a bad line
and a late answer cannot do, `StopIsLast` what SIGINT in the middle of a callback
leaves, `CallReturns` and `ReportsCatchUp` that no callback waits for ever and no
last report is lost while the publishing thread is there. `OneGoal`, `OneObstacle`, `NoneForgotten` and `DemoEnds` relate
the phase of the demo to what other programs have of it. Each is violated by a seeded defect, written beside the definition it replaces
and named in `PROJECT.json` ("mutants").

Deadlock is not checked: after `destroy_node`, or SIGINT, the system stops, and
so does a planning job when it returns. It is checked in `teleop` and
`staged_demo`; the board's node ends, with the process.

Fairness (`FairSpec`). The executor keeps ticking: the control timer is periodic
and every callback returns. The worker's computation ends: it searches a
finite grid. The clock passes the save timeout while the node is in `SAVE_MAP`
(`SaveExpires`). Nothing is assumed of sensors, map updates, operators, or
the map-save service. `SaveResolves` excepts a run held by pause or stop,
since the tick then returns before `_save_tick`. A planning job is one
computation on one thread, which runs until it returns (`Terminates`). In
`Teleop` time goes on however many messages come (`SF(Tick)`), the timer of the
heartbeat fires and the wait for a key ends: the queues hold one message and
`select` has a timeout. In `BoardLink` threads go on and a wait with a timeout
ends; that the board repeats its reports and finds room on the line for them
(`SF(Report)`) is an assumption on the board, needed by `ReportsCatchUp` alone: a
full queue keeps the older report, and nothing else would bring the newer one. In
`StagedDemo` the timer fires and Nav2 answers (`WF(Nav2)`, an assumption: the demo
waits for it without a timeout); nothing is asked of Gazebo.

### What the violated runs show

1. `exploration_save_lost`: `_begin_save` frees the planner before SAVE_MAP is
   set, so a tick that finds the planner idle dispatches on the old state and
   overwrites SAVE_MAP.
2. `exploration_stale_record`: only three states drop the goal when the
   geometry changes; in REPLAN the old cell index is then blacklisted in the new
   map.
3. `exploration_early_completion`: goals skipped because of an unexpired
   failure record count as absent.
4. `chassis_revoked_late`: a stop sent within the last second (an e-stop
   that was released) suppresses the watchdog's stop for a command heard since.
   `RunOnBounded` is the bound that does hold.
5. `teleop_held`: with a dead man's button configured, the second check of the
   button is made on a dictionary and raises, so that the sticks act only when
   the button goes down. Centring them leaves the heartbeat repeating the old
   command until the button is let go. `DeadmanRevokes` is what does hold.

One more thing seen while modelling and stated in no document, so kept as an
exception in `StopHolds`: `_stop` and `_goal_cb` do not bump
`save_generation`, so the answer to an earlier map-save request still moves the
node to COMPLETE or ERROR.

More of that kind, stated in no document: the modules do what the code does, and
the properties say how far it goes.

- `set_odom` under a fresh command ends the watchdog (`TwistRaised`), and a command
  lost after that drives the motors until another, an emergency stop or SIGINT.
  `RunOnBounded`, `OdometryFollowsCommands` and `ImplementsGate` therefore name the
  living thread; `UnresetIsBounded` is the bound without that condition for a base
  whose odometry is never reset.
- On the Ackermann base, without a dead man's button, centring the sticks does not
  release: `StickIsHeld` allows an earlier command that drives forward there. A first
  message of the gamepad that does not drive forward ends the node.
- After a lost SBUS signal no report is published any more; `ReportsCatchUp` names
  the living thread.

- A gamepad whose link is lost while a stick is held sends nothing, and the
  heartbeat keeps the watchdog fed for ever; so does the linear speed of the
  keyboard, which no key release clears on any base but the Ackermann one.
- `StopIsLast` excepts SIGINT in the middle of `set_motor_state`: the callback
  goes on and writes its speeds after the stop. A read that times out ends the
  process without stopping the motors.
- Every answer of a PWM servo is a number where the response has an array, so
  `get_pwm_servo_state` ends the node, as does a bus position below zero.
- The obstacle of a stage that failed stays until the next one is due, although
  the README of the simulation speaks of a cleanup after each stage. The distance
  to the robot is checked before the old obstacle is deleted, and the new one is
  spawned after the answer.

## 4. Proofs

All theorems hold for every value of the constants under the named assumptions
`GeometryAssumption`, `ParameterAssumption`, `NoneAssumption` (Exploration),
`TimingAssumption`, `CommandAssumption` (Chassis), `MapAssumption`, `CostAssumption`,
`HeuristicAssumption` (GridSearch), `TeleopAssumption`, `TimeAssumption` (Teleop),
`LinkAssumption`, `ChecksumAssumption` (BoardLink) and `StagesAssumption`
(StagedDemo), which TLC evaluates on the runs of these modules.

`ExplorationProofs`. None of the properties is inductive alone: that FOLLOW_PATH has
a path depends on what the worker is about to publish, and that on which
generation its job has and on who may have changed the map since. The
strengthening, in named parts:

- `Mapped`: states that imply a map have one, and jobs and cells refer to it.
- `Pool`: which of `queued`, `running`, `worker`, `planning` go together.
- `Drive`: what FOLLOW_PATH, and a worker about to publish it, may rely on.
- `Commit`: a job of the current generation still matches goal and manual flag.
- `Control`, `Requests`, `Saved`: the gates, the states a request leaves
  behind, and when a save request can be pending.
- `Still`: the velocity at each point of a tick (used by `StandsStill`, under
  the assumption that external goals are not accepted: with them, a late
  map-save answer can end a run that is moving again).

Theorems: `TypeCorrect`, `PlanFlagIsRight`, `FollowIsAlwaysCommitted`,
`MotionIsGated`, `StopIsFinal`, `CommitsAreForTheRequest`, `StandsStill`.

`ChassisProofs`. `Bounded` ties the motors, the age of the command, the age of the
last stop and where the odometry thread is; `Resetting` says which fields are
already zero in the middle of a pass; `Torn` that fields, order and request
only lose axes. From them: `TypeCorrect`, `RunOnIsBounded`, `EStopIsHeld`,
`OdometryIsFollowing`, `WithinRequestHolds`, and `ChassisImplementsGate`, whose
step proof maps each action to a gate action or a stutter (`WatchKept` says which
steps leave the watchdog as it is). `RunOnIsBounded` and `OdometryIsFollowing` are
about a living odometry thread, since `set_odom` can end it; `UnresetIsBounded` shows
that nothing else does: in every behaviour without `SetOdom` the bound holds outright.

`GridSearchProofs`, under `MapAssumption` and `CostAssumption`: for maps of
every size and every heuristic, the flood fill is exact (`FloodIsExact`), A*
fails only when no way exists (`FailuresAreReal`) and so never for a candidate
(`CandidatesNeverFail`). `FloodInv` says that every closed set around the start
contains what has been found and that only the layer at work is left by a safe
move; `SearchInv` that a cell A* has reached either still has the entry that
gave it its cost or has had all its moves looked at, the goal being of the first
kind; `PathInv` that a path found is not lost by the passes after it. When the
heap is empty the cells reached are a closed set without the goal, so that the
cells found by the flood fill, contained in every closed set, do not hold it
either.

`GridPathProofs`, under the same assumptions: `TypeCorrect`, and that the
waypoints lead from the robot to the goal over safe lines (`PathsServeGoals`).
`TreeInv` says that every cell A* has reached, the start apart, came from a reached
cell by a safe move, which `MoveIsSafeLine` shows to be a safe line in the sense of
`_grid_line`; `PassInv` that the trace, then `simplify_path`, then
`round_path_corners` hand on a sequence of cells with safe lines between them and
the right ends. A rounded path is only taken when `path_is_safe` agrees, and
`TowardsIsCell` shows that the cells rounding computes are on the map.

`GridShortestProofs`, under the same assumptions and `HeuristicAssumption`: the path
returned is as cheap as the cheapest way from the robot to the goal
(`PathsAreShortest`), for maps of every size. `CostInv` says that a cell costs no
less than the cell it came from and the move between them, and that each cell
reached is `Settled` (every safe move from it has been charged at the cost it has)
or `Scheduled` (the heap holds an entry with that cost). Entries left behind by a
cheaper way found later are nobody's schedule, so that skipping them loses nothing.
When the goal is popped, the cost of a cell, or what the goal leaves for it where
that is less, is a potential: no move raises it by more than its cost, so no way is
cheaper than it asks for, and the path traced back (`Tight`) costs just that. The
reference `Cheapest` looks at ways of at most as many moves as there are cells, which
is enough because that path enters no cell twice. The recursive function is unfolded
through its definition by `CHOOSE`; induction over its argument is induction over
sets of numbers (`LeastNatural`, from `NatLessThanWellFounded`), which needs no
theorem with an operator for a parameter.

`TeleopProofs`, for every set of machines and stick positions and every timeout of
at least two heartbeats: `TypeCorrect`, `SticksRule`, `ButtonRules`,
`WatchdogIsFed`, `StopIsSaid`. `Steered` adds to `StickIsHeld` that the axes
compared with the next message hold the same sticks; `Fed` that a held command was
sent no longer ago than the last heartbeat or the last message of the keyboard;
`Quiet` that the newest message under way is a stop when nobody holds a command
and no node was killed, and `Revoked` what the watchdog does when one was.

`BoardLinkProofs`, for every checksum, every byte, every number of faults:
`TypeCorrect` and `ParserSafe`, which need each other (the count of data stays a
byte because the length that bounds it is one) and `ReadPending`, that whoever waits
has a read to do; and `StopHolds`, with `MotorLate`: a thread in `set_motor_state`
after SIGINT was there before it (`midMotor`).

Two more are about a line without faults so far, again for every checksum and every
interleaving of the threads with the board and its reports: a queue holds what the board sent for it (`CleanLineIsGenuine`), and a read takes the answer to its
own request, although the code compares neither servo nor command
(`CleanLineAnswers`). Their invariant `LineInv` puts back in front of the bytes under
way those of the packet the parser is in the middle of (`Consumed`), and says what
that whole line can be at each stage of a read: reports only (`Chatter`) when nothing
is asked or no longer answered, reports around one answer while one is due, and
nothing but reports behind an answer already in its queue. `ParseLine` shows that a
line of whole packets has one reading only, so that the parser finds the boundaries
where the board put them.

About the checksum itself: `SdkMeetsAssumption` (`checksum_crc8` is what
`ChecksumAssumption` asks for, so that the theorems above hold of the code's own
table) and `OneByteIsNoticed`: a frame with one byte altered, wherever and however
long it is, has another checksum. Every byte is once in the table (`Places` is where)
and exclusive or can be undone, so two checksums that differ stay different under
the same bytes.

`StagedDemoProofs`, for every number of stages: `GoalsAreSingle`, which is inductive;
`TypeCorrect`, with `StagesLeft` and that invariant; `ObstaclesAreSingle` and
`ObstaclesAreKnown`, which need `OnTheWay`: what the calls to Gazebo under way can be
when there is an obstacle, when it is known and when another is to come.

Model-checked only: `SaveResolves`, `PlanResolves`, `Terminates`, `TurnEnds`,
`CallReturns`, `ReportsCatchUp` and `DemoEnds` (liveness under fairness is out of the
prover's reach); and `PacketsAreGenuine` and `AnswerMatchesRequest` once a fault has
happened: a lost byte moves every boundary behind it, and which of the frames read
then pass the check is a fact about CRC-8 and the packets of an instance, so they are
theorems for a line without faults and checks on `board_link` for one with. The
violated properties are of course not theorems.

## 5. Not modelled

- *The clock of the completion monitor, and of following.* Whether the area has
  been stable, a goal has been followed too long or progress has been made is a
  free choice in `Exploration`, which allows more than the code does; what depends on
  the clock itself, that it runs on through a pause for one, is not shown.
- *Which candidates are tried.* Clusters of frontiers, sampling, the bounded batch
  and scores are a free choice of a reachable cell.
- *The servo controllers and the trajectory action.* They compute positions and send
  them on. Their two hazards lie between this code and rclpy: a synchronous call
  from a node nobody spins (`servo_controller.py:80`), and an action callback that
  returns while its thread goes on (`joint_trajectory_action_controller.py:60`).
- *Arithmetic over floats.* Wheel speeds, pose integration, the controller of
  following, scan sectors, the PID and the helpers of `sdk`.
- *Scripts that publish or write one thing.* `init_pose.py`,
  `tf_broadcaster_imu.py`, `initial_pose_publisher.py`, `generate_static_map.py`.
- *Launch files, URDF and configuration.* Declarative; the parameters they set are
  the constants of the modules.

What comes next, in this order: the clock of the completion monitor and of
`_follow` (goal, stuck and blocked timeouts, across pause and resume) and the order
of the batch of candidates, the one part of a planning job that is still free.
