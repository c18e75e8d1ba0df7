---------------------------- MODULE Exploration ----------------------------
(***************************************************************************)
(* The autonomous_exploration node: a finite-state machine driven by one   *)
(* executor thread (timer, subscriptions, services, the map-save answer)   *)
(* and a planning pool with one worker thread.  Both write the same fields *)
(* of the node; self._lock covers some of those writes and not others.     *)
(*                                                                         *)
(* Abstractions                                                            *)
(*  - Time.  A comparison of a clock reading with a timeout is a free      *)
(*    choice of its outcome, except where the code has just zeroed the     *)
(*    timestamp it reads (planning_started).                               *)
(*  - Space.  A goal is a place of the world; a grid is its signature      *)
(*    (geometry) and the set of frontier goals reachable in it.  A cell is *)
(*    a place together with the geometry in which its index was computed;  *)
(*    the code compares indices only, as SameIndex does.                   *)
(*  - Generations.  planning_generation and save_generation only grow and  *)
(*    are only compared for equality, so a job (a save request) keeps      *)
(*    whether its generation is still the current one: Stale is a running  *)
(*    job whose generation is not, saveLive a request whose generation is. *)
(*  - Scores, controller arithmetic and publications other than the        *)
(*    velocity command are left out.                                       *)
(***************************************************************************)
EXTENDS Naturals, FiniteSets

CONSTANTS
  Places,         \* places of the world a goal can be at
  Geoms,          \* map signatures: width, height, resolution, origin
  InMap,          \* [Geoms -> SUBSET Places], the places inside each map
  Index,          \* [Geoms -> [Places -> Nat]], the cell index of a place
  ConfirmCount,   \* no_frontier_confirm_count
  AutoStart,      \* auto_start
  AcceptGoals,    \* accept_external_goals
  AutoSave,       \* auto_save_map
  InitialScan,    \* initial_scan_enabled
  None,           \* Python's None
  Stale           \* a running job whose generation is outdated

ASSUME GeometryAssumption ==
  /\ InMap \in [Geoms -> SUBSET Places]
  /\ Index \in [Geoms -> [Places -> Nat]]
ASSUME ParameterAssumption ==
  /\ ConfirmCount \in Nat \ {0}
  /\ AutoStart \in BOOLEAN /\ AcceptGoals \in BOOLEAN
  /\ AutoSave \in BOOLEAN /\ InitialScan \in BOOLEAN

States == {"IDLE", "WAIT_SENSOR", "WAIT_TF", "WAIT_MAP", "INITIAL_SCAN",
           "DETECT", "SELECT", "PLAN", "FOLLOW", "REPLAN", "RECOVERY",
           "VERIFY", "SAVE", "COMPLETE", "ERROR"}

\* The states in which a control tick only repeats the stop command.
Halted == {"IDLE", "COMPLETE", "ERROR"}

Cell == [geom : Geoms, place : Places]
CellAt(g, p) == [geom |-> g, place |-> p]
SameIndex(c, d) == Index[c.geom][c.place] = Index[d.geom][d.place]

Grid == [sig : Geoms, goals : SUBSET Places]

\* What work() closes over: the snapshot _begin_plan takes under the lock.
\* goals: the candidate goals left when those too near and those on record are
\* skipped; listed: one was skipped for its record.
Job == [frontier : BOOLEAN, sig : Geoms, goals : SUBSET Places,
        listed : BOOLEAN, fixed : Places \cup {None}, manual : BOOLEAN]

ASSUME NoneAssumption ==
  /\ None \notin Places /\ None \notin Geoms /\ None \notin Cell
  /\ None \notin Grid /\ None \notin Job
  /\ Stale \notin Job /\ Stale # None

VARIABLES
  state,          \* self.state
  paused,         \* self.paused
  stopRequested,  \* self.stop_requested
  velocity,       \* self.last_command: "zero" or "moving"
  grid,           \* self.grid
  goal,           \* self.goal
  manualGoal,     \* self.manual_goal_world
  activeGoal,     \* self.active_goal_world
  hasPath,        \* self.path is not empty
  pathSig,        \* self.path_signature
  blacklist,      \* the keys of self.blacklist
  noGoalCount,    \* self.completion.no_goal_count, up to ConfirmCount
  scanDone,       \* self.initial_scan_completed
  planning,       \* self.planning
  planStarted,    \* self.planning_started # 0.0
  saveFuture,     \* self.save_future is not None
  saveLive,       \* a save request of the current save_generation is unanswered
  exec,           \* where the executor thread is in _control_tick
  queued,         \* the job waiting in the pool
  running,        \* the job the worker has taken
  worker,         \* where the worker thread is in work() and _plan_done
  result,         \* what _plan_done, past its generation check, decides about
  outcome         \* the state _plan_done is about to publish

controlVars == <<paused, stopRequested>>
goalVars    == <<goal, manualGoal, activeGoal, hasPath, pathSig>>
recordVars  == <<blacklist, noGoalCount, scanDone>>
planVars    == <<planning, planStarted, queued, running>>
saveVars    == <<saveFuture, saveLive>>
workerVars  == <<worker, result, outcome>>
vars == <<state, velocity, grid, exec, controlVars, goalVars, recordVars,
          planVars, saveVars, workerVars>>

(***************************************************************************)
(* Every critical section of the executor is a single step, so the lock is *)
(* held between two steps only by the worker: from the generation check of *)
(* _plan_done to its return.                                               *)
(***************************************************************************)
Critical == {"decide", "saving", "publish", "clear"}
\* Seeded defect: the executor enters its critical sections regardless.
LockIgnored == TRUE
LockFree == worker \notin Critical

\* An unexpired or expired record whose index is c's is overwritten.
Put(bl, c) == {d \in bl : ~SameIndex(d, c)} \cup {c}
Pop(bl, c) == {d \in bl : ~SameIndex(d, c)}

\* The places of geometry g whose cell index is on the blacklist.
Listed(g) == {p \in InMap[g] : \E c \in blacklist : SameIndex(c, CellAt(g, p))}

FixedGoal == IF manualGoal # None THEN manualGoal ELSE activeGoal

Outdated(job) == IF job = None THEN None ELSE Stale

\* _invalidate_planning: the running job keeps the worker, a queued one is
\* cancelled.  Seeded defect: only the flag is cleared.
ForgetFlagOnly ==
  /\ planning' = FALSE
  /\ planStarted' = FALSE
  /\ UNCHANGED <<queued, running>>
InvalidatePlanning ==
  /\ planning' = FALSE
  /\ planStarted' = FALSE
  /\ queued' = None
  /\ running' = Outdated(running)

Init ==
  /\ state = IF AutoStart THEN "WAIT_SENSOR" ELSE "IDLE"
  /\ paused = FALSE
  /\ stopRequested = FALSE
  /\ velocity = "zero"
  /\ grid = None
  /\ goal = None
  /\ manualGoal = None
  /\ activeGoal = None
  /\ hasPath = FALSE
  /\ pathSig = None
  /\ blacklist = {}
  /\ noGoalCount = 0
  /\ scanDone = FALSE
  /\ planning = FALSE
  /\ planStarted = FALSE
  /\ saveFuture = FALSE
  /\ saveLive = FALSE
  /\ exec = "spin"
  /\ queued = None
  /\ running = None
  /\ worker = "idle"
  /\ result = None
  /\ outcome = None

(***************************************************************************)
(* Services and subscriptions, on the executor thread between two ticks.   *)
(***************************************************************************)
Start ==
  /\ exec = "spin" /\ LockFree
  /\ InvalidatePlanning
  /\ goal' = None /\ manualGoal' = None /\ activeGoal' = None
  /\ hasPath' = FALSE /\ pathSig' = None
  /\ blacklist' = {} /\ noGoalCount' = 0 /\ scanDone' = FALSE
  /\ saveFuture' = FALSE /\ saveLive' = FALSE
  /\ velocity' = "zero"
  /\ paused' = FALSE /\ stopRequested' = FALSE
  /\ state' = "WAIT_SENSOR"
  /\ UNCHANGED <<grid, exec, workerVars>>

\* _pause takes no lock.  Seeded defect: it leaves the last command standing.
PauseWithoutStop ==
  /\ exec = "spin"
  /\ paused' = TRUE
  /\ UNCHANGED <<state, velocity, grid, exec, stopRequested, goalVars,
                 recordVars, planVars, saveVars, workerVars>>
Pause ==
  /\ exec = "spin"
  /\ paused' = TRUE
  /\ velocity' = "zero"
  /\ UNCHANGED <<state, grid, exec, stopRequested, goalVars, recordVars,
                 planVars, saveVars, workerVars>>

Resume ==
  /\ exec = "spin"
  /\ paused' = FALSE
  /\ UNCHANGED <<state, velocity, grid, exec, stopRequested, goalVars,
                 recordVars, planVars, saveVars, workerVars>>

Stop ==
  /\ exec = "spin" /\ LockFree
  /\ stopRequested' = TRUE
  /\ InvalidatePlanning
  /\ velocity' = "zero"
  /\ state' = "IDLE"
  /\ UNCHANGED <<grid, exec, paused, goalVars, recordVars, saveVars,
                 workerVars>>

\* _goal_cb with an accepted goal in the map frame.  Seeded defect: the plan
\* under way is not invalidated.
KeepPlanWithNewGoal(p) ==
  /\ AcceptGoals
  /\ exec = "spin" /\ LockFree
  /\ manualGoal' = p /\ activeGoal' = None /\ goal' = None
  /\ hasPath' = FALSE
  /\ velocity' = "zero"
  /\ state' = "PLAN"
  /\ UNCHANGED <<grid, exec, controlVars, pathSig, recordVars, planVars,
                 saveVars, workerVars>>
ExternalGoal(p) ==
  /\ AcceptGoals
  /\ exec = "spin" /\ LockFree
  /\ manualGoal' = p /\ activeGoal' = None /\ goal' = None
  /\ hasPath' = FALSE
  /\ InvalidatePlanning
  /\ velocity' = "zero"
  /\ state' = "PLAN"
  /\ UNCHANGED <<grid, exec, controlVars, pathSig, recordVars, saveVars,
                 workerVars>>

(***************************************************************************)
(* _map_cb.  A grid of the same geometry only replaces the old one; a new  *)
(* geometry clears the failure records and, when a plan or a path depends  *)
(* on the old one, restarts planning towards the goal kept in world        *)
(* coordinates.                                                            *)
(***************************************************************************)
\* Seeded defect: a path being followed survives a new geometry.
PlanStatesOnly == {"SELECT", "PLAN"}
MapDependent == {"SELECT", "PLAN", "FOLLOW"}

GeometryChanged(new) == grid # None /\ grid.sig # new.sig

MapRefreshed(new) ==
  /\ exec = "spin" /\ LockFree
  /\ grid' = new
  /\ ~(GeometryChanged(new) /\ state \in MapDependent)
  /\ blacklist' = IF GeometryChanged(new) THEN {} ELSE blacklist
  /\ UNCHANGED <<state, velocity, exec, controlVars, goalVars, noGoalCount,
                 scanDone, planVars, saveVars, workerVars>>

MapReshaped(new) ==
  /\ exec = "spin" /\ LockFree
  /\ GeometryChanged(new) /\ state \in MapDependent
  /\ grid' = new
  /\ blacklist' = {}
  /\ InvalidatePlanning
  /\ hasPath' = FALSE
  /\ velocity' = "zero"
  /\ \/ /\ FixedGoal # None /\ FixedGoal \in InMap[new.sig]
        /\ goal' = CellAt(new.sig, FixedGoal)
        /\ state' = "PLAN"
        /\ UNCHANGED <<manualGoal, activeGoal>>
     \/ /\ FixedGoal # None /\ FixedGoal \notin InMap[new.sig]
        /\ goal' = None /\ manualGoal' = None /\ activeGoal' = None
        /\ state' = "DETECT"
     \/ /\ FixedGoal = None
        /\ goal' = None
        /\ state' = "DETECT"
        /\ UNCHANGED <<manualGoal, activeGoal>>
  /\ UNCHANGED <<exec, controlVars, pathSig, noGoalCount, scanDone, saveVars,
                 workerVars>>

MapUpdate ==
  \E g \in Geoms : \E goals \in SUBSET InMap[g] :
    LET new == [sig |-> g, goals |-> goals] IN
    MapRefreshed(new) \/ MapReshaped(new)

(***************************************************************************)
(* _control_tick, first part: the branches that return at once.            *)
(***************************************************************************)
Gated == paused \/ stopRequested

TickHalted ==
  /\ exec = "spin" /\ (Gated \/ state \in Halted)
  /\ velocity' = "zero"
  /\ UNCHANGED <<state, grid, exec, controlVars, goalVars, recordVars,
                 planVars, saveVars, workerVars>>

TickWaitSensor ==
  /\ exec = "spin" /\ ~Gated /\ state = "WAIT_SENSOR"
  /\ velocity' = "zero"
  /\ state' \in {"WAIT_SENSOR", "WAIT_TF"}
  /\ UNCHANGED <<grid, exec, controlVars, goalVars, recordVars, planVars,
                 saveVars, workerVars>>

\* _save_tick.  Without auto_save_map nothing is saved.  A client always
\* exists with it (the parameter check requires a service name).
Saving == exec = "spin" /\ ~Gated /\ state = "SAVE"

SaveSkipped ==
  /\ Saving /\ ~AutoSave
  /\ state' = "COMPLETE"
  /\ UNCHANGED saveVars

SaveRequested ==
  /\ Saving /\ AutoSave /\ ~saveFuture
  /\ saveFuture' = TRUE /\ saveLive' = TRUE
  /\ UNCHANGED state

\* Either the answer or the service itself did not come in time.
\* Seeded defect: an unanswered request is waited for without a limit.
OnlyServiceTimesOut ==
  /\ Saving /\ AutoSave /\ ~saveFuture
  /\ saveFuture' = FALSE
  /\ saveLive' = FALSE
  /\ state' = "ERROR"
SaveTimedOut ==
  /\ Saving /\ AutoSave
  /\ saveFuture' = FALSE
  /\ saveLive' = FALSE
  /\ state' = "ERROR"

SaveAwaited ==
  /\ Saving /\ AutoSave
  /\ UNCHANGED <<state, saveVars>>

TickSave ==
  /\ SaveSkipped \/ SaveRequested \/ SaveTimedOut \/ SaveAwaited
  /\ velocity' = "zero"
  /\ UNCHANGED <<grid, exec, controlVars, goalVars, recordVars, planVars,
                 workerVars>>

\* _save_done for a request of the current generation; the answer to any
\* other request returns at once.  Only an answer clears save_future.
SaveSucceeded ==
  /\ saveFuture' = FALSE
  /\ state' = "COMPLETE"
SaveRefused ==
  /\ saveFuture' = FALSE
  /\ state' = "ERROR"
SaveRaised ==
  /\ state' = "ERROR"
  /\ UNCHANGED saveFuture
SaveAnswered ==
  /\ exec = "spin" /\ saveLive
  /\ saveLive' = FALSE
  /\ SaveSucceeded \/ SaveRefused \/ SaveRaised
  /\ UNCHANGED <<velocity, grid, exec, controlVars, goalVars, recordVars,
                 planVars, workerVars>>

TickEnter ==
  /\ exec = "spin" /\ ~Gated
  /\ state \notin Halted \cup {"SAVE", "WAIT_SENSOR"}
  /\ exec' = "checks"
  /\ UNCHANGED <<state, velocity, grid, controlVars, goalVars, recordVars,
                 planVars, saveVars, workerVars>>

(***************************************************************************)
(* _control_tick, second part: freshness of sensors, pose and map.  None   *)
(* of it takes the lock, so the worker may publish an outcome meanwhile.   *)
(***************************************************************************)
FallBack(s) ==
  /\ InvalidatePlanning
  /\ velocity' = "zero"
  /\ state' = s
  /\ exec' = "spin"
  /\ UNCHANGED <<grid, controlVars, goalVars, recordVars, saveVars,
                 workerVars>>

SensorsLost == exec = "checks" /\ FallBack("WAIT_SENSOR")
PoseLost    == exec = "checks" /\ FallBack("WAIT_TF")
MapLost     == exec = "checks" /\ state # "WAIT_TF" /\ FallBack("WAIT_MAP")

\* No transform, but the last one is younger than tf_timeout.
PoseMissing ==
  /\ exec = "checks"
  /\ velocity' = "zero"
  /\ exec' = "spin"
  /\ UNCHANGED <<state, grid, controlVars, goalVars, recordVars, planVars,
                 saveVars, workerVars>>

Advance(from, to) ==
  /\ state = from
  /\ velocity' = "zero"
  /\ state' = to
  /\ exec' = "spin"
  /\ UNCHANGED <<grid, controlVars, goalVars, recordVars, planVars, saveVars,
                 workerVars>>

\* Seeded defect: the status text is stored instead of the state.
PoseFoundText == exec = "checks" /\ Advance("WAIT_TF", "WAIT_FOR_MAP")
PoseFound == exec = "checks" /\ Advance("WAIT_TF", "WAIT_MAP")
MapFound ==
  /\ exec = "checks" /\ grid # None
  /\ Advance("WAIT_MAP", IF InitialScan /\ ~scanDone THEN "INITIAL_SCAN"
                                                     ELSE "DETECT")

ChecksPassed ==
  exec = "checks" /\ grid # None /\ state \notin {"WAIT_TF", "WAIT_MAP"}

PlannerBusy ==
  /\ ChecksPassed /\ planning
  /\ velocity' = "zero"
  /\ exec' = "expiry"
  /\ UNCHANGED <<state, grid, controlVars, goalVars, recordVars, planVars,
                 saveVars, workerVars>>

\* Seeded defect: the tick goes on while a plan is computed.
PlannerUnchecked ==
  /\ ChecksPassed
  /\ exec' = "dispatch"
  /\ UNCHANGED <<state, velocity, grid, controlVars, goalVars, recordVars,
                 planVars, saveVars, workerVars>>
PlannerIdle ==
  /\ ChecksPassed /\ ~planning
  /\ exec' = "dispatch"
  /\ UNCHANGED <<state, velocity, grid, controlVars, goalVars, recordVars,
                 planVars, saveVars, workerVars>>

\* The chain of tests is one read of the state: the worker may overwrite it
\* before the handler of the state read does.  (Published in mid-chain, a state
\* may match no test; the tick then does nothing, as for SAVE_MAP.)
Handled == {"INITIAL_SCAN", "DETECT", "SELECT", "PLAN", "FOLLOW", "REPLAN",
            "RECOVERY", "VERIFY"}
Branch ==
  /\ exec = "dispatch"
  /\ exec' = IF state \in Handled THEN state ELSE "spin"
  /\ UNCHANGED <<state, velocity, grid, controlVars, goalVars, recordVars,
                 planVars, saveVars, workerVars>>

\* now - planning_started >= planning_timeout, read after planning: a zeroed
\* planning_started is always expired.
PlanInTime ==
  /\ exec = "expiry" /\ planStarted
  /\ exec' = "spin"
  /\ UNCHANGED <<state, velocity, grid, controlVars, goalVars, recordVars,
                 planVars, saveVars, workerVars>>

PlanExpired ==
  /\ exec = "expiry"
  /\ InvalidatePlanning
  /\ state' = "RECOVERY"
  /\ exec' = "spin"
  /\ UNCHANGED <<velocity, grid, controlVars, goalVars, recordVars, saveVars,
                 workerVars>>

(***************************************************************************)
(* _control_tick, third part: one handler per state.                       *)
(***************************************************************************)
Dispatch(s) == exec = s /\ exec' = "spin"

ScanTurn ==
  /\ Dispatch("INITIAL_SCAN")
  /\ velocity' \in {"zero", "moving"}
  /\ UNCHANGED <<state, grid, controlVars, goalVars, recordVars, planVars,
                 saveVars, workerVars>>

ScanFinished ==
  /\ Dispatch("INITIAL_SCAN")
  /\ velocity' = "zero"
  /\ scanDone' = TRUE
  /\ state' = "DETECT"
  /\ UNCHANGED <<grid, controlVars, goalVars, blacklist, noGoalCount, planVars,
                 saveVars, workerVars>>

\* DETECT and VERIFY wait for an interval of frontier_frequency.
WaitInterval ==
  /\ Dispatch("DETECT") \/ Dispatch("VERIFY")
  /\ velocity' = "zero"
  /\ UNCHANGED <<state, grid, controlVars, goalVars, recordVars, planVars,
                 saveVars, workerVars>>

VerifyFinished ==
  /\ Dispatch("VERIFY")
  /\ velocity' = "zero"
  /\ state' = "DETECT"
  /\ UNCHANGED <<grid, controlVars, goalVars, recordVars, planVars, saveVars,
                 workerVars>>

\* _begin_plan is called and goes for the lock.
CallPlanner ==
  /\ \/ exec \in {"DETECT", "SELECT"} /\ exec' = "beginFrontier"
     \/ exec = "PLAN" /\ exec' = "beginFixed"
  /\ velocity' = "zero"
  /\ UNCHANGED <<state, grid, controlVars, goalVars, recordVars, planVars,
                 saveVars, workerVars>>

RecoveryTurn ==
  /\ Dispatch("RECOVERY")
  /\ velocity' \in {"zero", "moving"}
  /\ UNCHANGED <<state, grid, controlVars, goalVars, recordVars, planVars,
                 saveVars, workerVars>>

RecoveryFinished ==
  /\ Dispatch("RECOVERY")
  /\ velocity' = "zero"
  /\ state' = "DETECT"
  /\ UNCHANGED <<grid, controlVars, goalVars, recordVars, planVars, saveVars,
                 workerVars>>

(***************************************************************************)
(* _follow.                                                                *)
(***************************************************************************)
Followable ==
  hasPath /\ goal # None /\ grid # None /\ pathSig = grid.sig

\* No followable path, or one of: goal timeout, path no longer safe,
\* deviation, no progress, blocked for too long.
FollowAbandoned ==
  /\ Dispatch("FOLLOW")
  /\ velocity' = "zero"
  /\ state' = "REPLAN"
  /\ UNCHANGED <<grid, controlVars, goalVars, recordVars, planVars, saveVars,
                 workerVars>>

FollowDriven ==
  /\ Dispatch("FOLLOW") /\ Followable
  /\ velocity' \in {"zero", "moving"}
  /\ UNCHANGED <<state, grid, controlVars, goalVars, recordVars, planVars,
                 saveVars, workerVars>>

FollowArrived ==
  /\ Dispatch("FOLLOW") /\ Followable
  /\ velocity' = "zero"
  /\ goal' = None /\ manualGoal' = None /\ activeGoal' = None
  /\ hasPath' = FALSE
  /\ blacklist' = Pop(blacklist, goal)
  /\ state' = "DETECT"
  /\ UNCHANGED <<grid, controlVars, pathSig, noGoalCount, scanDone, planVars,
                 saveVars, workerVars>>

\* REPLAN: _blacklist_goal, then recovery.
ReplanGoal ==
  /\ Dispatch("REPLAN")
  /\ velocity' = "zero"
  /\ state' = "RECOVERY"
  /\ hasPath' = FALSE
  /\ \/ /\ goal = None
        /\ UNCHANGED <<goal, activeGoal, pathSig, blacklist>>
     \/ /\ goal # None
        /\ blacklist' = Put(blacklist, goal)
        /\ goal' = None /\ activeGoal' = None
        /\ pathSig' = None
  /\ UNCHANGED <<grid, controlVars, manualGoal, noGoalCount, scanDone,
                 planVars, saveVars, workerVars>>

(***************************************************************************)
(* _begin_plan: snapshot, new generation and submission.  The lock is      *)
(* released before the submission, but until then nothing of the worker    *)
(* depends on the new job.  The early return for a plan under way is never *)
(* taken: only the executor begins plans, and its tick found the planner   *)
(* idle (Pool in ExplorationProofs).                                       *)
(***************************************************************************)
Planner == {"beginFrontier", "beginFixed"}

FrontierJob(goals, listed) ==
  [frontier |-> TRUE, sig |-> grid.sig, goals |-> goals, listed |-> listed,
   fixed |-> None, manual |-> manualGoal # None]
FixedJob ==
  [frontier |-> FALSE, sig |-> grid.sig, goals |-> {}, listed |-> FALSE,
   fixed |-> FixedGoal, manual |-> manualGoal # None]

\* Which candidates are too near, and which records have expired, is free.
Snapshot ==
  IF exec = "beginFixed" THEN {FixedJob}
  ELSE {FrontierJob(goals, listed) : goals \in SUBSET grid.goals,
                                     listed \in BOOLEAN}

BeginPlan ==
  /\ exec \in Planner /\ LockFree
  /\ ~planning
  /\ \E job \in Snapshot :
       /\ job.listed => Listed(grid.sig) \cap (grid.goals \ job.goals) # {}
       /\ queued' = job
  /\ running' = Outdated(running)
  /\ planning' = TRUE /\ planStarted' = TRUE
  /\ state' = IF exec = "beginFrontier" THEN "SELECT" ELSE "PLAN"
  /\ exec' = "spin"
  /\ UNCHANGED <<velocity, grid, controlVars, goalVars, recordVars, saveVars,
                 workerVars>>

\* An exception in a tick that has not changed anything yet.
TickFailed ==
  /\ exec \notin {"spin", "destroyed"}
  /\ InvalidatePlanning
  /\ velocity' = "zero"
  /\ state' = "ERROR"
  /\ exec' = "spin"
  /\ UNCHANGED <<grid, controlVars, goalVars, recordVars, saveVars, workerVars>>

\* destroy_node: cancels everything and stops; the executor never returns.
Shutdown ==
  /\ exec = "spin"
  /\ InvalidatePlanning
  /\ saveLive' = FALSE
  /\ velocity' = "zero"
  /\ exec' = "destroyed"
  /\ UNCHANGED <<state, grid, controlVars, goalVars, recordVars, saveFuture,
                 workerVars>>

(***************************************************************************)
(* The worker thread: work(), then _plan_done as the future's callback.    *)
(***************************************************************************)
TakeJob ==
  /\ worker = "idle" /\ queued # None
  /\ running' = queued
  /\ queued' = None
  /\ worker' = "working"
  /\ UNCHANGED <<state, velocity, grid, exec, controlVars, goalVars,
                 recordVars, planning, planStarted, saveVars, result, outcome>>

\* The generation check fails.
ResultOutdated ==
  /\ worker = "working" /\ running = Stale
  /\ running' = None
  /\ worker' = "idle"
  /\ UNCHANGED <<state, velocity, grid, exec, controlVars, goalVars,
                 recordVars, planning, planStarted, queued, saveVars, result,
                 outcome>>

ResultReady == worker = "working" /\ running \notin {None, Stale}

\* Paused or stopped: the result is thrown away, planning is free again.
\* Seeded defect: the flag stays set.
KeepPlanningFlag ==
  /\ ResultReady /\ Gated
  /\ running' = None
  /\ worker' = "idle"
  /\ UNCHANGED <<state, velocity, grid, exec, controlVars, goalVars, recordVars,
                 planning, planStarted, queued, saveVars, result, outcome>>
ResultIgnored ==
  /\ ResultReady /\ Gated
  /\ planning' = FALSE
  /\ running' = None
  /\ worker' = "idle"
  /\ UNCHANGED <<state, velocity, grid, exec, controlVars, goalVars, recordVars,
                 planStarted, queued, saveVars, result, outcome>>

\* Past the check and under the lock: an invalidation by a tick, which takes
\* no lock, no longer keeps the result from being used.
ResultTaken ==
  /\ ResultReady /\ ~Gated
  /\ result' = running
  /\ worker' = "decide"
  /\ UNCHANGED <<state, velocity, grid, exec, controlVars, goalVars, recordVars,
                 planVars, saveVars, outcome>>

\* _finish_planning(s) is about to run.
Decide(s) == worker' = "publish" /\ outcome' = s /\ result' = None

\* work() raised, or the map changed geometry under the job.
ResultUseless ==
  /\ worker = "decide"
  /\ \/ Decide("RECOVERY")
     \/ result.sig # grid.sig /\ Decide("REPLAN")
  /\ UNCHANGED <<state, velocity, grid, exec, controlVars, goalVars,
                 recordVars, planVars, saveVars>>

ResultFits == worker = "decide" /\ result.sig = grid.sig

\* A* finds a way to every candidate: candidates are reachable_free cells, and
\* both searches move by transition_is_safe.  Which one scores best is free.
Selected(p) ==
  IF result.frontier THEN p \in result.goals ELSE p = result.fixed

\* The newer grid of the same geometry blocks the path.
PathUnsafe ==
  /\ ResultFits /\ \E p \in InMap[result.sig] : Selected(p)
  /\ Decide("REPLAN")
  /\ UNCHANGED <<state, velocity, grid, exec, controlVars, goalVars,
                 recordVars, planVars, saveVars>>

PathCommitted(p) ==
  /\ ResultFits /\ p \in InMap[result.sig] /\ Selected(p)
  /\ goal' = CellAt(result.sig, p)
  /\ hasPath' = TRUE /\ pathSig' = grid.sig
  /\ activeGoal' = IF result.frontier THEN p ELSE activeGoal
  /\ noGoalCount' = 0
  /\ Decide("FOLLOW")
  /\ UNCHANGED <<state, velocity, grid, exec, controlVars, manualGoal,
                 blacklist, scanDone, planVars, saveVars>>

\* No path to the fixed goal, or no goal at all: it is recorded and given up.
FixedGoalFailed ==
  /\ ResultFits /\ ~result.frontier
  /\ blacklist' = IF result.fixed = None THEN blacklist
                  ELSE Put(blacklist, CellAt(result.sig, result.fixed))
  /\ manualGoal' = IF result.manual THEN None ELSE manualGoal
  /\ activeGoal' = IF result.manual THEN activeGoal ELSE None
  /\ goal' = None
  /\ Decide("RECOVERY")
  /\ UNCHANGED <<state, velocity, grid, exec, controlVars, hasPath, pathSig,
                 noGoalCount, scanDone, planVars, saveVars>>

\* CompletionMonitor.observe(.., False): a changed area restarts the count.
CountNoGoal(areaChanged) ==
  IF areaChanged THEN 1
  ELSE IF noGoalCount < ConfirmCount THEN noGoalCount + 1 ELSE noGoalCount

NothingSelected == ResultFits /\ result.frontier /\ result.goals = {}

\* Completed: _begin_save invalidates planning and stops before SAVE is set.
ExplorationFinished ==
  /\ NothingSelected
  /\ \E areaChanged \in BOOLEAN :
       /\ noGoalCount' = CountNoGoal(areaChanged)
       /\ areaChanged => ConfirmCount = 1
  /\ noGoalCount' >= ConfirmCount
  /\ InvalidatePlanning
  /\ velocity' = "zero"
  /\ saveFuture' = FALSE /\ saveLive' = FALSE
  /\ worker' = "saving" /\ result' = None
  /\ UNCHANGED <<state, grid, exec, controlVars, goalVars, blacklist, scanDone,
                 outcome>>

\* Not completed: the count is too low or the area not stable for long.
GoalsAbsent ==
  /\ NothingSelected
  /\ \E areaChanged \in BOOLEAN : noGoalCount' = CountNoGoal(areaChanged)
  /\ \/ /\ result.manual
        /\ manualGoal' = None
        /\ Decide("RECOVERY")
     \/ /\ ~result.manual
        /\ UNCHANGED manualGoal
        /\ \/ Decide("RECOVERY")
           \/ ~result.listed /\ Decide("VERIFY")
  /\ UNCHANGED <<state, velocity, grid, exec, controlVars, goal, activeGoal,
                 hasPath, pathSig, blacklist, scanDone, planVars, saveVars>>

\* _finish_planning: the state first, then the planner becomes idle.
PublishOutcome ==
  /\ worker = "publish"
  /\ state' = outcome
  /\ worker' = "clear"
  /\ outcome' = None
  /\ UNCHANGED <<velocity, grid, exec, controlVars, goalVars, recordVars,
                 planVars, saveVars, result>>

EnterSave ==
  /\ worker = "saving"
  /\ state' = "SAVE"
  /\ worker' = "clear"
  /\ UNCHANGED <<velocity, grid, exec, controlVars, goalVars, recordVars,
                 planVars, saveVars, result, outcome>>

ReleasePlanner ==
  /\ worker = "clear"
  /\ planning' = FALSE /\ planStarted' = FALSE
  /\ running' = None
  /\ worker' = "idle"
  /\ UNCHANGED <<state, velocity, grid, exec, controlVars, goalVars,
                 recordVars, queued, saveVars, result, outcome>>

Services == Start \/ Pause \/ Resume \/ Stop \/ Shutdown
              \/ \E p \in Places : ExternalGoal(p)

TickChecks == SensorsLost \/ PoseLost \/ PoseMissing \/ PoseFound \/ MapLost
                \/ MapFound \/ PlannerBusy \/ PlannerIdle \/ PlanInTime
                \/ PlanExpired

TickDispatch == Branch \/ ScanTurn \/ ScanFinished \/ WaitInterval
                  \/ VerifyFinished \/ CallPlanner \/ RecoveryTurn
                  \/ RecoveryFinished \/ FollowAbandoned \/ FollowDriven
                  \/ FollowArrived \/ ReplanGoal

Tick == TickHalted \/ TickWaitSensor \/ TickSave \/ TickEnter \/ TickChecks
          \/ TickDispatch \/ BeginPlan \/ TickFailed

PlanDone == ResultOutdated \/ ResultIgnored \/ ResultTaken \/ ResultUseless
              \/ PathUnsafe \/ (\E p \in Places : PathCommitted(p))
              \/ FixedGoalFailed \/ ExplorationFinished \/ GoalsAbsent

Worker == TakeJob \/ PlanDone \/ PublishOutcome \/ EnterSave \/ ReleasePlanner

Next == Services \/ MapUpdate \/ SaveAnswered \/ Tick \/ Worker

Spec == Init /\ [][Next]_vars

(***************************************************************************)
(* Properties                                                              *)
(***************************************************************************)
TypeOK ==
  /\ state \in States
  /\ paused \in BOOLEAN /\ stopRequested \in BOOLEAN
  /\ velocity \in {"zero", "moving"}
  /\ grid \in Grid \cup {None}
  /\ goal \in Cell \cup {None}
  /\ manualGoal \in Places \cup {None} /\ activeGoal \in Places \cup {None}
  /\ hasPath \in BOOLEAN /\ pathSig \in Geoms \cup {None}
  /\ blacklist \in SUBSET Cell
  /\ noGoalCount \in 0..ConfirmCount
  /\ scanDone \in BOOLEAN
  /\ planning \in BOOLEAN /\ planStarted \in BOOLEAN
  /\ queued \in Job \cup {None}
  /\ running \in Job \cup {None, Stale}
  /\ saveFuture \in BOOLEAN /\ saveLive \in BOOLEAN
  /\ exec \in {"spin", "checks", "expiry", "dispatch", "destroyed"}
              \cup Handled \cup Planner
  /\ worker \in {"idle", "working"} \cup Critical
  /\ result \in Job \cup {None}
  /\ outcome \in States \cup {None}

\* A robot in FOLLOW_PATH has a path and a goal, both of the current map's
\* geometry: _plan_done commits them before the state, and _map_cb replans.
FollowIsCommitted ==
  state = "FOLLOW" => /\ hasPath /\ goal # None
                      /\ goal.geom = grid.sig /\ pathSig = grid.sig

\* self.planning is set exactly while a job of the current generation is in
\* the pool: otherwise nobody clears the flag, or a second plan is begun.
Current == {queued, running} \ {None, Stale}
PlanFlagMatchesJob == planning <=> Current # {}

\* "During detection, planning, pause, stop, error, save, and all stale-data
\* states, the node explicitly publishes zero velocity": between two ticks the
\* robot is under a stop command whenever the run is paused or stopped, and in
\* every state the executor alone enters, except the initial scan.  (VERIFY,
\* REPLAN and SAVE may be published by the worker between two ticks, behind a
\* command of recovery; the next tick stops.)
StillStates == {"IDLE", "WAIT_SENSOR", "WAIT_TF", "WAIT_MAP", "DETECT",
                "SELECT", "PLAN", "COMPLETE", "ERROR"}
StillWhenNotDriving ==
  exec \in {"spin", "destroyed"} /\ (Gated \/ state \in StillStates)
    => velocity = "zero"

\* The command to move is never given while a plan of the current generation
\* is still going to change the path, nor after pause or stop.
MovesWithoutPlan ==
  [][velocity = "zero" /\ velocity' = "moving"
       => Current = {} /\ ~Gated /\ state' = state]_vars

\* _plan_done commits a path only for the request that still stands: same map
\* geometry, same goal in world coordinates, and the manual goal it knew of.
CommitMatchesRequest ==
  [][worker = "decide" /\ worker' = "publish" /\ outcome' = "FOLLOW"
       => /\ result.sig = grid.sig
          /\ result.manual = (manualGoal # None)
          /\ ~result.frontier => result.fixed = FixedGoal]_vars

\* After ~/stop nothing of the run that was stopped moves the machine out of
\* IDLE: only ~/start or an external goal does.  (An answer to a map-save
\* request made before the stop still does; see SaveLeftByOutcome.)
StopHolds ==
  [][state = "IDLE" /\ stopRequested /\ ~saveLive
       => \/ state' = "IDLE"
          \/ state' = "WAIT_SENSOR" /\ ~stopRequested'
          \/ state' = "PLAN" /\ manualGoal' # None /\ velocity' = "zero"]_vars

(***************************************************************************)
(* Statements of the documentation that the code does not keep.            *)
(***************************************************************************)
\* "Publish the next state before exposing the planner as idle" and "At
\* completion the node calls slam_toolbox/srv/SaveMap": once the worker has
\* entered SAVE_MAP, only the outcome of the save, lost input (a tick already
\* past its SAVE_MAP test) or a command of the operator leaves it.
SaveLeftByOutcome ==
  [][state = "SAVE"
       => \/ state' \in {"SAVE", "COMPLETE", "ERROR"}
          \/ state' \in {"WAIT_SENSOR", "WAIT_TF", "WAIT_MAP"}
          \/ exec = "spin" /\ state' \in {"IDLE", "PLAN"}]_vars

\* "Failure records use grid-cell coordinates and cannot be carried into a map
\* whose origin or dimensions changed."
RecordsOfCurrentMap == \A c \in blacklist : c.geom = grid.sig

\* "Return true after reachable goals remain absent on a stable map."
CompletedWithoutGoals ==
  [][worker = "decide" /\ worker' = "saving" => ~result.listed]_vars

(***************************************************************************)
(* Liveness.  The executor keeps ticking, the worker's computation ends    *)
(* and the clock reaches the save timeout; nothing is assumed of sensors,  *)
(* operators or the map-save service.                                      *)
(***************************************************************************)
SaveExpires == TickSave /\ state' = "ERROR"
FairSpec == Spec /\ WF_vars(Worker) /\ WF_vars(Tick) /\ WF_vars(SaveExpires)

\* A plan always ends: the pool never keeps the controller waiting for ever,
\* even when the run is paused while the worker computes.
PlanResolves == planning ~> ~planning

\* SAVE_MAP ends, with or without an answer, unless the operator holds it.
SaveResolves ==
  state = "SAVE" ~> (state # "SAVE" \/ Gated \/ exec = "destroyed")
=============================================================================
