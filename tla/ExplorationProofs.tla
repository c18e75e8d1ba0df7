------------------------- MODULE ExplorationProofs -------------------------
(***************************************************************************)
(* The safety of Exploration for every set of places and geometries and    *)
(* every setting of the parameters.                                        *)
(***************************************************************************)
EXTENDS Exploration, TLAPS

\* The snapshots _begin_plan takes are jobs.
LEMMA JobsWellFormed ==
  ASSUME TypeOK, grid # None
  PROVE  Snapshot \subseteq Job
<1>1. grid.sig \in Geoms /\ grid.goals \subseteq Places
  BY DEF TypeOK, Grid
<1>2. FixedJob \in Job
  BY <1>1 DEF TypeOK, FixedJob, FixedGoal, Job
<1>3. ASSUME NEW goals \in SUBSET grid.goals, NEW listed \in BOOLEAN
      PROVE  FrontierJob(goals, listed) \in Job
  BY <1>1, <1>3 DEF TypeOK, FrontierJob, Job
<1>4. QED
  BY <1>2, <1>3 DEF Snapshot

\* A place in a geometry is a cell.
LEMMA CellsWellFormed ==
  ASSUME NEW g \in Geoms, NEW p \in Places
  PROVE  CellAt(g, p) \in Cell
  BY DEF CellAt, Cell

\* Every map message carries a grid.
LEMMA MapsWellFormed ==
  MapUpdate => \E new \in Grid : MapRefreshed(new) \/ MapReshaped(new)
<1> SUFFICES ASSUME NEW g \in Geoms, NEW goals \in SUBSET InMap[g],
                    MapRefreshed([sig |-> g, goals |-> goals])
                      \/ MapReshaped([sig |-> g, goals |-> goals])
             PROVE  \E new \in Grid : MapRefreshed(new) \/ MapReshaped(new)
  BY DEF MapUpdate
<1>1. [sig |-> g, goals |-> goals] \in Grid
  BY GeometryAssumption DEF Grid
<1>2. QED
  BY <1>1

\* _invalidate_planning leaves well-formed planner fields.
LEMMA InvalidationTyped ==
  ASSUME TypeOK, InvalidatePlanning
  PROVE  /\ planning' \in BOOLEAN /\ planStarted' \in BOOLEAN
         /\ queued' \in Job \cup {None}
         /\ running' \in Job \cup {None, Stale}
  BY DEF TypeOK, InvalidatePlanning, Outdated

\* A result that is ready belongs to a job.
LEMMA PlanPhaseHasGrid == ResultReady /\ TypeOK => running \in Job
  BY DEF ResultReady, TypeOK

Outcomes == {"FOLLOW", "REPLAN", "RECOVERY", "VERIFY"}

\* A job exists only where there is a grid it was made from.
Mapped ==
  /\ exec \in {"dispatch", "expiry"} \cup Handled \cup Planner => grid # None
  /\ queued # None => grid # None
  /\ worker # "idle" => grid # None
  /\ worker = "decide" => result # None
  /\ worker = "publish" => outcome \in Outcomes

\* No handler runs and no job exists before the first map.
LEMMA MappedStep == TypeOK /\ Mapped /\ [Next]_vars => Mapped'
<1> SUFFICES ASSUME TypeOK, Mapped, [Next]_vars PROVE Mapped'
  OBVIOUS
<1> USE DEF Mapped, Outcomes, Handled, Planner, controlVars, goalVars,
            recordVars, planVars, saveVars, workerVars
<1>1. CASE Services
  BY <1>1 DEF Services, Start, Pause, Resume, Stop, Shutdown, ExternalGoal,
              InvalidatePlanning
<1>2. CASE MapUpdate
  <2>1. PICK new \in Grid : MapRefreshed(new) \/ MapReshaped(new)
    BY <1>2, MapsWellFormed
  <2>2. grid' # None
    BY <2>1, NoneAssumption DEF MapRefreshed, MapReshaped
  <2>3. UNCHANGED <<exec, worker, result, outcome>>
    BY <2>1 DEF MapRefreshed, MapReshaped
  <2>4. QED
    BY <2>2, <2>3
<1>3. CASE SaveAnswered
  BY <1>3 DEF SaveAnswered
<1>4. CASE TickHalted \/ TickWaitSensor \/ TickSave \/ TickEnter
  BY <1>4 DEF TickHalted, TickWaitSensor, TickSave, TickEnter
<1>5. CASE TickChecks
  BY <1>5 DEF TickChecks, SensorsLost, PoseLost, MapLost, FallBack,
              InvalidatePlanning, PoseMissing, PoseFound, MapFound, Advance,
              PlannerBusy, PlannerIdle, ChecksPassed, PlanInTime, PlanExpired
<1>6. CASE TickDispatch
  BY <1>6 DEF TickDispatch, Dispatch, Branch, ScanTurn, ScanFinished,
              WaitInterval, VerifyFinished, CallPlanner, RecoveryTurn,
              RecoveryFinished, FollowAbandoned, FollowDriven, FollowArrived,
              ReplanGoal
<1>7. CASE BeginPlan \/ TickFailed
  BY <1>7 DEF BeginPlan, TickFailed, InvalidatePlanning
<1>8. CASE TakeJob \/ PublishOutcome \/ EnterSave \/ ReleasePlanner
  BY <1>8 DEF TakeJob, PublishOutcome, EnterSave, ReleasePlanner
<1>9. CASE PlanDone
  BY <1>9 DEF PlanDone, ResultOutdated, ResultIgnored, ResultTaken,
              ResultReady, ResultUseless, ResultFits, PathUnsafe,
              PathCommitted, FixedGoalFailed, NothingSelected,
              ExplorationFinished, GoalsAbsent, Decide, InvalidatePlanning
<1>10. CASE UNCHANGED vars
  BY <1>10 DEF vars
<1>11. QED
  BY <1>1, <1>2, <1>3, <1>4, <1>5, <1>6, <1>7, <1>8, <1>9, <1>10
  DEF Next, Tick, Worker

\* Every handler writes values of the right shape.
LEMMA TypedStep == TypeOK /\ Mapped /\ [Next]_vars => TypeOK'
<1> SUFFICES ASSUME TypeOK, Mapped, [Next]_vars PROVE TypeOK'
  OBVIOUS
<1> USE DEF TypeOK, controlVars, goalVars, recordVars, planVars,
            saveVars, workerVars
<1>1. CASE Start
  <2>1. InvalidatePlanning
    BY <1>1 DEF Start
  <2>2. /\ hasPath' \in BOOLEAN /\ scanDone' \in BOOLEAN
        /\ saveFuture' \in BOOLEAN /\ saveLive' \in BOOLEAN
        /\ paused' \in BOOLEAN /\ stopRequested' \in BOOLEAN
    BY <1>1 DEF Start
  <2>3. noGoalCount' \in 0..ConfirmCount
    BY <1>1, ParameterAssumption DEF Start
  <2>4. QED
    BY <1>1, <2>1, <2>2, <2>3, InvalidationTyped DEF Start, States
<1>2. CASE Pause \/ Resume
  BY <1>2 DEF Pause, Resume
<1>3. CASE Stop
  BY <1>3, InvalidationTyped DEF Stop, States
<1>29. CASE Shutdown
  <2>1. saveLive' \in BOOLEAN
    BY <1>29 DEF Shutdown
  <2>2. QED
    BY <1>29, <2>1, InvalidationTyped DEF Shutdown
<1>4. ASSUME NEW p \in Places, ExternalGoal(p) PROVE TypeOK'
  <2>1. hasPath' \in BOOLEAN
    BY <1>4 DEF ExternalGoal
  <2>2. QED
    BY <1>4, <2>1, InvalidationTyped DEF ExternalGoal, States
<1>5. CASE MapUpdate
  <2>1. PICK new \in Grid : MapRefreshed(new) \/ MapReshaped(new)
    BY <1>5, MapsWellFormed
  <2>2. new.sig \in Geoms
    BY DEF Grid
  <2>3. CASE MapRefreshed(new)
    BY <2>2, <2>3 DEF MapRefreshed
  <2>4. CASE MapReshaped(new)
    <3>1. FixedGoal \in Places \cup {None}
      BY DEF FixedGoal
    <3>2. FixedGoal # None => CellAt(new.sig, FixedGoal) \in Cell
      BY <2>2, <3>1, CellsWellFormed
    <3>3. hasPath' \in BOOLEAN
      BY <2>4 DEF MapReshaped
    <3>4. QED
      BY <2>2, <2>4, <3>2, <3>3, InvalidationTyped DEF MapReshaped, States
  <2>5. QED
    BY <2>1, <2>3, <2>4
<1>6. CASE TickHalted \/ TickWaitSensor \/ TickEnter
  BY <1>6 DEF TickHalted, TickWaitSensor, TickEnter, States
<1>7. CASE TickSave
  <2>1. saveFuture' \in BOOLEAN /\ saveLive' \in BOOLEAN
    BY <1>7 DEF TickSave, SaveSkipped, SaveRequested, SaveTimedOut, SaveAwaited
  <2>2. state' \in States
    BY <1>7 DEF TickSave, SaveSkipped, SaveRequested, SaveTimedOut,
                SaveAwaited, States
  <2>3. QED
    BY <1>7, <2>1, <2>2 DEF TickSave
<1>8. CASE SaveAnswered
  <2>1. saveFuture' \in BOOLEAN /\ saveLive' \in BOOLEAN
    BY <1>8 DEF SaveAnswered, SaveSucceeded, SaveRefused, SaveRaised
  <2>2. state' \in States
    BY <1>8 DEF SaveAnswered, SaveSucceeded, SaveRefused, SaveRaised, States
  <2>3. QED
    BY <1>8, <2>1, <2>2 DEF SaveAnswered
<1>9. CASE SensorsLost \/ PoseLost \/ MapLost
  BY <1>9, InvalidationTyped
  DEF SensorsLost, PoseLost, MapLost, FallBack, States
<1>10. CASE PoseMissing \/ PoseFound \/ MapFound
  BY <1>10 DEF PoseMissing, PoseFound, MapFound, Advance, States
<1>11. CASE PlannerBusy \/ PlannerIdle \/ PlanInTime
  BY <1>11 DEF PlannerBusy, PlannerIdle, PlanInTime
<1>12. CASE PlanExpired \/ TickFailed
  BY <1>12, InvalidationTyped DEF PlanExpired, TickFailed, States
<1>13. CASE Branch \/ CallPlanner
  BY <1>13 DEF Branch, CallPlanner, Planner
<1>14. CASE ScanTurn
  BY <1>14 DEF ScanTurn, Dispatch
<1>32. CASE ScanFinished
  BY <1>32 DEF ScanFinished, Dispatch, States
<1>33. CASE WaitInterval
  BY <1>33 DEF WaitInterval, Dispatch
<1>34. CASE VerifyFinished
  BY <1>34 DEF VerifyFinished, Dispatch, States
<1>15. CASE RecoveryTurn \/ RecoveryFinished
  BY <1>15 DEF RecoveryTurn, RecoveryFinished, Dispatch, States
<1>16. CASE FollowAbandoned
  BY <1>16 DEF FollowAbandoned, Dispatch, States
<1>35. CASE FollowDriven
  BY <1>35 DEF FollowDriven, Dispatch
<1>36. CASE FollowArrived
  <2>1. hasPath' \in BOOLEAN /\ blacklist' \subseteq Cell
    BY <1>36 DEF FollowArrived, Pop
  <2>2. QED
    BY <1>36, <2>1 DEF FollowArrived, Dispatch, States
<1>17. CASE ReplanGoal
  <2>1. hasPath' \in BOOLEAN /\ blacklist' \subseteq Cell
    BY <1>17 DEF ReplanGoal, Put
  <2>2. QED
    BY <1>17, <2>1 DEF ReplanGoal, Dispatch, States
<1>18. CASE BeginPlan
  BY <1>18, JobsWellFormed DEF BeginPlan, Outdated, Mapped, States
<1>19. CASE TakeJob \/ ResultOutdated
  BY <1>19 DEF TakeJob, ResultOutdated
<1>37. CASE ResultIgnored
  <2>1. planning' \in BOOLEAN
    BY <1>37 DEF ResultIgnored
  <2>2. QED
    BY <1>37, <2>1 DEF ResultIgnored
<1>20. CASE ResultTaken
  BY <1>20, PlanPhaseHasGrid DEF ResultTaken, Critical
<1>21. CASE ResultUseless \/ PathUnsafe
  BY <1>21 DEF ResultUseless, PathUnsafe, Decide, Critical, States
<1>22. ASSUME NEW p \in Places, PathCommitted(p) PROVE TypeOK'
  <2>1. result \in Job /\ result.sig \in Geoms /\ grid.sig = result.sig
    BY <1>22 DEF PathCommitted, ResultFits, Mapped, Job
  <2>2. CellAt(result.sig, p) \in Cell
    BY <2>1, CellsWellFormed
  <2>3. QED
    BY <1>22, <2>1, <2>2, ParameterAssumption
    DEF PathCommitted, Decide, Critical, States
<1>23. CASE FixedGoalFailed
  <2>1. result \in Job /\ result.sig \in Geoms
        /\ result.fixed \in Places \cup {None}
    BY <1>23 DEF FixedGoalFailed, ResultFits, Mapped, Job
  <2>2. result.fixed # None => CellAt(result.sig, result.fixed) \in Cell
    BY <2>1, CellsWellFormed
  <2>3. QED
    BY <1>23, <2>2 DEF FixedGoalFailed, Put, Decide, Critical, States
<1>24. CASE ExplorationFinished
  <2>1. noGoalCount' \in 0..ConfirmCount
    BY <1>24, ParameterAssumption DEF ExplorationFinished, CountNoGoal
  <2>2. saveFuture' \in BOOLEAN /\ saveLive' \in BOOLEAN
    BY <1>24 DEF ExplorationFinished
  <2>3. QED
    BY <1>24, <2>1, <2>2, InvalidationTyped DEF ExplorationFinished, Critical
<1>25. CASE GoalsAbsent
  <2>1. noGoalCount' \in 0..ConfirmCount
    BY <1>25, ParameterAssumption DEF GoalsAbsent, CountNoGoal
  <2>2. QED
    BY <1>25, <2>1 DEF GoalsAbsent, Decide, Critical, States
<1>26. CASE PublishOutcome
  BY <1>26 DEF PublishOutcome, Mapped, Outcomes, Critical, States
<1>30. CASE EnterSave
  BY <1>30 DEF EnterSave, Critical, States
<1>31. CASE ReleasePlanner
  <2>1. planning' \in BOOLEAN /\ planStarted' \in BOOLEAN
    BY <1>31 DEF ReleasePlanner
  <2>2. QED
    BY <1>31, <2>1 DEF ReleasePlanner
<1>27. CASE UNCHANGED vars
  BY <1>27 DEF vars
<1>28. QED
  BY <1>1, <1>2, <1>3, <1>4, <1>5, <1>6, <1>7, <1>8, <1>9, <1>10, <1>11, <1>12,
     <1>13, <1>14, <1>15, <1>16, <1>17, <1>18, <1>19, <1>20, <1>21, <1>22,
     <1>23, <1>24, <1>25, <1>26, <1>27, <1>29, <1>30,
     <1>31, <1>32, <1>33, <1>34,
     <1>35, <1>36, <1>37
  DEF Next, Services, Tick, TickChecks, TickDispatch, Worker, PlanDone

\* The constructor leaves a well-formed node.
LEMMA TypedInit == Init => TypeOK /\ Mapped
<1> SUFFICES ASSUME Init PROVE TypeOK /\ Mapped
  OBVIOUS
<1>1. /\ paused \in BOOLEAN /\ stopRequested \in BOOLEAN
      /\ hasPath \in BOOLEAN /\ scanDone \in BOOLEAN
      /\ planning \in BOOLEAN /\ planStarted \in BOOLEAN
      /\ saveFuture \in BOOLEAN /\ saveLive \in BOOLEAN
  BY DEF Init
<1>2. state \in States /\ noGoalCount \in 0..ConfirmCount
  BY ParameterAssumption DEF Init, States
<1>3. Mapped
  BY DEF Init, Mapped, Handled, Planner
<1>4. QED
  BY <1>1, <1>2, <1>3 DEF Init, TypeOK

\* Shape and map together are inductive.
LEMMA TypedAndMapped == Spec => [](TypeOK /\ Mapped)
  BY TypedInit, TypedStep, MappedStep, PTL DEF Spec

\* Every field of the node keeps its shape, whatever the two threads do.
THEOREM TypeCorrect == Spec => []TypeOK
  BY TypedAndMapped, PTL

(***************************************************************************)
(* The pool: a job in it is current exactly while planning is set, the     *)
(* worker that holds the lock has left nothing queued, and the executor    *)
(* handles a state only after it found the planner idle.                   *)
(***************************************************************************)
Pool ==
  /\ planning <=> queued # None \/ running \notin {None, Stale}
  /\ worker = "idle" <=> running = None
  /\ queued # None => running \in {None, Stale}
  /\ worker \in Critical => queued = None
  /\ exec \in {"dispatch"} \cup Handled \cup Planner => ~planning

\* After _invalidate_planning no current job is in the pool.
LEMMA InvalidationClears ==
  ASSUME InvalidatePlanning
  PROVE  /\ planning' = FALSE /\ queued' = None
         /\ running' \in {None, Stale}
         /\ running' = None <=> running = None
  BY NoneAssumption DEF InvalidatePlanning, Outdated

\* Every step keeps the planning flag and the pool together.
LEMMA PoolStep == TypeOK /\ Mapped /\ Pool /\ [Next]_vars => Pool'
<1> SUFFICES ASSUME TypeOK, Mapped, Pool, [Next]_vars PROVE Pool'
  OBVIOUS
<1> USE DEF Pool, controlVars, planVars, workerVars
<1>1. CASE Start \/ Stop \/ Shutdown \/ \E p \in Places : ExternalGoal(p)
  <2>1. InvalidatePlanning /\ UNCHANGED worker
        /\ exec' \in {"spin", "destroyed"}
    BY <1>1 DEF Start, Stop, Shutdown, ExternalGoal, workerVars
  <2>2. QED
    BY <2>1, InvalidationClears DEF Handled, Planner
<1>2. CASE Pause \/ Resume \/ SaveAnswered
  BY <1>2 DEF Pause, Resume, SaveAnswered
<1>3. CASE MapUpdate
  <2>1. PICK new \in Grid : MapRefreshed(new) \/ MapReshaped(new)
    BY <1>3, MapsWellFormed
  <2>2. CASE MapRefreshed(new)
    BY <2>2 DEF MapRefreshed
  <2>3. CASE MapReshaped(new)
    <3>1. InvalidatePlanning /\ UNCHANGED <<exec, worker>>
      BY <2>3 DEF MapReshaped
    <3>2. QED
      BY <3>1, InvalidationClears
  <2>4. QED
    BY <2>1, <2>2, <2>3
<1>4. CASE TickHalted \/ TickWaitSensor \/ TickSave \/ TickEnter
  BY <1>4 DEF TickHalted, TickWaitSensor, TickSave, TickEnter, Handled, Planner
<1>5. CASE SensorsLost \/ PoseLost \/ MapLost \/ PlanExpired \/ TickFailed
  <2>1. InvalidatePlanning /\ UNCHANGED worker /\ exec' = "spin"
    BY <1>5 DEF SensorsLost, PoseLost, MapLost, FallBack, TickFailed,
                PlanExpired
  <2>2. QED
    BY <2>1, InvalidationClears DEF Handled, Planner
<1>6. CASE PoseMissing \/ PoseFound \/ MapFound \/ PlanInTime \/ PlannerBusy
             \/ PlannerIdle
  BY <1>6 DEF PoseMissing, PoseFound, MapFound, Advance, PlanInTime,
              PlannerBusy, PlannerIdle, Handled, Planner
<1>7. CASE Branch \/ CallPlanner
  BY <1>7 DEF Branch, CallPlanner, Handled, Planner
<1>8. CASE ScanTurn \/ ScanFinished \/ WaitInterval \/ VerifyFinished
             \/ RecoveryTurn \/ RecoveryFinished
  BY <1>8 DEF Dispatch, ScanTurn, ScanFinished, WaitInterval, VerifyFinished,
              RecoveryTurn, RecoveryFinished, Handled, Planner
<1>9. CASE FollowAbandoned \/ FollowDriven \/ FollowArrived \/ ReplanGoal
  BY <1>9 DEF Dispatch, FollowAbandoned, FollowDriven, FollowArrived,
              ReplanGoal, Handled, Planner
<1>10. CASE BeginPlan
  <2>1. queued' \in Job
    BY <1>10, JobsWellFormed DEF BeginPlan, Mapped
  <2>2. queued' # None
    BY <2>1, NoneAssumption
  <2>3. running' \in {None, Stale} /\ (running' = None <=> running = None)
    BY <1>10, NoneAssumption DEF BeginPlan, Outdated
  <2>4. QED
    BY <1>10, <2>2, <2>3 DEF BeginPlan, LockFree, Handled, Planner
<1>11. CASE TakeJob
  <2>1. running' \in Job /\ running' \notin {None, Stale}
    BY <1>11, NoneAssumption DEF TakeJob, TypeOK
  <2>2. QED
    BY <1>11, <2>1 DEF TakeJob, Critical
<1>12. CASE ResultOutdated
  BY <1>12, NoneAssumption DEF ResultOutdated, Critical
<1>13. CASE ResultIgnored
  BY <1>13 DEF ResultIgnored, ResultReady, Critical
<1>14. CASE ResultTaken
  BY <1>14 DEF ResultTaken, ResultReady, Critical
<1>15. CASE ResultUseless \/ PathUnsafe \/ FixedGoalFailed \/ GoalsAbsent
  BY <1>15 DEF ResultUseless, PathUnsafe, FixedGoalFailed, GoalsAbsent,
               NothingSelected, ResultFits, Decide, Critical
<1>16. ASSUME NEW p \in Places, PathCommitted(p) PROVE Pool'
  BY <1>16 DEF PathCommitted, ResultFits, Decide, Critical
<1>17. CASE ExplorationFinished
  <2>1. worker = "decide" /\ worker' = "saving" /\ UNCHANGED exec
        /\ InvalidatePlanning
    BY <1>17 DEF ExplorationFinished, NothingSelected, ResultFits
  <2>2. QED
    BY <2>1, InvalidationClears DEF Critical
<1>18. CASE PublishOutcome \/ EnterSave
  BY <1>18 DEF PublishOutcome, EnterSave, Critical
<1>19. CASE ReleasePlanner
  BY <1>19 DEF ReleasePlanner, Critical
<1>20. CASE UNCHANGED vars
  BY <1>20 DEF vars
<1>21. QED
  BY <1>1, <1>2, <1>3, <1>4, <1>5, <1>6, <1>7, <1>8, <1>9, <1>10, <1>11, <1>12,
     <1>13, <1>14, <1>15, <1>16, <1>17, <1>18, <1>19, <1>20
  DEF Next, Services, Tick, TickChecks, TickDispatch, Worker, PlanDone

\* The planning flag and the pool agree in every state.
LEMMA PoolCorrect == Spec => []Pool
<1>1. Init => Pool
  BY DEF Init, Pool, Critical, Handled, Planner
<1>2. QED
  BY <1>1, PoolStep, TypedAndMapped, PTL DEF Spec

\* The planning flag and the pool never disagree: whichever of invalidation,
\* completion and a new plan comes first, no job is left without its flag and
\* the flag is not left without a job.
THEOREM PlanFlagIsRight == Spec => []PlanFlagMatchesJob
<1>1. TypeOK /\ Pool => PlanFlagMatchesJob
  <2> SUFFICES ASSUME TypeOK, Pool PROVE PlanFlagMatchesJob
    OBVIOUS
  <2>1. queued # Stale
    BY NoneAssumption DEF TypeOK
  <2>2. Current # {} <=> queued # None \/ running \notin {None, Stale}
    BY <2>1 DEF Current
  <2>3. QED
    BY <2>2 DEF Pool, PlanFlagMatchesJob
<1>2. QED
  BY <1>1, PoolCorrect, TypeCorrect, PTL

(***************************************************************************)
(* While a plan is computed, or its outcome is being decided under the     *)
(* lock, the executor neither follows a path nor gives a goal up.          *)
(***************************************************************************)
Driving == {"FOLLOW", "REPLAN"}
Deciding == {"decide", "saving", "publish"}

Drive ==
  /\ planning /\ worker # "clear" => state \notin Driving
  /\ worker \in Deciding => state \notin Driving /\ exec \notin Driving

\* FOLLOW_PATH and REPLAN are not entered while a result is decided.
LEMMA DriveStep == TypeOK /\ Pool /\ Drive /\ [Next]_vars => Drive'
<1> SUFFICES ASSUME TypeOK, Pool, Drive, [Next]_vars PROVE Drive'
  OBVIOUS
<1> USE DEF Drive, Driving, Deciding, controlVars, planVars, workerVars
<1>1. CASE Start \/ Stop \/ Shutdown \/ \E p \in Places : ExternalGoal(p)
  BY <1>1 DEF Start, Stop, Shutdown, ExternalGoal, InvalidatePlanning
<1>2. CASE Pause \/ Resume
  BY <1>2 DEF Pause, Resume
<1>3. CASE SaveAnswered
  BY <1>3 DEF SaveAnswered, SaveSucceeded, SaveRefused, SaveRaised
<1>4. CASE MapUpdate
  <2>1. PICK new \in Grid : MapRefreshed(new) \/ MapReshaped(new)
    BY <1>4, MapsWellFormed
  <2>2. CASE MapRefreshed(new)
    BY <2>2 DEF MapRefreshed
  <2>3. CASE MapReshaped(new)
    BY <2>3 DEF MapReshaped, InvalidatePlanning
  <2>4. QED
    BY <2>1, <2>2, <2>3
<1>5. CASE TickHalted \/ TickWaitSensor \/ TickEnter
  BY <1>5 DEF TickHalted, TickWaitSensor, TickEnter
<1>6. CASE TickSave
  BY <1>6 DEF TickSave, Saving, SaveSkipped, SaveRequested, SaveTimedOut,
              SaveAwaited
<1>7. CASE SensorsLost \/ PoseLost \/ MapLost \/ PlanExpired \/ TickFailed
  BY <1>7 DEF SensorsLost, PoseLost, MapLost, FallBack, TickFailed,
                PlanExpired,
              InvalidatePlanning
<1>8. CASE PoseMissing \/ PoseFound \/ MapFound \/ PlanInTime \/ PlannerBusy
             \/ PlannerIdle
  BY <1>8 DEF PoseMissing, PoseFound, MapFound, Advance, PlanInTime,
              PlannerBusy, PlannerIdle
<1>9. CASE Branch \/ CallPlanner
  BY <1>9 DEF Branch, CallPlanner
<1>10. CASE ScanTurn \/ ScanFinished \/ WaitInterval \/ VerifyFinished
              \/ RecoveryTurn \/ RecoveryFinished
  BY <1>10 DEF Dispatch, ScanTurn, ScanFinished, WaitInterval, VerifyFinished,
               RecoveryTurn, RecoveryFinished
<1>11. CASE FollowAbandoned \/ FollowDriven \/ FollowArrived \/ ReplanGoal
  BY <1>11 DEF Dispatch, FollowAbandoned, FollowDriven, FollowArrived,
               ReplanGoal, Pool, Handled
<1>12. CASE BeginPlan
  BY <1>12 DEF BeginPlan, LockFree, Critical
<1>13. CASE TakeJob \/ ResultOutdated \/ ResultIgnored
  BY <1>13 DEF TakeJob, ResultOutdated, ResultIgnored
<1>14. CASE ResultTaken
  BY <1>14 DEF ResultTaken, ResultReady, Pool, Handled
<1>15. CASE ResultUseless \/ PathUnsafe \/ FixedGoalFailed \/ GoalsAbsent
  BY <1>15 DEF ResultUseless, PathUnsafe, FixedGoalFailed, GoalsAbsent,
               NothingSelected, ResultFits, Decide
<1>16. ASSUME NEW p \in Places, PathCommitted(p) PROVE Drive'
  BY <1>16 DEF PathCommitted, ResultFits, Decide
<1>17. CASE ExplorationFinished
  BY <1>17 DEF ExplorationFinished, NothingSelected, ResultFits,
               InvalidatePlanning
<1>18. CASE PublishOutcome \/ EnterSave \/ ReleasePlanner
  BY <1>18 DEF PublishOutcome, EnterSave, ReleasePlanner
<1>19. CASE UNCHANGED vars
  BY <1>19 DEF vars
<1>20. QED
  BY <1>1, <1>2, <1>3, <1>4, <1>5, <1>6, <1>7, <1>8, <1>9, <1>10, <1>11, <1>12,
     <1>13, <1>14, <1>15, <1>16, <1>17, <1>18, <1>19
  DEF Next, Services, Tick, TickChecks, TickDispatch, Worker, PlanDone

\* A plan under way and a path being followed exclude each other.
LEMMA DriveCorrect == Spec => []Drive
<1>1. Init => Drive
  BY DEF Init, Drive, Driving, Deciding
<1>2. QED
  BY <1>1, DriveStep, PoolCorrect, TypeCorrect, PTL DEF Spec

(***************************************************************************)
(* What _plan_done commits stays committed until FOLLOW_PATH is published, *)
(* because the worker holds the lock, and afterwards, because whatever     *)
(* takes the goal or the geometry away also leaves FOLLOW_PATH.            *)
(***************************************************************************)
Committed ==
  /\ grid # None /\ hasPath /\ goal # None
  /\ goal.geom = grid.sig /\ pathSig = grid.sig

Commit ==
  /\ state = "FOLLOW" => Committed
  /\ worker = "publish" /\ outcome = "FOLLOW" => Committed

\* Nothing takes the committed path away and leaves FOLLOW_PATH.
LEMMA CommitStep ==
  TypeOK /\ Mapped /\ Drive /\ Commit /\ [Next]_vars => Commit'
<1> SUFFICES ASSUME TypeOK, Mapped, Drive, Commit, [Next]_vars PROVE Commit'
  OBVIOUS
<1> USE DEF Commit, Committed, controlVars, goalVars, planVars,
            workerVars
<1>1. CASE Start \/ Stop \/ Shutdown \/ \E p \in Places : ExternalGoal(p)
  BY <1>1 DEF Start, Stop, Shutdown, ExternalGoal, InvalidatePlanning,
              LockFree, Critical
<1>2. CASE Pause \/ Resume
  BY <1>2 DEF Pause, Resume
<1>3. CASE SaveAnswered
  BY <1>3 DEF SaveAnswered, SaveSucceeded, SaveRefused, SaveRaised
<1>4. CASE MapUpdate
  <2>1. PICK new \in Grid : MapRefreshed(new) \/ MapReshaped(new)
    BY <1>4, MapsWellFormed
  <2>2. new # None
    BY NoneAssumption
  <2>3. CASE MapRefreshed(new)
    BY <2>2, <2>3 DEF MapRefreshed, GeometryChanged, MapDependent, LockFree,
                      Critical
  <2>4. CASE MapReshaped(new)
    BY <2>4 DEF MapReshaped, LockFree, Critical
  <2>5. QED
    BY <2>1, <2>3, <2>4
<1>5. CASE TickHalted \/ TickWaitSensor \/ TickEnter
  BY <1>5 DEF TickHalted, TickWaitSensor, TickEnter
<1>6. CASE TickSave
  BY <1>6 DEF TickSave, Saving, SaveSkipped, SaveRequested, SaveTimedOut,
              SaveAwaited
<1>7. CASE SensorsLost \/ PoseLost \/ MapLost \/ PlanExpired \/ TickFailed
  BY <1>7 DEF SensorsLost, PoseLost, MapLost, FallBack, TickFailed,
                PlanExpired,
              InvalidatePlanning
<1>8. CASE PoseMissing \/ PoseFound \/ MapFound \/ PlanInTime \/ PlannerBusy
             \/ PlannerIdle
  BY <1>8 DEF PoseMissing, PoseFound, MapFound, Advance, PlanInTime,
              PlannerBusy, PlannerIdle
<1>9. CASE Branch \/ CallPlanner
  BY <1>9 DEF Branch, CallPlanner
<1>10. CASE ScanTurn \/ ScanFinished \/ WaitInterval \/ VerifyFinished
              \/ RecoveryTurn \/ RecoveryFinished
  BY <1>10 DEF Dispatch, ScanTurn, ScanFinished, WaitInterval, VerifyFinished,
               RecoveryTurn, RecoveryFinished
<1>11. CASE FollowAbandoned \/ FollowDriven \/ FollowArrived \/ ReplanGoal
  BY <1>11 DEF Dispatch, FollowAbandoned, FollowDriven, FollowArrived,
               ReplanGoal, Drive, Driving, Deciding
<1>12. CASE BeginPlan
  BY <1>12 DEF BeginPlan
<1>13. CASE TakeJob \/ ResultOutdated \/ ResultIgnored \/ ResultTaken
  BY <1>13 DEF TakeJob, ResultOutdated, ResultIgnored, ResultTaken
<1>14. CASE ResultUseless \/ PathUnsafe \/ FixedGoalFailed \/ GoalsAbsent
  BY <1>14 DEF ResultUseless, PathUnsafe, FixedGoalFailed, GoalsAbsent,
               NothingSelected, ResultFits, Decide, Drive, Driving, Deciding
<1>15. ASSUME NEW p \in Places, PathCommitted(p) PROVE Commit'
  <2>1. CellAt(result.sig, p) # None /\ CellAt(result.sig, p).geom = result.sig
    BY <1>15, CellsWellFormed, NoneAssumption
    DEF PathCommitted, ResultFits, Mapped, TypeOK, Job, CellAt
  <2>2. Committed'
    BY <1>15, <2>1 DEF PathCommitted, ResultFits, Mapped
  <2>3. QED
    BY <2>2
<1>16. CASE ExplorationFinished
  BY <1>16 DEF ExplorationFinished, NothingSelected, ResultFits,
               Drive, Driving, Deciding
<1>17. CASE PublishOutcome \/ EnterSave \/ ReleasePlanner
  BY <1>17 DEF PublishOutcome, EnterSave, ReleasePlanner
<1>18. CASE UNCHANGED vars
  BY <1>18 DEF vars
<1>19. QED
  BY <1>1, <1>2, <1>3, <1>4, <1>5, <1>6, <1>7, <1>8, <1>9, <1>10, <1>11, <1>12,
     <1>13, <1>14, <1>15, <1>16, <1>17, <1>18
  DEF Next, Services, Tick, TickChecks, TickDispatch, Worker, PlanDone

\* A robot in FOLLOW_PATH has a path and a goal of the current map's geometry,
\* however map updates, expired plans and late results interleave.
THEOREM FollowIsAlwaysCommitted == Spec => []FollowIsCommitted
<1>1. Init => Commit
  BY DEF Init, Commit
<1>2. Commit => FollowIsCommitted
  BY DEF Commit, Committed, FollowIsCommitted
<1>3. QED
  BY <1>1, <1>2, CommitStep, DriveCorrect, TypedAndMapped, PTL DEF Spec

(***************************************************************************)
(* Pause and stop: the executor is never inside a tick then, and a stopped *)
(* run has no result past its check.                                       *)
(***************************************************************************)
Control ==
  /\ exec \notin {"spin", "destroyed"} => ~Gated
  /\ stopRequested => worker \in {"idle", "working"}

\* Pause and stop fall between ticks, stop outside _plan_done.
LEMMA ControlStep == TypeOK /\ Control /\ [Next]_vars => Control'
<1> SUFFICES ASSUME TypeOK, Control, [Next]_vars PROVE Control'
  OBVIOUS
<1> USE DEF Control, Gated, controlVars, workerVars
<1>1. CASE Start \/ Stop \/ Shutdown \/ \E p \in Places : ExternalGoal(p)
  BY <1>1 DEF Start, Stop, Shutdown, ExternalGoal, LockFree, TypeOK
<1>2. CASE Pause \/ Resume \/ SaveAnswered
  BY <1>2 DEF Pause, Resume, SaveAnswered
<1>3. CASE MapUpdate
  BY <1>3 DEF MapUpdate, MapRefreshed, MapReshaped
<1>4. CASE TickHalted \/ TickWaitSensor \/ TickSave \/ TickEnter
  BY <1>4 DEF TickHalted, TickWaitSensor, TickSave, TickEnter
<1>5. CASE TickChecks
  BY <1>5 DEF TickChecks, SensorsLost, PoseLost, MapLost, FallBack, PoseMissing,
              PoseFound, MapFound, Advance, PlannerBusy, PlannerIdle,
              ChecksPassed, PlanInTime, PlanExpired
<1>6. CASE TickDispatch
  BY <1>6 DEF TickDispatch, Dispatch, Branch, ScanTurn, ScanFinished,
              WaitInterval, VerifyFinished, CallPlanner, RecoveryTurn,
              RecoveryFinished, FollowAbandoned, FollowDriven, FollowArrived,
              ReplanGoal
<1>7. CASE BeginPlan \/ TickFailed
  BY <1>7 DEF BeginPlan, TickFailed
<1>8. CASE Worker
  BY <1>8 DEF Worker, TakeJob, PublishOutcome, EnterSave, ReleasePlanner,
              PlanDone, ResultOutdated, ResultIgnored, ResultTaken,
              ResultUseless, ResultFits, PathUnsafe, PathCommitted,
              FixedGoalFailed, NothingSelected, ExplorationFinished,
              GoalsAbsent, Decide
<1>9. CASE UNCHANGED vars
  BY <1>9 DEF vars
<1>10. QED
  BY <1>1, <1>2, <1>3, <1>4, <1>5, <1>6, <1>7, <1>8, <1>9
  DEF Next, Services, Tick

\* A paused or stopped run has no tick under way.
LEMMA ControlCorrect == Spec => []Control
<1>1. Init => Control
  BY DEF Init, Control, Gated
<1>2. QED
  BY <1>1, ControlStep, TypeCorrect, PTL DEF Spec

\* Only three handlers of a tick ever command motion.
LEMMA MotionStep ==
  TypeOK /\ [Next]_vars /\ velocity = "zero" /\ velocity' = "moving"
    => exec \in Handled /\ UNCHANGED <<state, queued, running>>
<1> SUFFICES ASSUME TypeOK, [Next]_vars,
                    velocity = "zero", velocity' = "moving"
             PROVE  exec \in Handled /\ UNCHANGED <<state, queued, running>>
  OBVIOUS
<1>1. CASE Services
  BY <1>1 DEF Services, Start, Pause, Resume, Stop, Shutdown, ExternalGoal
<1>2. CASE MapUpdate \/ SaveAnswered
  BY <1>2 DEF MapUpdate, MapRefreshed, MapReshaped, SaveAnswered
<1>3. CASE TickHalted \/ TickWaitSensor \/ TickSave \/ TickEnter \/ BeginPlan
             \/ TickFailed
  BY <1>3 DEF TickHalted, TickWaitSensor, TickSave, TickEnter, BeginPlan,
              TickFailed
<1>4. CASE TickChecks
  BY <1>4 DEF TickChecks, SensorsLost, PoseLost, MapLost, FallBack, PoseMissing,
              PoseFound, MapFound, Advance, PlannerBusy, PlannerIdle,
              PlanInTime, PlanExpired
<1>5. CASE TickDispatch
  BY <1>5 DEF TickDispatch, Dispatch, Branch, ScanTurn, ScanFinished,
              WaitInterval, VerifyFinished, CallPlanner, RecoveryTurn,
              RecoveryFinished, FollowAbandoned, FollowDriven, FollowArrived,
              ReplanGoal, Handled, planVars
<1>6. CASE Worker
  BY <1>6 DEF Worker, TakeJob, PublishOutcome, EnterSave, ReleasePlanner,
              PlanDone, ResultOutdated, ResultIgnored, ResultTaken,
              ResultUseless, PathUnsafe, PathCommitted, FixedGoalFailed,
              ExplorationFinished, GoalsAbsent
<1>7. CASE UNCHANGED vars
  BY <1>7 DEF vars
<1>8. QED
  BY <1>1, <1>2, <1>3, <1>4, <1>5, <1>6, <1>7 DEF Next, Tick

\* The robot is set in motion only while no plan of the current generation is
\* still to come, and neither pause nor stop is in force.
THEOREM MotionIsGated == Spec => MovesWithoutPlan
<1>1. TypeOK /\ Pool /\ Control /\ [Next]_vars =>
        [velocity = "zero" /\ velocity' = "moving"
           => Current = {} /\ ~Gated /\ state' = state]_vars
  <2> SUFFICES ASSUME TypeOK, Pool, Control, [Next]_vars,
                      velocity = "zero", velocity' = "moving"
               PROVE  Current = {} /\ ~Gated /\ state' = state
    OBVIOUS
  <2>1. exec \in Handled /\ state' = state
    BY MotionStep
  <2>2. queued = None /\ running \in {None, Stale}
    BY <2>1 DEF Pool
  <2>3. ~Gated
    BY <2>1 DEF Control, Handled
  <2>4. QED
    BY <2>1, <2>2, <2>3 DEF Current
<1>2. QED
  BY <1>1, ControlCorrect, PoolCorrect, TypeCorrect, PTL
  DEF Spec, MovesWithoutPlan

\* After ~/stop, neither the planner nor the timer brings the run back.
THEOREM StopIsFinal == Spec => StopHolds
<1>1. TypeOK /\ Control /\ [Next]_vars =>
        [state = "IDLE" /\ stopRequested /\ ~saveLive
           => \/ state' = "IDLE"
              \/ state' = "WAIT_SENSOR" /\ ~stopRequested'
              \/ state' = "PLAN" /\ manualGoal' # None /\ velocity' = "zero"]_vars
  <2> SUFFICES ASSUME TypeOK, Control, [Next]_vars,
                      state = "IDLE", stopRequested, ~saveLive
               PROVE  \/ state' = "IDLE"
                      \/ state' = "WAIT_SENSOR" /\ ~stopRequested'
                      \/ state' = "PLAN" /\ manualGoal' # None
                           /\ velocity' = "zero"
    OBVIOUS
  <2> USE DEF Control, Gated
  <2>1. ASSUME NEW p \in Places, ExternalGoal(p)
        PROVE  state' = "PLAN" /\ manualGoal' # None /\ velocity' = "zero"
    BY <2>1, NoneAssumption DEF ExternalGoal
  <2>2. CASE Start
    BY <2>2 DEF Start
  <2>3. CASE Pause \/ Resume \/ Stop \/ Shutdown
    BY <2>3 DEF Pause, Resume, Stop, Shutdown
  <2>4. CASE MapUpdate \/ SaveAnswered
    BY <2>4 DEF MapUpdate, MapRefreshed, MapReshaped, MapDependent, SaveAnswered
  <2>5. CASE TickHalted \/ TickWaitSensor \/ TickSave \/ TickEnter
    BY <2>5 DEF TickHalted, TickWaitSensor, TickSave, Saving, SaveSkipped,
                SaveRequested, SaveTimedOut, SaveAwaited, TickEnter
  <2>6. exec \in {"spin", "destroyed"}
    OBVIOUS
  <2>7. CASE TickChecks \/ TickDispatch \/ BeginPlan \/ TickFailed
    BY <2>6, <2>7
    DEF TickChecks, SensorsLost, PoseLost, MapLost, PoseMissing, PoseFound,
        MapFound, PlannerBusy, PlannerIdle, ChecksPassed, PlanInTime,
        PlanExpired, TickDispatch, Dispatch, Branch, ScanTurn, ScanFinished,
        WaitInterval, VerifyFinished, CallPlanner, RecoveryTurn,
        RecoveryFinished, FollowAbandoned, FollowDriven, FollowArrived,
        ReplanGoal, BeginPlan, Planner, TickFailed
  <2>8. CASE Worker
    BY <2>8 DEF Worker, TakeJob, PublishOutcome, EnterSave, ReleasePlanner,
                PlanDone, ResultOutdated, ResultIgnored, ResultTaken,
                ResultUseless, ResultFits, PathUnsafe, PathCommitted,
                FixedGoalFailed, NothingSelected, ExplorationFinished,
                GoalsAbsent
  <2>9. CASE UNCHANGED vars
    BY <2>9 DEF vars
  <2>10. QED
    BY <2>1, <2>2, <2>3, <2>4, <2>5, <2>7, <2>8, <2>9 DEF Next, Services, Tick
<1>2. QED
  BY <1>1, ControlCorrect, TypeCorrect, PTL DEF Spec, StopHolds

(***************************************************************************)
(* The request: a plan that is still current was made for the goal that    *)
(* still stands, whoever changed goals in between.                         *)
(***************************************************************************)
Fits(job) ==
  /\ job.manual = (manualGoal # None)
  /\ ~job.frontier => job.fixed = FixedGoal

Requests ==
  /\ queued # None => Fits(queued)
  /\ worker = "working" /\ running \notin {None, Stale} => Fits(running)
  /\ worker = "decide" => Fits(result)

\* Every job is made for the goal of the moment.
LEMMA JobsFit == \A job \in Snapshot : Fits(job)
<1>1. Fits(FixedJob)
  BY DEF Fits, FixedJob
<1>2. \A goals, listed : Fits(FrontierJob(goals, listed))
  BY DEF Fits, FrontierJob
<1>3. QED
  BY <1>1, <1>2 DEF Snapshot

\* Goals change only while nothing current depends on them, or together with
\* an invalidation.
LEMMA RequestsStep ==
  TypeOK /\ Mapped /\ Pool /\ Drive /\ Requests /\ [Next]_vars => Requests'
<1> SUFFICES ASSUME TypeOK, Mapped, Pool, Drive, Requests, [Next]_vars
             PROVE  Requests'
  OBVIOUS
<1> USE DEF Requests, controlVars, goalVars, planVars, workerVars
<1>1. CASE Start \/ Stop \/ Shutdown \/ \E p \in Places : ExternalGoal(p)
  <2>1. CASE Start \/ \E p \in Places : ExternalGoal(p)
    <3>1. InvalidatePlanning /\ worker' = worker /\ worker # "decide"
      BY <2>1 DEF Start, ExternalGoal, LockFree, Critical
    <3>2. QED
      BY <3>1, InvalidationClears
  <2>2. CASE Stop \/ Shutdown
    <3>1. InvalidatePlanning
          /\ UNCHANGED <<worker, result, manualGoal, activeGoal>>
      BY <2>2 DEF Stop, Shutdown
    <3>2. QED
      BY <3>1, InvalidationClears DEF Fits, FixedGoal
  <2>3. QED
    BY <1>1, <2>1, <2>2
<1>2. CASE MapUpdate
  <2>1. PICK new \in Grid : MapRefreshed(new) \/ MapReshaped(new)
    BY <1>2, MapsWellFormed
  <2>2. CASE MapRefreshed(new)
    BY <2>2 DEF MapRefreshed, Fits, FixedGoal
  <2>3. CASE MapReshaped(new)
    <3>1. InvalidatePlanning /\ worker' = worker /\ worker # "decide"
      BY <2>3 DEF MapReshaped, LockFree, Critical
    <3>2. QED
      BY <3>1, InvalidationClears
  <2>4. QED
    BY <2>1, <2>2, <2>3
<1>3. CASE SensorsLost \/ PoseLost \/ MapLost \/ PlanExpired \/ TickFailed
  <2>1. InvalidatePlanning
        /\ UNCHANGED <<worker, result, manualGoal, activeGoal>>
    BY <1>3 DEF SensorsLost, PoseLost, MapLost, FallBack, TickFailed,
                PlanExpired
  <2>2. QED
    BY <2>1, InvalidationClears DEF Fits, FixedGoal
<1>4. CASE FollowArrived \/ ReplanGoal
  <2>1. exec \in Driving /\ UNCHANGED <<queued, running, worker>>
    BY <1>4 DEF FollowArrived, ReplanGoal, Dispatch, Driving
  <2>2. queued = None /\ running \in {None, Stale} /\ worker # "decide"
    BY <2>1 DEF Pool, Drive, Driving, Deciding, Handled
  <2>3. QED
    BY <2>1, <2>2
<1>5. CASE BeginPlan
  <2>1. queued' \in Snapshot
    BY <1>5 DEF BeginPlan
  <2>2. Fits(queued')
    BY <2>1, JobsFit
  <2>3. running' \in {None, Stale} /\ worker # "decide"
    BY <1>5 DEF BeginPlan, Outdated, LockFree, Critical
  <2>4. QED
    BY <1>5, <2>2, <2>3 DEF BeginPlan, Fits, FixedGoal
<1>6. CASE TakeJob \/ ResultOutdated \/ ResultIgnored
  BY <1>6 DEF TakeJob, ResultOutdated, ResultIgnored, Fits, FixedGoal
<1>7. CASE ResultTaken
  BY <1>7 DEF ResultTaken, ResultReady, Fits, FixedGoal
<1>8. CASE ResultUseless \/ PathUnsafe \/ FixedGoalFailed \/ GoalsAbsent
             \/ ExplorationFinished \/ \E p \in Places : PathCommitted(p)
  <2>1. worker = "decide" /\ worker' \in {"publish", "saving"}
        /\ queued' = None
    BY <1>8 DEF ResultUseless, PathUnsafe, FixedGoalFailed, GoalsAbsent,
                ExplorationFinished, PathCommitted, NothingSelected,
                ResultFits, Decide, Pool, Critical, InvalidatePlanning
  <2>2. QED
    BY <2>1
<1>9. CASE PublishOutcome \/ EnterSave \/ ReleasePlanner
  BY <1>9 DEF PublishOutcome, EnterSave, ReleasePlanner, Pool, Critical
<1>10. CASE UNCHANGED <<manualGoal, activeGoal, queued, running, worker, result>>
  BY <1>10 DEF Fits, FixedGoal
<1>11. CASE Pause \/ Resume \/ SaveAnswered \/ TickHalted \/ TickWaitSensor
              \/ TickSave \/ TickEnter
  BY <1>10, <1>11 DEF Pause, Resume, SaveAnswered, TickHalted, TickWaitSensor,
                      TickSave, TickEnter
<1>12. CASE PoseMissing \/ PoseFound \/ MapFound \/ PlanInTime \/ PlannerBusy
              \/ PlannerIdle \/ Branch \/ CallPlanner
  BY <1>10, <1>12 DEF PoseMissing, PoseFound, MapFound, Advance, PlanInTime,
                      PlannerBusy, PlannerIdle, Branch, CallPlanner
<1>13. CASE ScanTurn \/ ScanFinished \/ WaitInterval \/ VerifyFinished
              \/ RecoveryTurn \/ RecoveryFinished \/ FollowAbandoned
              \/ FollowDriven
  BY <1>10, <1>13 DEF ScanTurn, ScanFinished, WaitInterval, VerifyFinished,
                      RecoveryTurn, RecoveryFinished, FollowAbandoned,
                      FollowDriven
<1>14. CASE UNCHANGED vars
  BY <1>10, <1>14 DEF vars
<1>15. QED
  BY <1>1, <1>2, <1>3, <1>4, <1>5, <1>6, <1>7, <1>8, <1>9, <1>11, <1>12,
     <1>13, <1>14
  DEF Next, Services, Tick, TickChecks, TickDispatch, Worker, PlanDone

\* A path is committed only for the request that still stands: the same map
\* geometry, the same goal of the operator, the same fixed goal.
THEOREM CommitsAreForTheRequest == Spec => CommitMatchesRequest
<1>1. Init => Requests
  BY DEF Init, Requests
<1>2. Spec => []Requests
  BY <1>1, RequestsStep, TypedAndMapped, PoolCorrect, DriveCorrect, PTL
  DEF Spec
<1>3. TypeOK /\ Requests /\ [Next]_vars =>
        [worker = "decide" /\ worker' = "publish" /\ outcome' = "FOLLOW"
           => /\ result.sig = grid.sig
              /\ result.manual = (manualGoal # None)
              /\ ~result.frontier => result.fixed = FixedGoal]_vars
  <2> SUFFICES ASSUME TypeOK, Requests, [Next]_vars, worker = "decide",
                      worker' = "publish", outcome' = "FOLLOW"
               PROVE  result.sig = grid.sig
    BY DEF Requests, Fits
  <2> USE DEF controlVars, workerVars
  <2>1. CASE Services \/ MapUpdate \/ SaveAnswered
    BY <2>1 DEF Services, Start, Pause, Resume, Stop, Shutdown, ExternalGoal,
                MapUpdate, MapRefreshed, MapReshaped, SaveAnswered
  <2>2. CASE Tick
    BY <2>2 DEF Tick, TickHalted, TickWaitSensor, TickSave, TickEnter,
                BeginPlan, TickFailed, TickChecks, SensorsLost, PoseLost, MapLost,
                FallBack, PoseMissing, PoseFound, MapFound, Advance,
                PlannerBusy, PlannerIdle, PlanInTime, PlanExpired,
                TickDispatch, Branch, ScanTurn, ScanFinished, WaitInterval,
                VerifyFinished, CallPlanner, RecoveryTurn, RecoveryFinished,
                FollowAbandoned, FollowDriven, FollowArrived, ReplanGoal
  <2>3. CASE Worker
    BY <2>3 DEF Worker, TakeJob, PublishOutcome, EnterSave, ReleasePlanner,
                PlanDone, ResultOutdated, ResultIgnored, ResultTaken,
                ResultReady, ResultUseless, ResultFits, PathUnsafe,
                PathCommitted, FixedGoalFailed, NothingSelected,
                ExplorationFinished, GoalsAbsent, Decide
  <2>4. CASE UNCHANGED vars
    BY <2>4 DEF vars
  <2>5. QED
    BY <2>1, <2>2, <2>3, <2>4 DEF Next
<1>4. QED
  BY <1>2, <1>3, TypeCorrect, PTL DEF Spec, CommitMatchesRequest

(***************************************************************************)
(* Standing still: without external goals, the answer to a save request    *)
(* cannot end a run that has gone on in the meantime.                      *)
(***************************************************************************)
Saved ==
  /\ state = "SAVE" => queued = None /\ worker \in {"clear", "idle"}
  /\ saveLive => /\ state \in Halted \cup {"SAVE"}
                 /\ exec \in {"spin", "destroyed"}
                 /\ queued = None /\ worker \in {"clear", "idle"}
                 /\ velocity = "zero"

Moving == {"INITIAL_SCAN", "FOLLOW", "RECOVERY"}

Still ==
  /\ state \in StillStates \/ Gated \/ exec \in Planner \cup {"expiry"}
       => velocity = "zero"
  /\ exec \in Moving => state \notin StillStates

\* A save request is outstanding only while nothing else goes on.
LEMMA SavedStep ==
  ASSUME ~AcceptGoals
  PROVE  TypeOK /\ Mapped /\ Pool /\ Control /\ Saved /\ [Next]_vars => Saved'
<1> SUFFICES ASSUME TypeOK, Mapped, Pool, Control, Saved, [Next]_vars
             PROVE  Saved'
  OBVIOUS
<1> USE DEF Saved, Halted, controlVars, planVars, saveVars, workerVars
<1>1. CASE Start \/ Stop \/ Shutdown \/ \E p \in Places : ExternalGoal(p)
  BY <1>1 DEF Start, Stop, Shutdown, ExternalGoal, InvalidatePlanning
<1>2. CASE Pause \/ Resume
  BY <1>2 DEF Pause, Resume
<1>3. CASE SaveAnswered
  BY <1>3 DEF SaveAnswered, SaveSucceeded, SaveRefused, SaveRaised
<1>4. CASE MapUpdate
  <2>1. PICK new \in Grid : MapRefreshed(new) \/ MapReshaped(new)
    BY <1>4, MapsWellFormed
  <2>2. CASE MapRefreshed(new)
    BY <2>2 DEF MapRefreshed
  <2>3. CASE MapReshaped(new)
    BY <2>3 DEF MapReshaped, MapDependent, InvalidatePlanning
  <2>4. QED
    BY <2>1, <2>2, <2>3
<1>5. CASE TickHalted \/ TickWaitSensor \/ TickEnter
  BY <1>5 DEF TickHalted, TickWaitSensor, TickEnter
<1>6. CASE TickSave
  BY <1>6 DEF TickSave, Saving, SaveSkipped, SaveRequested, SaveTimedOut,
              SaveAwaited
<1>7. CASE TickChecks \/ TickFailed
  BY <1>7 DEF TickChecks, SensorsLost, PoseLost, MapLost, FallBack, TickFailed,
              PoseMissing, PoseFound, MapFound, Advance, PlannerBusy,
              PlannerIdle, ChecksPassed, PlanInTime, PlanExpired,
              InvalidatePlanning
<1>8. CASE TickDispatch
  BY <1>8 DEF TickDispatch, Dispatch, Branch, ScanTurn, ScanFinished,
              WaitInterval, VerifyFinished, CallPlanner, RecoveryTurn,
              RecoveryFinished, FollowAbandoned, FollowDriven, FollowArrived,
              ReplanGoal
<1>9. CASE BeginPlan
  BY <1>9 DEF BeginPlan, Planner
<1>10. CASE TakeJob \/ ResultOutdated \/ ResultIgnored \/ ResultTaken
  BY <1>10 DEF TakeJob, ResultOutdated, ResultIgnored, ResultTaken, ResultReady
<1>11. CASE ResultUseless \/ PathUnsafe \/ FixedGoalFailed \/ GoalsAbsent
              \/ ExplorationFinished \/ \E p \in Places : PathCommitted(p)
  BY <1>11 DEF ResultUseless, PathUnsafe, FixedGoalFailed, GoalsAbsent,
               ExplorationFinished, PathCommitted, NothingSelected,
               ResultFits, Decide
<1>12. CASE PublishOutcome \/ EnterSave \/ ReleasePlanner
  BY <1>12 DEF PublishOutcome, EnterSave, ReleasePlanner, Pool, Critical,
               Mapped, Outcomes
<1>13. CASE UNCHANGED vars
  BY <1>13 DEF vars
<1>14. QED
  BY <1>1, <1>2, <1>3, <1>4, <1>5, <1>6, <1>7, <1>8, <1>9, <1>10, <1>11,
     <1>12, <1>13
  DEF Next, Services, Tick, Worker, PlanDone

\* Whoever enters a state of rest has stopped the robot, or knows it stopped.
LEMMA StillStep ==
  ASSUME ~AcceptGoals
  PROVE  TypeOK /\ Mapped /\ Control /\ Saved /\ Still /\ [Next]_vars => Still'
<1> SUFFICES ASSUME TypeOK, Mapped, Control, Saved, Still, [Next]_vars
             PROVE  Still'
  OBVIOUS
<1> USE DEF Still, StillStates, Moving, Gated, Planner, controlVars
<1>1. CASE Services
  BY <1>1 DEF Services, Start, Pause, Resume, Stop, Shutdown, ExternalGoal,
              Control
<1>2. CASE SaveAnswered
  BY <1>2 DEF SaveAnswered, Saved
<1>3. CASE MapUpdate
  BY <1>3 DEF MapUpdate, MapRefreshed, MapReshaped
<1>4. CASE TickHalted \/ TickWaitSensor \/ TickSave \/ TickEnter
  BY <1>4 DEF TickHalted, TickWaitSensor, TickSave, Saving, SaveSkipped,
              SaveRequested, SaveTimedOut, SaveAwaited, TickEnter
<1>5. CASE TickChecks \/ TickFailed
  BY <1>5 DEF TickChecks, SensorsLost, PoseLost, MapLost, FallBack, TickFailed,
              PoseMissing, PoseFound, MapFound, Advance, PlannerBusy,
              PlannerIdle, PlanInTime, PlanExpired
<1>6. CASE TickDispatch
  BY <1>6 DEF TickDispatch, Dispatch, Branch, ScanTurn, ScanFinished,
              WaitInterval, VerifyFinished, CallPlanner, RecoveryTurn,
              RecoveryFinished, FollowAbandoned, FollowDriven, FollowArrived,
              ReplanGoal, Control, Handled, TypeOK
<1>7. CASE BeginPlan
  BY <1>7 DEF BeginPlan
<1>8. CASE TakeJob \/ ReleasePlanner \/ ResultOutdated \/ ResultIgnored
             \/ ResultTaken
  BY <1>8 DEF TakeJob, ReleasePlanner, ResultOutdated, ResultIgnored,
              ResultTaken
<1>9. CASE PublishOutcome \/ EnterSave
  BY <1>9 DEF PublishOutcome, EnterSave, Mapped, Outcomes
<1>10. CASE ResultUseless \/ PathUnsafe \/ FixedGoalFailed \/ GoalsAbsent
              \/ ExplorationFinished \/ \E p \in Places : PathCommitted(p)
  BY <1>10 DEF ResultUseless, PathUnsafe, FixedGoalFailed, GoalsAbsent,
               ExplorationFinished, PathCommitted
<1>11. CASE UNCHANGED vars
  BY <1>11 DEF vars
<1>12. QED
  BY <1>1, <1>2, <1>3, <1>4, <1>5, <1>6, <1>7, <1>8, <1>9, <1>10, <1>11
  DEF Next, Tick, Worker, PlanDone

\* Where no external goal is accepted, the robot is under a stop command in
\* every state of rest, and whenever the run is paused or stopped.
THEOREM StandsStill ==
  ASSUME ~AcceptGoals
  PROVE  Spec => []StillWhenNotDriving
<1>1. Init => Saved /\ Still
  BY DEF Init, Saved, Still, Moving, Planner
<1>2. Still => StillWhenNotDriving
  BY DEF Still, StillWhenNotDriving
<1>3. QED
  BY <1>1, <1>2, SavedStep, StillStep, TypedAndMapped, PoolCorrect,
     ControlCorrect, PTL
  DEF Spec
=============================================================================
