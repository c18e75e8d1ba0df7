----------------------------- MODULE StagedDemo -----------------------------
(***************************************************************************)
(* The staged_navigation_demo node of the simulation: it plans and drives  *)
(* to one target after the other through Nav2, gives each a second chance, *)
(* and has Gazebo put an obstacle on every road and take it away again.    *)
(* Its callbacks run one at a time; Nav2 and Gazebo answer when they like. *)
(*                                                                         *)
(* Abstractions                                                            *)
(*  - A target, its road and the obstacle of that road share a number.     *)
(*  - The pauses between the phases and the distance from the robot to an  *)
(*    obstacle are left open.                                              *)
(*  - Nav2 and Gazebo are external: what was asked for may be refused, may *)
(*    fail, and may take any time.                                         *)
(***************************************************************************)
EXTENDS Naturals, FiniteSets

CONSTANT Stages      \* the number of targets
ASSUME StagesAssumption == Stages \in Nat \ {0}

MaxRetries == 1
Roads == 1..Stages
Nobody == 0          \* no obstacle

VARIABLES
  steady,            \* Gazebo's delete service is always there
  prompt,            \* Gazebo answers before the next obstacle is due
  mapReady,          \* map_ready
  readySince,        \* ready_since is set
  stage,             \* stage_index, from one
  phase,
  retryCount,        \* retry_count
  goal,              \* the goal Nav2 has, by how far it is
  spawned,           \* spawned_obstacles
  active,            \* active_obstacle
  deleting,          \* calls to delete an obstacle: <<which, the next to spawn>>
  spawning,          \* calls to spawn an obstacle
  world              \* the obstacles there are

gazeboVars == <<deleting, spawning, world>>
obstacleVars == <<spawned, active, gazeboVars>>
readyVars == <<steady, prompt, mapReady, readySince>>
vars == <<readyVars, stage, phase, retryCount, goal, obstacleVars>>

Init ==
  /\ steady \in BOOLEAN /\ prompt \in BOOLEAN
  /\ mapReady = FALSE /\ readySince = FALSE
  /\ stage = 1 /\ phase = "WAITING" /\ retryCount = 0
  /\ goal = "none"
  /\ spawned = {} /\ active = Nobody
  /\ deleting = {} /\ spawning = {} /\ world = {}

(***************************************************************************)
(* Planning and driving                                                    *)
(***************************************************************************)
MapCallback(good) ==
  /\ mapReady' = good
  /\ UNCHANGED <<steady, prompt, readySince, stage, phase, retryCount, goal,
                 obstacleVars>>

RequestPlan ==
  /\ phase' = "PLANNING"
  /\ goal' = "plan sent"

\* The servers may be there or not at each look; three seconds in a row count.
Waiting ==
  /\ phase = "WAITING"
  /\ \/ /\ readySince' = FALSE
        /\ UNCHANGED <<phase, goal>>
     \/ /\ mapReady /\ ~readySince
        /\ readySince' = TRUE
        /\ UNCHANGED <<phase, goal>>
     \/ /\ mapReady /\ readySince
        /\ RequestPlan
        /\ UNCHANGED readySince
  /\ UNCHANGED <<steady, prompt, mapReady, stage, retryCount, obstacleVars>>

\* fail_or_retry.
\* Seeded defect: the attempts are not counted.
RetryAlways == phase' = "RETRY" /\ UNCHANGED retryCount
FailOrRetry ==
  IF retryCount < MaxRetries
  THEN phase' = "RETRY" /\ retryCount' = retryCount + 1
  ELSE phase' = "BETWEEN" /\ UNCHANGED retryCount

\* plan_goal_response, and the same of nav_goal_response.
GoalRefused ==
  /\ goal \in {"plan sent", "nav sent"}
  /\ goal' = "none"
  /\ FailOrRetry
  /\ UNCHANGED <<readyVars, stage, obstacleVars>>
PlanAccepted ==
  /\ goal = "plan sent"
  /\ goal' = "planning"
  /\ UNCHANGED <<readyVars, stage, phase, retryCount, obstacleVars>>
NavAccepted ==
  /\ goal = "nav sent"
  /\ goal' = "driving"
  /\ phase' = "NAVIGATING"
  /\ UNCHANGED <<readyVars, stage, retryCount, obstacleVars>>

\* plan_result.
PlanFound ==
  /\ goal = "planning"
  /\ goal' = "none"
  /\ phase' = "PREVIEW"
  /\ UNCHANGED <<readyVars, stage, retryCount, obstacleVars>>
PlanFailed ==
  /\ goal = "planning"
  /\ goal' = "none"
  /\ FailOrRetry
  /\ UNCHANGED <<readyVars, stage, obstacleVars>>

\* Seeded defect: the preview goes on until the goal is accepted.
StartInPreview ==
  /\ phase = "PREVIEW"
  /\ goal' = "nav sent"
  /\ UNCHANGED <<readyVars, stage, phase, retryCount, obstacleVars>>
StartNavigation ==
  /\ phase = "PREVIEW"
  /\ phase' = "SENDING"
  /\ goal' = "nav sent"
  /\ UNCHANGED <<readyVars, stage, retryCount, obstacleVars>>

\* clear_active_obstacle: without the service the obstacle is forgotten.
\* Seeded defect: the obstacle is forgotten in any case.
ForgetObstacle == active' = Nobody /\ UNCHANGED deleting
ClearObstacle ==
  /\ active' = Nobody
  /\ \/ active # Nobody /\ deleting' = deleting \cup {<<active, Nobody>>}
     \/ (active = Nobody \/ ~steady) /\ UNCHANGED deleting

\* nav_result.
NavSucceeded ==
  /\ goal = "driving"
  /\ goal' = "none"
  /\ ClearObstacle
  /\ phase' = "BETWEEN"
  /\ UNCHANGED <<readyVars, stage, retryCount, spawned, spawning, world>>
NavFailed ==
  /\ goal = "driving"
  /\ goal' = "none"
  /\ FailOrRetry
  /\ UNCHANGED <<readyVars, stage, obstacleVars>>

\* Seeded defect: the end of the targets is noticed one stage too late.
NextStageBeyond ==
  /\ phase = "BETWEEN"
  /\ stage' = stage + 1
  /\ retryCount' = 0
  /\ IF stage > Stages THEN phase' = "DONE" /\ UNCHANGED goal ELSE RequestPlan
  /\ UNCHANGED <<readyVars, obstacleVars>>
NextStage ==
  /\ phase = "BETWEEN"
  /\ stage' = stage + 1
  /\ retryCount' = 0
  /\ IF stage = Stages THEN phase' = "DONE" /\ UNCHANGED goal ELSE RequestPlan
  /\ UNCHANGED <<readyVars, obstacleVars>>

Retry ==
  /\ phase = "RETRY"
  /\ RequestPlan
  /\ UNCHANGED <<readyVars, stage, retryCount, obstacleVars>>

(***************************************************************************)
(* The obstacles                                                           *)
(***************************************************************************)
\* spawn_dynamic_obstacle: without the service there is none.
Spawn(n) == spawning' = spawning \cup {n} \/ UNCHANGED spawning

Due(n) ==
  /\ phase = "NAVIGATING" /\ n = stage /\ n \notin spawned
  /\ prompt => deleting = {} /\ spawning = {}
  /\ spawned' = spawned \cup {n}

\* The robot is less than 1.2 m away.
SafetySkip(n) ==
  /\ Due(n)
  /\ UNCHANGED <<readyVars, stage, phase, retryCount, goal, active, gazeboVars>>

\* insert_dynamic_obstacle: the last obstacle goes first, and its successor
\* is spawned when Gazebo has answered.
\* Seeded defect: the obstacle is spawned at once.
InsertAtOnce(n) ==
  /\ Due(n)
  /\ deleting' = deleting \cup IF active # Nobody THEN {<<active, Nobody>>} ELSE {}
  /\ Spawn(n)
  /\ UNCHANGED <<readyVars, stage, phase, retryCount, goal, active, world>>
Insert(n) ==
  /\ Due(n)
  /\ \/ /\ active # Nobody
        /\ deleting' = deleting \cup {<<active, n>>}
        /\ UNCHANGED spawning
     \/ /\ active = Nobody \/ ~steady
        /\ Spawn(n)
        /\ UNCHANGED deleting
  /\ UNCHANGED <<readyVars, stage, phase, retryCount, goal, active, world>>

DeleteAnswered(call) ==
  /\ deleting' = deleting \ {call}
  /\ world' = world \ {call[1]}
  /\ IF call[2] = Nobody THEN UNCHANGED spawning ELSE Spawn(call[2])
  /\ UNCHANGED <<readyVars, stage, phase, retryCount, goal, spawned, active>>

\* spawn_result.
SpawnAnswered(n) ==
  /\ spawning' = spawning \ {n}
  /\ \/ world' = world \cup {n} /\ active' = n
     \/ UNCHANGED <<world, active>>
  /\ UNCHANGED <<readyVars, stage, phase, retryCount, goal, spawned, deleting>>

Nav2 == GoalRefused \/ PlanAccepted \/ NavAccepted \/ PlanFound \/ PlanFailed
          \/ NavSucceeded \/ NavFailed
Timer == Waiting \/ StartNavigation \/ NextStage \/ Retry
           \/ \E n \in Roads : SafetySkip(n) \/ Insert(n)
Gazebo == (\E call \in deleting : DeleteAnswered(call))
            \/ \E n \in spawning : SpawnAnswered(n)

Next == (\E good \in BOOLEAN : MapCallback(good)) \/ Nav2 \/ Timer \/ Gazebo

\* The timer fires, and Nav2 answers.  Nothing is asked of Gazebo.
Fairness ==
  /\ WF_vars(Nav2)
  /\ WF_vars(StartNavigation) /\ WF_vars(NextStage) /\ WF_vars(Retry)

Spec == Init /\ [][Next]_vars /\ Fairness

(***************************************************************************)
(* Properties                                                              *)
(***************************************************************************)
\* The shapes of the node's fields and of the calls under way.
TypeOK ==
  /\ steady \in BOOLEAN /\ prompt \in BOOLEAN
  /\ mapReady \in BOOLEAN /\ readySince \in BOOLEAN
  /\ stage \in 1..Stages + 1
  /\ phase \in {"WAITING", "PLANNING", "PREVIEW", "SENDING", "NAVIGATING",
                "BETWEEN", "RETRY", "DONE"}
  /\ retryCount \in 0..MaxRetries
  /\ goal \in {"none", "plan sent", "planning", "nav sent", "driving"}
  /\ spawned \subseteq Roads /\ active \in Roads \cup {Nobody}
  /\ deleting \subseteq Roads \X (Roads \cup {Nobody})
  /\ spawning \subseteq Roads /\ world \subseteq Roads

\* The timer and the answers of two action servers drive one phase: it always
\* says what Nav2 has of this node, so that no goal is sent while another is
\* under way and no phase waits for an answer that cannot come.
OneGoal ==
  /\ phase = "PLANNING" <=> goal \in {"plan sent", "planning"}
  /\ phase = "SENDING" <=> goal = "nav sent"
  /\ phase = "NAVIGATING" <=> goal = "driving"

\* "One small dynamic obstacle per road": as long as Gazebo's delete service
\* stays up and Gazebo answers before the next obstacle is due, the obstacle of
\* a failed stage is gone before that of the next one comes.
OneObstacle == steady /\ prompt => \A m, n \in world : m = n

\* Under the same assumption, an obstacle that is in the world is never one the
\* node no longer knows of: it is the active one, or its removal is under way,
\* even if the stage it was meant for ended before it was there.
NoneForgotten ==
  steady /\ prompt => world \subseteq {active} \cup {call[1] : call \in deleting}

\* Once it has begun, the demo ends, however often Nav2 refuses or fails.
DemoEnds == phase # "WAITING" ~> phase = "DONE"
=============================================================================
