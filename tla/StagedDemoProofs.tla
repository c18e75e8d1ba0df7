-------------------------- MODULE StagedDemoProofs --------------------------
(***************************************************************************)
(* Proofs about StagedDemo: the one goal Nav2 has, and the one obstacle    *)
(* the node knows of, for any number of targets.                           *)
(***************************************************************************)
EXTENDS StagedDemo, TLAPS

(***************************************************************************)
(* Planning and driving                                                    *)
(***************************************************************************)
LEMMA GoalInit == Init => OneGoal
  BY DEF Init, OneGoal

\* An answer finds the phase it was asked for in, and the timer leaves no
\* phase in which an answer is out: each action moves both together.
LEMMA GoalStep == OneGoal /\ [Next]_vars => OneGoal'
<1> SUFFICES ASSUME OneGoal, [Next]_vars PROVE OneGoal'
  OBVIOUS
<1> USE DEF OneGoal
<1>1. CASE \E good \in BOOLEAN : MapCallback(good)
  BY <1>1 DEF MapCallback
<1>2. CASE Nav2
  <2>1. CASE GoalRefused \/ PlanFailed \/ NavFailed
    BY <2>1 DEF GoalRefused, PlanFailed, NavFailed, FailOrRetry
  <2>2. CASE PlanAccepted \/ NavAccepted \/ PlanFound
    BY <2>2 DEF PlanAccepted, NavAccepted, PlanFound
  <2>3. CASE NavSucceeded
    BY <2>3 DEF NavSucceeded
  <2>4. QED
    BY <1>2, <2>1, <2>2, <2>3 DEF Nav2
<1>3. CASE Timer
  <2>1. CASE Waiting \/ NextStage \/ Retry
    BY <2>1 DEF Waiting, NextStage, Retry, RequestPlan
  <2>2. CASE StartNavigation
    BY <2>2 DEF StartNavigation
  <2>3. CASE \E n \in Roads : SafetySkip(n) \/ Insert(n)
    BY <2>3 DEF SafetySkip, Insert
  <2>4. QED
    BY <1>3, <2>1, <2>2, <2>3 DEF Timer
<1>4. CASE Gazebo
  BY <1>4 DEF Gazebo, DeleteAnswered, SpawnAnswered
<1>5. CASE UNCHANGED vars
  BY <1>5 DEF vars
<1>6. QED
  BY <1>1, <1>2, <1>3, <1>4, <1>5 DEF Next

\* The phase always says what Nav2 has of the node: no second goal is ever
\* sent, and no answer comes in a phase that does not wait for it.
THEOREM GoalsAreSingle == Spec => []OneGoal
  BY GoalInit, GoalStep, PTL DEF Spec

(***************************************************************************)
(* Types.  The stage is one of the targets until the demo is done, and it  *)
(* is done for good because no goal is under way by then.                  *)
(***************************************************************************)
StagesLeft == phase # "DONE" => stage \in 1..Stages

\* A failure leaves the attempts counted and the phase one of the two.
LEMMA FailureTyped ==
  ASSUME retryCount \in 0..MaxRetries, FailOrRetry
  PROVE  retryCount' \in 0..MaxRetries /\ phase' \in {"RETRY", "BETWEEN"}
  BY DEF FailOrRetry, MaxRetries

\* There is a next stage between two, or the demo is done.
LEMMA StageTyped ==
  ASSUME StagesLeft, NextStage
  PROVE  /\ stage' \in 1..Stages + 1 /\ StagesLeft'
         /\ retryCount' \in 0..MaxRetries
         /\ phase' \in {"DONE", "PLANNING"} /\ goal' \in {goal, "plan sent"}
<1>1. phase' \in {"DONE", "PLANNING"} /\ goal' \in {goal, "plan sent"}
  BY DEF NextStage, RequestPlan
<1>2. retryCount' \in 0..MaxRetries
  BY DEF NextStage, MaxRetries
<1>3. stage \in 1..Stages /\ stage' = stage + 1
  BY DEF NextStage, StagesLeft
<1>4. phase' # "DONE" => stage # Stages
  BY DEF NextStage
<1>5. phase' # "DONE" => stage' \in 1..Stages
  BY <1>3, <1>4, StagesAssumption
<1>6. stage' \in 1..Stages + 1
  BY <1>3, StagesAssumption
<1>7. QED
  BY <1>1, <1>2, <1>5, <1>6 DEF StagesLeft

LEMMA NobodyIsNowhere == TypeOK => Nobody \notin world
<1>1. Nobody \notin Roads
  BY DEF Roads, Nobody
<1>2. QED
  BY <1>1 DEF TypeOK

TypeInv == TypeOK /\ StagesLeft /\ OneGoal

LEMMA TypeInit == Init => TypeInv
<1>1. 1 \in 1..Stages + 1 /\ 1 \in 1..Stages /\ 0 \in 0..MaxRetries
  BY StagesAssumption DEF MaxRetries
<1>2. QED
  BY <1>1, GoalInit DEF Init, TypeOK, TypeInv, StagesLeft

LEMMA TypeStep == TypeInv /\ [Next]_vars => TypeInv'
<1> SUFFICES ASSUME TypeOK, StagesLeft, OneGoal, [Next]_vars
             PROVE TypeOK' /\ StagesLeft'
  BY GoalStep DEF TypeInv
<1> USE DEF TypeOK, StagesLeft, OneGoal, readyVars, obstacleVars, gazeboVars
<1>1. CASE \E good \in BOOLEAN : MapCallback(good)
  BY <1>1 DEF MapCallback
<1>2. CASE Nav2
  <2>1. CASE GoalRefused
    BY <2>1, FailureTyped DEF GoalRefused
  <2>2. CASE PlanAccepted
    BY <2>2 DEF PlanAccepted
  <2>3. CASE NavAccepted
    BY <2>3 DEF NavAccepted
  <2>4. CASE PlanFound
    BY <2>4 DEF PlanFound
  <2>5. CASE PlanFailed
    BY <2>5, FailureTyped DEF PlanFailed
  <2>6. CASE NavSucceeded
    BY <2>6 DEF NavSucceeded, ClearObstacle
  <2>7. CASE NavFailed
    BY <2>7, FailureTyped DEF NavFailed
  <2>8. QED
    BY <1>2, <2>1, <2>2, <2>3, <2>4, <2>5, <2>6, <2>7 DEF Nav2
<1>3. CASE Timer
  <2>1. CASE Waiting
    BY <2>1 DEF Waiting, RequestPlan
  <2>2. CASE StartNavigation
    BY <2>2 DEF StartNavigation
  <2>3. CASE NextStage
    BY <2>3, StageTyped DEF NextStage
  <2>4. CASE Retry
    BY <2>4 DEF Retry, RequestPlan
  <2>5. ASSUME NEW n \in Roads, SafetySkip(n)
        PROVE TypeOK' /\ StagesLeft'
    BY <2>5 DEF SafetySkip, Due
  <2>6. ASSUME NEW n \in Roads, Insert(n)
        PROVE TypeOK' /\ StagesLeft'
    <3>1. deleting' \subseteq deleting \cup {<<active, n>>}
      BY <2>6 DEF Insert
    <3>2. UNCHANGED deleting \/ (active # Nobody /\ active \in Roads)
      BY <2>6 DEF Insert
    <3> HIDE DEF TypeOK
    <3>3. spawning' \subseteq spawning \cup {n}
      BY <2>6 DEF Insert, Spawn
    <3>4. deleting' \subseteq Roads \X (Roads \cup {Nobody})
      <4>1. deleting \subseteq Roads \X (Roads \cup {Nobody})
        BY DEF TypeOK
      <4>2. CASE active \in Roads
        <5>1. <<active, n>> \in Roads \X (Roads \cup {Nobody})
          BY <4>2
        <5>2. QED
          BY <3>1, <4>1, <5>1
      <4>3. QED
        BY <3>2, <4>1, <4>2
    <3>5. QED
      BY <2>6, <3>3, <3>4 DEF Insert, Due, TypeOK
  <2>7. QED
    BY <1>3, <2>1, <2>2, <2>3, <2>4, <2>5, <2>6 DEF Timer
<1>4. CASE Gazebo
  <2>1. ASSUME NEW call \in deleting, DeleteAnswered(call)
        PROVE TypeOK' /\ StagesLeft'
    BY <2>1 DEF DeleteAnswered, Spawn
  <2>2. ASSUME NEW n \in spawning, SpawnAnswered(n)
        PROVE TypeOK' /\ StagesLeft'
    BY <2>2 DEF SpawnAnswered
  <2>3. QED
    BY <1>4, <2>1, <2>2 DEF Gazebo
<1>5. CASE UNCHANGED vars
  BY <1>5 DEF vars
<1>6. QED
  BY <1>1, <1>2, <1>3, <1>4, <1>5 DEF Next

\* Every reachable state of the node is well typed.
THEOREM TypeCorrect == Spec => []TypeOK
<1>1. TypeInv => TypeOK
  BY DEF TypeInv
<1>2. QED
  BY TypeInit, TypeStep, <1>1, PTL DEF Spec

(***************************************************************************)
(* The obstacles                                                           *)
(***************************************************************************)
\* The strengthening: at most one obstacle is on its way, either as the
\* successor in a call that deletes the last obstacle there is, or in a call
\* that spawns it into a world without obstacles.
OnTheWay ==
  /\ \A m, n \in spawning : m = n
  /\ spawning # {} => world = {}
  /\ \A c \in deleting : c[2] # Nobody =>
       /\ spawning = {}
       /\ world \subseteq {c[1]}
       /\ \A d \in deleting : d[2] # Nobody => c = d
Tidy == steady /\ prompt => OnTheWay
ObstacleInv == TypeInv /\ OneObstacle /\ NoneForgotten /\ Tidy

LEMMA ObstacleInit == Init => ObstacleInv
  BY TypeInit DEF Init, ObstacleInv, OneObstacle, NoneForgotten, Tidy, OnTheWay

LEMMA ObstacleStep == ObstacleInv /\ [Next]_vars => ObstacleInv'
<1> SUFFICES ASSUME ObstacleInv, [Next]_vars, steady', prompt'
             PROVE OneObstacle' /\ NoneForgotten' /\ OnTheWay'
  BY TypeStep DEF ObstacleInv, OneObstacle, NoneForgotten, Tidy
<1> USE DEF ObstacleInv, TypeInv, OneObstacle, NoneForgotten, Tidy, OnTheWay
<1>1. CASE UNCHANGED <<steady, prompt, active, deleting, spawning, world>>
  BY <1>1
<1>2. CASE NavSucceeded
  <2> steady /\ prompt /\ UNCHANGED <<steady, prompt, spawning, world>>
    BY <1>2 DEF NavSucceeded, readyVars
  <2>1. CASE active # Nobody /\ deleting' = deleting \cup {<<active, Nobody>>}
    <3>1. OnTheWay'
      BY <2>1
    <3>2. NoneForgotten'
      BY <2>1
    <3>3. QED
      BY <3>1, <3>2
  <2>2. CASE active = Nobody /\ UNCHANGED deleting
    <3>1. Nobody \notin world
      BY NobodyIsNowhere
    <3>2. world \subseteq {call[1] : call \in deleting}
      BY <2>2, <3>1
    <3>3. QED
      BY <2>2, <3>2
  <2>3. QED
    BY <1>2, <2>1, <2>2 DEF NavSucceeded, ClearObstacle
<1>3. ASSUME NEW n \in Roads, Insert(n)
      PROVE OneObstacle' /\ NoneForgotten' /\ OnTheWay'
  <2> steady /\ prompt /\ UNCHANGED <<steady, prompt, active, world>>
    BY <1>3 DEF Insert, readyVars
  <2>1. deleting = {} /\ spawning = {} /\ world \subseteq {active}
    BY <1>3 DEF Insert, Due
  <2>2. CASE active # Nobody /\ deleting' = {<<active, n>>} /\ spawning' = {}
    BY <2>1, <2>2
  <2>3. CASE active = Nobody /\ spawning' \subseteq {n} /\ deleting' = {}
    <3>1. Nobody \notin world
      BY NobodyIsNowhere
    <3>2. QED
      BY <2>1, <2>3, <3>1
  <2>4. QED
    BY <1>3, <2>1, <2>2, <2>3 DEF Insert, Spawn
<1>4. ASSUME NEW call \in deleting, DeleteAnswered(call)
      PROVE OneObstacle' /\ NoneForgotten' /\ OnTheWay'
  <2> steady /\ prompt /\ UNCHANGED <<steady, prompt, active>>
    BY <1>4 DEF DeleteAnswered, readyVars
  <2>1. CASE call[2] = Nobody
    BY <1>4, <2>1 DEF DeleteAnswered
  <2>2. CASE call[2] # Nobody
    BY <1>4, <2>2 DEF DeleteAnswered, Spawn
  <2>3. QED
    BY <2>1, <2>2
<1>5. ASSUME NEW n \in spawning, SpawnAnswered(n)
      PROVE OneObstacle' /\ NoneForgotten' /\ OnTheWay'
  BY <1>5 DEF SpawnAnswered, readyVars
<1>6. CASE \/ UNCHANGED vars
           \/ \E good \in BOOLEAN : MapCallback(good)
           \/ GoalRefused \/ PlanAccepted \/ NavAccepted \/ PlanFound
           \/ PlanFailed \/ NavFailed
           \/ Waiting \/ StartNavigation \/ NextStage \/ Retry
           \/ \E n \in Roads : SafetySkip(n)
  BY <1>1, <1>6 DEF vars, readyVars, obstacleVars, gazeboVars, MapCallback,
     GoalRefused, PlanAccepted, NavAccepted, PlanFound, PlanFailed, NavFailed,
     Waiting, StartNavigation, NextStage, Retry, SafetySkip
<1>7. QED
  BY <1>2, <1>3, <1>4, <1>5, <1>6 DEF Next, Nav2, Timer, Gazebo

LEMMA ObstaclesAreTidy == Spec => []ObstacleInv
  BY ObstacleInit, ObstacleStep, PTL DEF Spec

\* With a delete service that stays up and answers in time, there is never more
\* than one obstacle in the world.
THEOREM ObstaclesAreSingle == Spec => []OneObstacle
  BY ObstaclesAreTidy, PTL DEF ObstacleInv

\* Under the same assumption, no obstacle is left in the world that the node
\* does not know of.
THEOREM ObstaclesAreKnown == Spec => []NoneForgotten
  BY ObstaclesAreTidy, PTL DEF ObstacleInv
=============================================================================
