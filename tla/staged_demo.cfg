SPECIFICATION Spec
CONSTANT Stages = 3
INVARIANTS TypeOK OneGoal OneObstacle NoneForgotten
PROPERTY DemoEnds
