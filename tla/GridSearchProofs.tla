-------------------------- MODULE GridSearchProofs --------------------------
(***************************************************************************)
(* The two searches of a planning job agree, on every map and for every    *)
(* heuristic: a candidate that the flood fill has found is a goal to which *)
(* A* finds a way.  The flood fill is described by FloodInv, the search by *)
(* SearchInv; PathInv says that a path once found is not lost again.       *)
(***************************************************************************)
EXTENDS GridSearch, TLAPS

\* What has been found is open, is in every closed set around the start, and
\* is left by a safe move only from the layer at work.
FloodInv ==
  /\ start \in Cells /\ seen \subseteq Cells /\ layer \subseteq seen
  /\ start \in seen \/ seen = {}
  /\ \A c \in seen : Open(c)
  /\ \A c \in seen \ layer : \A d \in Cells : Safe(c, d) => d \in seen
  /\ \A S \in SUBSET Cells : start \in S /\ Closed(S) => seen \subseteq S
  /\ phase # "flood" => layer = {}

\* A cell of the search still has the entry that gave it its cost, or all its
\* safe moves have been looked at; the goal is of the first kind.
Pending(c) == \E e \in queue : e.cell = c /\ e.cost = costs[c]
Expanded(c) == c # goal /\ \A d \in Cells : Safe(c, d) => d \in reached
SearchInv ==
  /\ costs \in [Cells -> Int]
  /\ reached \subseteq Cells /\ \A e \in queue : e.cell \in Cells
  /\ phase \in {"flood", "choose"} => goal = Nowhere /\ costs[start] = 0
  /\ phase = "search" =>
       start \in reached /\ \A c \in reached : Pending(c) \/ Expanded(c)

NonEmpty(s) == s # <<>> /\ \E S : s \in Seq(S)
PathInv ==
  /\ phase \in {"trace", "simplify", "round"} => NonEmpty(path)
  /\ phase \in {"simplify", "round"} => NonEmpty(waypoints)

LEMMA SafeAsBefore ==
  ASSUME UNCHANGED <<grid, blocked>>
  PROVE  /\ \A c : Open(c)' <=> Open(c)
         /\ \A c, d : Safe(c, d)' <=> Safe(c, d)
         /\ \A S : Closed(S)' <=> Closed(S)
  <1>1. \A c : Open(c)' <=> Open(c)
    BY DEF Open
  <1>2. \A c, d : Safe(c, d)' <=> Safe(c, d)
    BY <1>1 DEF Safe
  <1>3. QED
    BY <1>1, <1>2 DEF Closed

LEMMA NonEmptySequences ==
  /\ \A c : NonEmpty(<<c>>)
  /\ \A s, c : NonEmpty(s) => NonEmpty(Append(s, c))
  /\ \A s, c : NonEmpty(s) => NonEmpty(<<c>> \o s)
  /\ \A s, c : NonEmpty(s) => NonEmpty(Add(s, c))
  <1>1. ASSUME NEW c PROVE NonEmpty(<<c>>)
    <2>1. <<c>> \in Seq({c}) /\ <<c>> # <<>>
      OBVIOUS
    <2>2. QED
      BY <2>1 DEF NonEmpty
  <1>2. ASSUME NEW s, NEW c, NonEmpty(s)
        PROVE  NonEmpty(Append(s, c)) /\ NonEmpty(<<c>> \o s)
    <2>1. PICK S : s \in Seq(S)
      BY <1>2 DEF NonEmpty
    <2>2. s \in Seq(S \cup {c}) /\ <<c>> \in Seq(S \cup {c})
      BY <2>1
    <2>3. Append(s, c) \in Seq(S \cup {c}) /\ Append(s, c) # <<>>
      BY <2>2
    <2>4. <<c>> \o s \in Seq(S \cup {c}) /\ <<c>> \o s # <<>>
      BY <2>2
    <2>5. QED
      BY <2>3, <2>4 DEF NonEmpty
  <1>3. ASSUME NEW s, NEW c, NonEmpty(s) PROVE NonEmpty(Add(s, c))
    BY <1>2, <1>3 DEF Add
  <1>4. QED
    BY <1>1, <1>2, <1>3

LEMMA FloodInvInitially == Init => FloodInv
  <1> SUFFICES ASSUME Init PROVE FloodInv
    OBVIOUS
  <1>1. start \in Cells /\ seen \subseteq {start} /\ layer = seen
    BY MapAssumption DEF Init
  <1>2. \A c \in seen : Open(c)
    BY DEF Init
  <1>3. QED
    BY <1>1, <1>2 DEF Init, FloodInv

LEMMA FloodInvKept == FloodInv /\ [Next]_vars => FloodInv'
  <1> SUFFICES ASSUME FloodInv, [Next]_vars PROVE FloodInv'
    OBVIOUS
  <1>1. CASE FloodLayer
    <2>0. UNCHANGED <<grid, blocked, start, phase>>
      BY <1>1 DEF FloodLayer, jobVars
    <2>1. \A c \in Cells : Open(c)' <=> Open(c)
      BY <2>0, SafeAsBefore
    <2>2. \A c, d \in Cells : Safe(c, d)' <=> Safe(c, d)
      BY <2>0, SafeAsBefore
    <2>3. seen' = seen \cup layer' /\ layer' \subseteq Cells \ seen
      BY <1>1 DEF FloodLayer
    <2>4. \A d \in layer' : \E c \in layer : Safe(c, d)
      BY <1>1 DEF FloodLayer
    <2>5. (\A c \in seen : Open(c))'
      BY <2>1, <2>3, <2>4 DEF FloodInv, Safe
    <2>6. (\A c \in seen \ layer : \A d \in Cells : Safe(c, d) => d \in seen)'
      <3> SUFFICES ASSUME NEW c \in seen, NEW d \in Cells, Safe(c, d)
                   PROVE  d \in seen'
        BY <2>2, <2>3 DEF FloodInv
      <3>1. CASE c \in layer
        BY <3>1, <1>1 DEF FloodLayer
      <3>2. CASE c \notin layer
        BY <3>2, <2>3 DEF FloodInv
      <3>3. QED
        BY <3>1, <3>2
    <2>7. (\A S \in SUBSET Cells : start \in S /\ Closed(S) => seen \subseteq S)'
      <3> SUFFICES ASSUME NEW S \in SUBSET Cells, start \in S, Closed(S)'
                   PROVE  seen' \subseteq S
        BY <2>0
      <3>1. Closed(S)
        BY <2>0, SafeAsBefore
      <3>2. seen \subseteq S
        BY <3>1 DEF FloodInv
      <3>3. layer' \subseteq S
        BY <2>3, <2>4, <3>1, <3>2 DEF FloodInv, Closed
      <3>4. QED
        BY <2>3, <3>2, <3>3
    <2>8. QED
      BY <1>1, <2>0, <2>3, <2>5, <2>6, <2>7 DEF FloodInv, FloodLayer
  <1>2. ASSUME UNCHANGED <<jobVars, floodVars>>,
               phase' # "flood" => layer = {}
        PROVE  FloodInv'
    <2>1. UNCHANGED <<grid, blocked, start, seen, layer>>
      BY <1>2 DEF jobVars, floodVars
    <2>2. /\ \A c : Open(c)' <=> Open(c)
          /\ \A c, d : Safe(c, d)' <=> Safe(c, d)
          /\ \A S : Closed(S)' <=> Closed(S)
      BY <2>1, SafeAsBefore
    <2>3. QED
      BY <1>2, <2>1, <2>2 DEF FloodInv
  <1>3. CASE FloodFinished
    BY <1>2, <1>3 DEF FloodFinished
  <1>4. CASE Choose
    BY <1>2, <1>4 DEF FloodInv, Choose, NoFrontier, FrontierGoal, FixedGoal,
                      FixedGoalRefused, Search
  <1>5. CASE Astar
    BY <1>2, <1>5 DEF FloodInv, Astar, EntryOutdated, Expand, GoalReached,
                      SearchFailed, TraceBack, TraceFinished, Popped
  <1>6. CASE Waypoints
    BY <1>2, <1>6 DEF FloodInv, Waypoints, Simplify, Simplified, RoundCorner,
                      Rounded
  <1>7. CASE UNCHANGED vars
    BY <1>2, <1>7 DEF FloodInv, vars
  <1>8. QED
    BY <1>1, <1>3, <1>4, <1>5, <1>6, <1>7 DEF Next, Flood

\* reachable_free returns the cells that safe moves lead to from the start, no
\* fewer and no more, on every map.
THEOREM FloodIsExact == Spec => []FloodIsReachable
<1>1. FloodInv => FloodIsReachable
  <2> SUFFICES ASSUME FloodInv, phase = "choose"
               PROVE  /\ Closed(seen)
                      /\ \A S \in SUBSET seen :
                           start \in S /\ Closed(S) => S = seen
    BY DEF FloodIsReachable
  <2>1. Closed(seen)
    BY DEF FloodInv, Closed
  <2>2. ASSUME NEW S \in SUBSET seen, start \in S, Closed(S) PROVE S = seen
    BY <2>2 DEF FloodInv
  <2>3. QED
    BY <2>1, <2>2
<1>2. QED
  BY FloodInvInitially, FloodInvKept, <1>1, PTL DEF Spec

LEMMA SearchInvInitially == Init => SearchInv
  BY MapAssumption DEF Init, SearchInv

LEMMA MoveCosts == \A c, d : MoveCost(c, d) \in Int
  BY CostAssumption DEF MoveCost

\* The cell of the popped entry is expanded, and every cell the step improves
\* gets an entry with its new cost.
LEMMA ExpandKeepsSearchInv ==
  ASSUME SearchInv, NEW e \in queue, Expand(e) PROVE SearchInv'
  <1> DEFINE c == e.cell
             cost(d) == costs[c] + MoveCost(c, d)
             new == Improved(c)
  <1>1. /\ phase = "search" /\ phase' = "search" /\ c # goal
        /\ UNCHANGED <<grid, blocked, start, goal>>
        /\ costs' = [d \in Cells |-> IF d \in new THEN cost(d) ELSE costs[d]]
        /\ reached' = reached \cup new
    BY DEF Expand, Popped, jobVars
  <1>2. /\ \A f \in queue \ {e} : f \in queue'
        /\ \A d \in new : \E f \in queue' : f.cell = d /\ f.cost = cost(d)
        /\ \A f \in queue' : f \in queue \/ f.cell \in new
    <2> DEFINE entry(d) == [estimate |-> cost(d) + Estimate[<<d, goal>>],
                            cost |-> cost(d), cell |-> d]
    <2>1. queue' = (queue \ {e}) \cup {entry(d) : d \in new}
      BY DEF Expand
    <2>2. \A d : entry(d).cell = d /\ entry(d).cost = cost(d)
      OBVIOUS
    <2> HIDE DEF entry
    <2>3. QED
      BY <2>1, <2>2
  <1>3. new \subseteq Cells
    BY DEF Improved
  <1>4. \A b, d : Safe(b, d)' <=> Safe(b, d)
    BY <1>1, SafeAsBefore
  <1>5. reached' \subseteq Cells
    BY <1>1, <1>3 DEF SearchInv
  <1>6. \A d \in reached' : Pending(d)' \/ Expanded(d)'
    <2> SUFFICES ASSUME NEW d \in reached' PROVE Pending(d)' \/ Expanded(d)'
      OBVIOUS
    <2>1. CASE d \in new
      <3>1. costs'[d] = cost(d)
        BY <1>1, <1>3, <2>1
      <3>2. QED
        BY <1>2, <2>1, <3>1 DEF Pending
    <2>2. CASE d \notin new /\ d = c
      <3>1. \A b \in Cells : Safe(d, b) => b \in reached'
        BY <1>1, <2>2 DEF Improved
      <3>2. QED
        BY <1>1, <1>4, <2>2, <3>1 DEF Expanded
    <2>3. CASE d \notin new /\ d # c
      <3>1. d \in reached /\ d \in Cells /\ costs'[d] = costs[d]
        BY <1>1, <1>5, <2>3
      <3>2. CASE Pending(d)
        BY <1>2, <2>3, <3>1, <3>2 DEF Pending
      <3>3. CASE Expanded(d)
        BY <1>1, <1>4, <3>3 DEF Expanded
      <3>4. QED
        BY <1>1, <3>1, <3>2, <3>3 DEF SearchInv
    <2>4. QED
      BY <2>1, <2>2, <2>3
  <1>7. costs' \in [Cells -> Int]
    <2>1. \A d \in Cells : costs'[d] \in Int
      <3> SUFFICES ASSUME NEW d \in Cells PROVE costs'[d] \in Int
        OBVIOUS
      <3>1. CASE d \in new
        <4>1. c \in Cells
          BY DEF SearchInv
        <4>2. QED
          BY <1>1, <3>1, <4>1, MoveCosts DEF SearchInv
      <3>2. QED
        BY <1>1, <3>1 DEF SearchInv
    <2>2. QED
      BY <1>1, <2>1
  <1>8. start' \in reached' /\ \A f \in queue' : f.cell \in Cells
    BY <1>1, <1>2, <1>3 DEF SearchInv
  <1>9. QED
    BY <1>1, <1>5, <1>6, <1>7, <1>8 DEF SearchInv

LEMMA SearchInvKept ==
  ASSUME SearchInv, FloodInv, [Next]_vars PROVE SearchInv'
  <1>1. ASSUME phase' # "search",
               UNCHANGED <<jobVars, costs, reached, queue>>,
               phase' \in {"flood", "choose"} =>
                 phase \in {"flood", "choose"} /\ goal' = goal
        PROVE  SearchInv'
    BY <1>1 DEF SearchInv, jobVars
  <1>2. ASSUME UNCHANGED <<jobVars, phase, goal, searchVars>> PROVE SearchInv'
    <2>1. \A c, d : Safe(c, d)' <=> Safe(c, d)
      BY <1>2, SafeAsBefore DEF jobVars
    <2>2. QED
      BY <1>2, <2>1 DEF SearchInv, Pending, Expanded, jobVars, searchVars
  <1>3. CASE Flood
    BY <1>1, <1>2, <1>3 DEF Flood, FloodLayer, FloodFinished, searchVars
  <1>4. CASE Choose
    <2>1. CASE NoFrontier
      BY <1>1, <2>1 DEF NoFrontier, searchVars
    <2>2. ASSUME NEW g \in Cells, FixedGoalRefused(g) PROVE SearchInv'
      BY <1>1, <2>2 DEF FixedGoalRefused, searchVars
    <2>3. ASSUME NEW g \in Cells, Search(g) PROVE SearchInv'
      <3>1. /\ costs' = costs /\ start' = start /\ phase' = "search"
            /\ reached' = {start}
            /\ queue' = {[estimate |-> 0, cost |-> 0, cell |-> start]}
        BY <2>3 DEF Search, jobVars
      <3>2. phase \in {"flood", "choose"}
        BY <1>4 DEF Choose, NoFrontier, FrontierGoal, FixedGoal,
                    FixedGoalRefused
      <3>3. Pending(start)'
        BY <3>1, <3>2 DEF SearchInv, Pending
      <3>4. QED
        BY <3>1, <3>3 DEF SearchInv, FloodInv
    <2>4. QED
      BY <1>4, <2>1, <2>2, <2>3 DEF Choose, FrontierGoal, FixedGoal
  <1>5. ASSUME NEW e \in queue, EntryOutdated(e) PROVE SearchInv'
    <2>1. /\ UNCHANGED <<jobVars, phase, goal, reached, costs>>
          /\ queue' = queue \ {e} /\ phase = "search"
          /\ e.cost > costs[e.cell]
      BY <1>5 DEF EntryOutdated, Popped
    <2>2. costs[e.cell] \in Int
      BY DEF SearchInv
    <2>3. e.cost # costs[e.cell]
      BY <2>1, <2>2
    <2>4. \A c, d : Safe(c, d)' <=> Safe(c, d)
      BY <2>1, SafeAsBefore DEF jobVars
    <2>5. \A c \in reached : Pending(c) => Pending(c)'
      BY <2>1, <2>3 DEF Pending
    <2>6. \A c \in reached : Expanded(c) => Expanded(c)'
      BY <2>1, <2>4 DEF Expanded
    <2>7. QED
      BY <2>1, <2>5, <2>6 DEF SearchInv, jobVars
  <1>6. ASSUME NEW e \in queue, GoalReached(e) PROVE SearchInv'
    BY <1>1, <1>6 DEF GoalReached, searchVars
  <1>7. CASE SearchFailed
    BY <1>1, <1>7 DEF SearchFailed, searchVars
  <1>8. CASE TraceBack
    BY <1>2, <1>8 DEF TraceBack
  <1>9. CASE TraceFinished
    BY <1>1, <1>9 DEF TraceFinished, searchVars
  <1>10. CASE Waypoints
    BY <1>1, <1>2, <1>10 DEF Waypoints, Simplify, Simplified, RoundCorner,
                             Rounded, searchVars
  <1>11. CASE UNCHANGED vars
    BY <1>2, <1>11 DEF vars
  <1>12. QED
    BY <1>3, <1>4, <1>5, <1>6, <1>7, <1>8, <1>9, <1>10, <1>11,
       ExpandKeepsSearchInv DEF Next, Astar

LEMMA PathInvKept == ASSUME PathInv, [Next]_vars PROVE PathInv'
  <1>1. ASSUME phase' \notin {"trace", "simplify", "round"} PROVE PathInv'
    BY <1>1 DEF PathInv
  <1>2. ASSUME UNCHANGED <<phase, pathVars>> PROVE PathInv'
    BY <1>2 DEF PathInv, NonEmpty, pathVars
  <1>3. CASE Flood \/ Choose
    BY <1>1, <1>2, <1>3 DEF Flood, FloodLayer, FloodFinished, Choose,
       NoFrontier, FrontierGoal, FixedGoal, FixedGoalRefused, Search
  <1>4. ASSUME NEW e \in queue, EntryOutdated(e) \/ Expand(e) PROVE PathInv'
    BY <1>2, <1>4 DEF EntryOutdated, Expand
  <1>5. ASSUME NEW e \in queue, GoalReached(e) PROVE PathInv'
    BY <1>5, NonEmptySequences DEF GoalReached, PathInv
  <1>6. CASE SearchFailed
    BY <1>1, <1>6 DEF SearchFailed
  <1>7. CASE TraceBack
    BY <1>7, NonEmptySequences DEF TraceBack, PathInv
  <1>8. CASE TraceFinished
    <2>1. path' = path /\ NonEmpty(path) /\ waypoints' = <<start>>
      BY <1>8 DEF TraceFinished, PathInv
    <2>2. NonEmpty(path)' /\ NonEmpty(waypoints)'
      BY <2>1, NonEmptySequences DEF NonEmpty
    <2>3. QED
      BY <2>2 DEF PathInv
  <1>9. CASE Simplify
    <2>1. /\ path' = path /\ NonEmpty(path) /\ NonEmpty(waypoints)
          /\ \E c : waypoints' = Append(waypoints, c)
      BY <1>9 DEF Simplify, PathInv
    <2>2. NonEmpty(path)' /\ NonEmpty(waypoints)'
      BY <2>1, NonEmptySequences
    <2>3. QED
      BY <2>2 DEF PathInv
  <1>10. CASE Simplified
    <2>1. /\ path' = waypoints /\ NonEmpty(waypoints)
          /\ waypoints' = <<start>>
      BY <1>10 DEF Simplified, PathInv
    <2>2. NonEmpty(path)' /\ NonEmpty(waypoints)'
      BY <2>1, NonEmptySequences
    <2>3. QED
      BY <2>2 DEF PathInv
  <1>11. CASE RoundCorner
    <2>1. /\ path' = path /\ NonEmpty(path) /\ NonEmpty(waypoints)
          /\ \E c, d : \/ waypoints' = Add(Add(waypoints, c), d)
                       \/ waypoints' = Add(waypoints, c)
      BY <1>11 DEF RoundCorner, PathInv
    <2>2. NonEmpty(path)' /\ NonEmpty(waypoints)'
      BY <2>1, NonEmptySequences
    <2>3. QED
      BY <2>2 DEF PathInv
  <1>12. CASE Rounded
    BY <1>1, <1>12 DEF Rounded
  <1>13. CASE UNCHANGED vars
    BY <1>2, <1>13 DEF vars
  <1>14. QED
    BY <1>3, <1>4, <1>5, <1>6, <1>7, <1>8, <1>9, <1>10, <1>11, <1>12, <1>13
    DEF Next, Astar, Waypoints

LEMMA FailureIsRealKept ==
  ASSUME FloodInv, SearchInv, PathInv, FailureIsReal, [Next]_vars
  PROVE  FailureIsReal'
  <1>1. ASSUME phase' # "done" \/ goal' = Nowhere \/ path' # <<>>
        PROVE  FailureIsReal'
    BY <1>1 DEF FailureIsReal
  <1>2. CASE Flood \/ NoFrontier
    BY <1>1, <1>2 DEF Flood, FloodLayer, FloodFinished, NoFrontier, SearchInv
  <1>3. ASSUME NEW g \in Cells, FrontierGoal(g) \/ FixedGoal(g)
        PROVE  FailureIsReal'
    BY <1>1, <1>3 DEF FrontierGoal, FixedGoal, Search
  <1>4. ASSUME NEW g \in Cells, FixedGoalRefused(g) PROVE FailureIsReal'
    <2>1. /\ UNCHANGED <<grid, blocked, start>> /\ goal' = g
          /\ ~Open(start) \/ ~Open(g)
      BY <1>4 DEF FixedGoalRefused, jobVars
    <2>2. ~Open(start)' \/ ~Open(goal)'
      BY <2>1 DEF Open
    <2>3. QED
      BY <2>2 DEF FailureIsReal
  <1>5. ASSUME NEW e \in queue, EntryOutdated(e) \/ Expand(e) \/ GoalReached(e)
        PROVE  FailureIsReal'
    BY <1>1, <1>5 DEF EntryOutdated, Expand, GoalReached, Popped
  <1>6. CASE SearchFailed
    <2>1. /\ phase = "search" /\ queue = {}
          /\ UNCHANGED <<grid, blocked, start, goal, reached>>
      BY <1>6 DEF SearchFailed, jobVars, searchVars
    <2>2. start \in reached /\ \A c \in reached : Expanded(c)
      BY <2>1 DEF SearchInv, Pending
    <2>3. Closed(reached) /\ goal \notin reached
      BY <2>2 DEF Closed, Expanded
    <2>4. \A S : Closed(S)' <=> Closed(S)
      BY <2>1, SafeAsBefore
    <2>5. (start \in reached /\ Closed(reached) /\ goal \notin reached)'
      BY <2>1, <2>2, <2>3, <2>4 DEF Closed
    <2>6. QED
      BY <2>5 DEF FailureIsReal
  <1>7. CASE TraceBack \/ TraceFinished \/ Simplify \/ Simplified \/ RoundCorner
    BY <1>1, <1>7 DEF TraceBack, TraceFinished, Simplify, Simplified,
                      RoundCorner
  <1>8. CASE Rounded
    <2>1. NonEmpty(path) /\ NonEmpty(Add(waypoints, path[Len(path)]))
      BY <1>8, NonEmptySequences DEF Rounded, PathInv
    <2>2. path' # <<>>
      BY <1>8, <2>1 DEF Rounded, NonEmpty
    <2>3. QED
      BY <1>1, <2>2
  <1>9. CASE UNCHANGED vars
    <2>1. UNCHANGED <<grid, blocked, start, phase, goal, reached, path>>
      BY <1>9 DEF vars, jobVars, searchVars, pathVars
    <2>2. /\ \A c : Open(c)' <=> Open(c)
          /\ \A c, d : Safe(c, d)' <=> Safe(c, d)
      BY <2>1, SafeAsBefore
    <2>3. Closed(reached)' <=> Closed(reached)
      BY <2>1, <2>2 DEF Closed
    <2>4. QED
      BY <2>1, <2>2, <2>3 DEF FailureIsReal
  <1>10. QED
    BY <1>2, <1>3, <1>4, <1>5, <1>6, <1>7, <1>8, <1>9
    DEF Next, Choose, Astar, Waypoints

\* What holds along every computation of a job.
JobInv == FloodInv /\ SearchInv /\ PathInv /\ FailureIsReal

LEMMA JobIsSound == Spec => []JobInv
<1>1. Init => JobInv
  <2>1. Init => PathInv /\ FailureIsReal
    BY DEF Init, PathInv, FailureIsReal
  <2>2. QED
    BY <2>1, FloodInvInitially, SearchInvInitially DEF JobInv
<1>2. JobInv /\ [Next]_vars => JobInv'
  BY FloodInvKept, SearchInvKept, PathInvKept, FailureIsRealKept DEF JobInv
<1>3. QED
  BY <1>1, <1>2, PTL DEF Spec

\* astar gives up only a goal that no sequence of safe moves leads to.
THEOREM FailuresAreReal == Spec => []FailureIsReal
<1>1. JobInv => FailureIsReal
  BY DEF JobInv
<1>2. QED
  BY <1>1, JobIsSound, PTL

\* No candidate of a frontier job is recorded as failed: what reachable_free
\* finds, astar reaches.
THEOREM CandidatesNeverFail == Spec => []NoCandidateFails
<1>1. JobInv => NoCandidateFails
  <2> SUFFICES ASSUME JobInv, phase = "done", goal \in seen, path = <<>>
               PROVE  FALSE
    BY DEF NoCandidateFails
  <2>1. goal \in Cells /\ Open(goal) /\ Open(start)
    BY DEF JobInv, FloodInv
  <2>2. goal # Nowhere
    BY <2>1, MapAssumption DEF Cells, Nowhere
  <2>3. start \in reached /\ Closed(reached) /\ goal \notin reached
    BY <2>1, <2>2 DEF JobInv, FailureIsReal
  <2>4. seen \subseteq reached
    BY <2>3 DEF JobInv, FloodInv, SearchInv
  <2>5. QED
    BY <2>3, <2>4
<1>2. QED
  BY <1>1, JobIsSound, PTL
=============================================================================
