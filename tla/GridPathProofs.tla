--------------------------- MODULE GridPathProofs ---------------------------
(***************************************************************************)
(* The path a planning job returns, on every map and for every heuristic,  *)
(* corner fraction and radius: it leads from the robot to the goal, and no *)
(* pass of the job gives up the safety of its lines.  TreeInv describes    *)
(* what A* leaves behind, TraceInv, SimplifyInv and RoundInv the passes.   *)
(***************************************************************************)
EXTENDS GridSearchProofs, SequenceTheorems

(***************************************************************************)
(* Lines                                                                   *)
(***************************************************************************)
LEMMA CellType ==
  ASSUME NEW c \in Cells
  PROVE  /\ c[1] \in 0..Width - 1 /\ c[2] \in 0..Height - 1
         /\ c[1] \in Int /\ c[2] \in Int /\ c = <<c[1], c[2]>>
BY MapAssumption DEF Cells

LEMMA MaxOfTwo ==
  ASSUME NEW a \in Int, NEW b \in Int
  PROVE  Max({a, b}) = IF a >= b THEN a ELSE b
<1> DEFINE S == {a, b}
           m == IF a >= b THEN a ELSE b
<1>1. m \in S /\ \A y \in S : m >= y
  OBVIOUS
<1>2. \A x \in S : (\A y \in S : x >= y) => x = m
  OBVIOUS
<1>3. Max(S) \in S /\ \A y \in S : Max(S) >= y
  <2>1. \E x \in S : \A y \in S : x >= y
    BY <1>1
  <2> HIDE DEF S
  <2> QED BY <2>1, Zenon DEF Max
<1> QED BY <1>2, <1>3

LEMMA RoundWhole == ASSUME NEW n \in Int PROVE Round(n, 1) = n
BY DEF Round

\* The line between neighbours is the two of them, and safe as the move is.
LEMMA MoveIsSafeLine ==
  ASSUME NEW c \in Cells, NEW d \in Cells, Open(c), Safe(c, d)
  PROVE  LineIsSafe(c, d)
<1> DEFINE steps == Max({Distance(c[1], d[1]), Distance(c[2], d[2])})
           on(i, k) == Round(c[k] * steps + (d[k] - c[k]) * (i - 1), steps)
           line == [i \in 1..steps + 1 |-> <<on(i, 1), on(i, 2)>>]
<1>1. /\ c[1] \in Int /\ c[2] \in Int /\ d[1] \in Int /\ d[2] \in Int
      /\ c = <<c[1], c[2]>> /\ d = <<d[1], d[2]>>
  BY CellType
<1>2. /\ c # d /\ Distance(c[1], d[1]) <= 1 /\ Distance(c[2], d[2]) <= 1
  BY DEF Safe, Neighbours
<1>3. /\ Distance(c[1], d[1]) \in 0..1 /\ Distance(c[2], d[2]) \in 0..1
      /\ Distance(c[1], d[1]) = 1 \/ Distance(c[2], d[2]) = 1
  BY <1>1, <1>2 DEF Distance
<1>4. steps = 1
  BY <1>3, MaxOfTwo
<1> HIDE DEF steps
<1>5. on(1, 1) = c[1] /\ on(1, 2) = c[2] /\ on(2, 1) = d[1] /\ on(2, 2) = d[2]
  <2>1. /\ on(1, 1) = Round(c[1], 1) /\ on(1, 2) = Round(c[2], 1)
        /\ on(2, 1) = Round(d[1], 1) /\ on(2, 2) = Round(d[2], 1)
    BY <1>1, <1>4
  <2> QED BY <1>1, <2>1, RoundWhole
<1>6. GridLine(c, d) = line
  BY <1>4 DEF GridLine, steps
<1>7. line[1] = c /\ line[2] = d /\ DOMAIN line = 1..2
  <2> HIDE DEF on
  <2>1. line = [i \in 1..2 |-> <<on(i, 1), on(i, 2)>>]
    BY <1>4
  <2> QED BY <1>1, <1>5, <2>1
<1> HIDE DEF line
<1>8. line \in [1..2 -> Cells]
  <2>1. \A i \in 1..2 : line[i] \in Cells
    BY <1>7
  <2>2. line = [i \in 1..2 |-> line[i]]
    BY <1>4, <1>7 DEF line
  <2> QED BY <2>1, <2>2
<1>9. Len(line) = 2
  <2>1. line \in Seq(Cells)
    BY <1>8, SeqDef
  <2> QED BY <1>7, <2>1, LenProperties
<1>10. Open(d)
  BY DEF Safe
<1> QED BY <1>6, <1>7, <1>9, <1>10 DEF LineIsSafe

(***************************************************************************)
(* Trails: cell after cell over safe lines.                                *)
(***************************************************************************)
OpenCells == {c \in Cells : Open(c)}
SafeLines == {line \in Cells \X Cells : LineIsSafe(line[1], line[2])}

Cellular(p) == p \in Seq(Cells) /\ p # <<>>
Trail(p, lines) ==
  Cellular(p) /\ \A i \in 1..Len(p) - 1 : <<p[i], p[i + 1]>> \in lines

LEMMA LinesAsBefore ==
  ASSUME UNCHANGED <<grid, blocked>>
  PROVE  OpenCells' = OpenCells /\ SafeLines' = SafeLines
<1>1. /\ \A c : Open(c)' <=> Open(c)
      /\ \A c, d : Safe(c, d)' <=> Safe(c, d)
  BY SafeAsBefore
<1>2. \A c, d : LineIsSafe(c, d)' <=> LineIsSafe(c, d)
  BY <1>1 DEF LineIsSafe
<1>3. QED
  BY <1>1, <1>2 DEF OpenCells, SafeLines

LEMMA SafeMoveIsLine ==
  ASSUME NEW c \in OpenCells, NEW d \in Cells, Safe(c, d)
  PROVE  <<c, d>> \in SafeLines /\ d \in OpenCells
BY MoveIsSafeLine DEF OpenCells, SafeLines, Safe

LEMMA CellularEnds ==
  ASSUME NEW p, Cellular(p)
  PROVE  /\ Len(p) \in Nat \ {0} /\ p[1] \in Cells /\ p[Len(p)] \in Cells
         /\ \A i \in 1..Len(p) : p[i] \in Cells
BY DEF Cellular

LEMMA SingleTrail ==
  ASSUME NEW c \in Cells, NEW lines
  PROVE  /\ Trail(<<c>>, lines)
         /\ <<c>>[1] = c /\ <<c>>[Len(<<c>>)] = c
BY DEF Trail, Cellular

LEMMA TrailAppended ==
  ASSUME NEW lines, NEW p, Trail(p, lines), NEW c \in Cells,
         <<p[Len(p)], c>> \in lines
  PROVE  /\ Trail(Append(p, c), lines)
         /\ Append(p, c)[1] = p[1] /\ Append(p, c)[Len(Append(p, c))] = c
<1> DEFINE q == Append(p, c)
<1>1. /\ p \in Seq(Cells) /\ p # <<>>
      /\ \A i \in 1..Len(p) - 1 : <<p[i], p[i + 1]>> \in lines
  BY DEF Trail, Cellular
<1>2. /\ Len(p) \in Nat \ {0} /\ Len(q) = Len(p) + 1 /\ q \in Seq(Cells)
      /\ \A i \in 1..Len(p) : q[i] = p[i]
      /\ q[Len(p) + 1] = c
  BY <1>1
<1> HIDE DEF q
<1>3. \A i \in 1..Len(q) - 1 : <<q[i], q[i + 1]>> \in lines
  <2> SUFFICES ASSUME NEW i \in 1..Len(q) - 1
               PROVE  <<q[i], q[i + 1]>> \in lines
    OBVIOUS
  <2>1. CASE i = Len(p)
    BY <1>2, <2>1
  <2>2. CASE i # Len(p)
    <3>1. i \in 1..Len(p) - 1 /\ i \in 1..Len(p) /\ i + 1 \in 1..Len(p)
      BY <1>2, <2>2
    <3>2. QED
      BY <1>1, <1>2, <3>1
  <2>3. QED
    BY <2>1, <2>2
<1>4. q # <<>> /\ q[1] = p[1] /\ q[Len(q)] = c
  BY <1>2
<1>5. QED
  BY <1>2, <1>3, <1>4 DEF Trail, Cellular, q

LEMMA TrailPrepended ==
  ASSUME NEW lines, NEW p, Trail(p, lines), NEW c \in Cells,
         <<c, p[1]>> \in lines
  PROVE  /\ Trail(<<c>> \o p, lines)
         /\ (<<c>> \o p)[1] = c /\ (<<c>> \o p)[Len(<<c>> \o p)] = p[Len(p)]
<1> DEFINE q == <<c>> \o p
<1>1. /\ p \in Seq(Cells) /\ p # <<>>
      /\ \A i \in 1..Len(p) - 1 : <<p[i], p[i + 1]>> \in lines
  BY DEF Trail, Cellular
<1>2. /\ Len(p) \in Nat \ {0} /\ Len(q) = Len(p) + 1 /\ q \in Seq(Cells)
      /\ \A i \in 1..Len(p) : q[i + 1] = p[i]
      /\ q[1] = c
  BY <1>1
<1> HIDE DEF q
<1>3. \A i \in 1..Len(q) - 1 : <<q[i], q[i + 1]>> \in lines
  <2> SUFFICES ASSUME NEW i \in 1..Len(q) - 1
               PROVE  <<q[i], q[i + 1]>> \in lines
    OBVIOUS
  <2>1. CASE i = 1
    BY <1>2, <2>1
  <2>2. CASE i # 1
    <3>1. PICK j \in 1..Len(p) - 1 : i = j + 1
      <4>1. i - 1 \in 1..Len(p) - 1 /\ i = (i - 1) + 1
        BY <1>2, <2>2
      <4>2. QED
        BY <4>1
    <3>2. j \in 1..Len(p) /\ j + 1 \in 1..Len(p)
      BY <1>2
    <3>3. q[j + 1] = p[j] /\ q[(j + 1) + 1] = p[j + 1]
      BY <1>2, <3>2
    <3>4. QED
      BY <1>1, <3>1, <3>3
  <2>3. QED
    BY <2>1, <2>2
<1>4. q # <<>> /\ q[Len(q)] = p[Len(p)]
  BY <1>2
<1>5. QED
  BY <1>2, <1>3, <1>4 DEF Trail, Cellular, q

LEMMA CellAdded ==
  ASSUME NEW p, Cellular(p), NEW c \in Cells
  PROVE  /\ Cellular(Add(p, c))
         /\ Add(p, c)[1] = p[1] /\ Add(p, c)[Len(Add(p, c))] = c
<1> DEFINE q == Append(p, c)
<1>1. p \in Seq(Cells) /\ Len(p) \in Nat \ {0}
  BY DEF Cellular
<1>2. /\ q \in Seq(Cells) /\ Len(q) = Len(p) + 1 /\ q[1] = p[1]
      /\ q[Len(q)] = c
  BY <1>1
<1> HIDE DEF q
<1>3. q # <<>>
  BY <1>1, <1>2
<1>4. Add(p, c) = IF p[Len(p)] = c THEN p ELSE q
  BY DEF Add, q
<1>5. QED
  BY <1>2, <1>3, <1>4 DEF Cellular

\* A cell a Fraction of the way between two cells of the map is on the map.
LEMMA TowardsIsCell ==
  ASSUME NEW c \in Cells, NEW d \in Cells
  PROVE  Towards(c, d) \in Cells
<1>1. ASSUME NEW n \in Nat, NEW a \in 0..n - 1, NEW b \in 0..n - 1
      PROVE  Round(100 * a + Fraction * (b - a), 100) \in 0..n - 1
  <2> DEFINE m == 100 * a + Fraction * (b - a)
  <2>1. Fraction \in Int /\ Fraction >= 0 /\ 100 - Fraction >= 0
    BY CostAssumption
  <2>2. \A x, y \in Int : x >= 0 /\ y >= 0 => x * y >= 0
    OBVIOUS
  <2>3. /\ (100 - Fraction) * a >= 0 /\ Fraction * b >= 0
        /\ (100 - Fraction) * (n - 1 - a) >= 0 /\ Fraction * (n - 1 - b) >= 0
    BY <2>1, <2>2
  <2>4. m \in Int /\ m >= 0 /\ m <= 100 * (n - 1)
    BY <2>1, <2>3
  <2> HIDE DEF m
  <2>5. Round(m, 100) \in 0..n - 1
    BY <2>4 DEF Round
  <2>6. QED
    BY <2>5 DEF m
<1>2. /\ c[1] \in 0..Width - 1 /\ c[2] \in 0..Height - 1
      /\ d[1] \in 0..Width - 1 /\ d[2] \in 0..Height - 1
  BY CellType
<1>3. QED
  BY <1>1, <1>2, MapAssumption DEF Towards, Cells

LEMMA TrailIsSafePath ==
  ASSUME NEW p, Cellular(p), p[1] \in OpenCells
  PROVE  Trail(p, SafeLines) <=> PathIsSafe(p)
<1>1. \A i \in 1..Len(p) - 1 : p[i] \in Cells /\ p[i + 1] \in Cells
  BY CellularEnds
<1>2. \A i \in 1..Len(p) - 1 :
        <<p[i], p[i + 1]>> \in SafeLines <=> LineIsSafe(p[i], p[i + 1])
  BY <1>1 DEF SafeLines
<1>3. p # <<>> /\ Open(p[1])
  BY DEF Cellular, OpenCells
<1>4. QED
  BY <1>2, <1>3 DEF Trail, PathIsSafe

(***************************************************************************)
(* The search leaves a tree: every cell reached but the start came from    *)
(* another, over a safe line.                                              *)
(***************************************************************************)
Unsearched == {"flood", "choose"}
Tracing == {"search", "trace", "simplify", "round"}

TreeInv ==
  /\ start \in Cells
  /\ costs \in [Cells -> Nat] /\ cameFrom \in [Cells -> Cells \cup {Nowhere}]
  /\ queue \subseteq [estimate : Nat, cost : Nat, cell : Cells]
  /\ phase \in Unsearched => reached = {} /\ goal = Nowhere
  /\ phase \in Tracing => start \in OpenCells /\ goal \in Cells
  /\ phase \in Phases /\ goal \in Cells \cup {Nowhere}
  /\ reached \subseteq OpenCells
  /\ \A e \in queue : e.cell \in reached
  /\ \A c \in reached \ {start} :
       cameFrom[c] \in reached /\ <<cameFrom[c], c>> \in SafeLines

LEMMA TreeInvInitially == Init => TreeInv
<1> SUFFICES ASSUME Init PROVE TreeInv
  OBVIOUS
<1>1. /\ start \in Cells /\ phase = "flood" /\ goal = Nowhere
      /\ reached = {} /\ queue = {}
  BY MapAssumption DEF Init
<1>2. /\ costs \in [Cells -> Nat]
      /\ cameFrom \in [Cells -> Cells \cup {Nowhere}]
  BY DEF Init
<1>3. QED
  BY <1>1, <1>2 DEF TreeInv, Unsearched, Tracing, Phases

LEMMA MoveCostIsNat == \A c, d : MoveCost(c, d) \in Nat
BY CostAssumption DEF MoveCost

LEMMA ExpandKeepsTreeInv ==
  ASSUME TreeInv, NEW e \in queue, Expand(e) PROVE TreeInv'
<1> DEFINE c == e.cell
           cost(d) == costs[c] + MoveCost(c, d)
           new == Improved(c)
           entry(d) == [estimate |-> cost(d) + Estimate[<<d, goal>>],
                        cost |-> cost(d), cell |-> d]
<1>1. /\ phase = "search" /\ phase' = "search"
      /\ UNCHANGED <<grid, blocked, start, goal>>
      /\ costs' = [d \in Cells |-> IF d \in new THEN cost(d) ELSE costs[d]]
      /\ cameFrom' = [d \in Cells |-> IF d \in new THEN c ELSE cameFrom[d]]
      /\ reached' = reached \cup new
      /\ queue' = (queue \ {e}) \cup {entry(d) : d \in new}
  BY DEF Expand, Popped, jobVars
<1>2. OpenCells' = OpenCells /\ SafeLines' = SafeLines
  BY <1>1, LinesAsBefore
<1>3. /\ start \in OpenCells /\ goal \in Cells
      /\ c \in reached /\ c \in OpenCells /\ c \in Cells
  BY <1>1 DEF TreeInv, Tracing, OpenCells
<1>4. \A d \in new : d \in Cells /\ d \in OpenCells /\ <<c, d>> \in SafeLines
  BY <1>3, SafeMoveIsLine DEF Improved
<1>5. \A d : cost(d) \in Nat
  BY <1>3, MoveCostIsNat DEF TreeInv
<1>6. \A d \in new :
        /\ entry(d) \in [estimate : Nat, cost : Nat, cell : Cells]
        /\ entry(d).cell = d
  <2> SUFFICES ASSUME NEW d \in new
               PROVE  /\ entry(d) \in [estimate : Nat, cost : Nat, cell : Cells]
                      /\ entry(d).cell = d
    OBVIOUS
  <2>1. Estimate[<<d, goal>>] \in Nat
    BY <1>3, <1>4, CostAssumption
  <2>2. cost(d) \in Nat /\ d \in Cells
    BY <1>4, <1>5
  <2> HIDE DEF cost
  <2>3. QED
    BY <2>1, <2>2
<1> HIDE DEF cost, entry, new
<1>7. costs' \in [Cells -> Nat]
  BY <1>1, <1>5 DEF TreeInv
<1>8. cameFrom' \in [Cells -> Cells \cup {Nowhere}]
  BY <1>1, <1>3 DEF TreeInv
<1>9. /\ queue' \subseteq [estimate : Nat, cost : Nat, cell : Cells]
      /\ \A f \in queue' : f.cell \in reached'
  BY <1>1, <1>6 DEF TreeInv
<1>10. reached' \subseteq OpenCells
  BY <1>1, <1>4 DEF TreeInv
<1>11. \A d \in reached' \ {start} :
         cameFrom'[d] \in reached' /\ <<cameFrom'[d], d>> \in SafeLines
  <2> SUFFICES ASSUME NEW d \in reached' \ {start}
               PROVE  /\ cameFrom'[d] \in reached'
                      /\ <<cameFrom'[d], d>> \in SafeLines
    OBVIOUS
  <2>1. d \in Cells
    BY <1>10 DEF OpenCells
  <2>2. CASE d \in new
    BY <1>1, <1>3, <1>4, <2>1, <2>2
  <2>3. CASE d \notin new
    BY <1>1, <2>1, <2>3 DEF TreeInv
  <2>4. QED
    BY <2>2, <2>3
<1>12. QED
  BY <1>1, <1>2, <1>3, <1>7, <1>8, <1>9, <1>10, <1>11
  DEF TreeInv, Unsearched, Tracing, Phases

LEMMA TreeInvKept ==
  ASSUME TreeInv, FloodInv, [Next]_vars PROVE TreeInv'
<1>1. ASSUME UNCHANGED <<jobVars, goal, reached, costs, cameFrom>>,
             queue' \subseteq queue, phase' \in Phases,
             phase' \in Unsearched => phase \in Unsearched,
             phase' \in Tracing => phase \in Tracing
      PROVE  TreeInv'
  <2>1. /\ UNCHANGED <<start, goal, reached, costs, cameFrom>>
        /\ OpenCells' = OpenCells /\ SafeLines' = SafeLines
    BY <1>1, LinesAsBefore DEF jobVars
  <2>2. QED
    BY <1>1, <2>1 DEF TreeInv
<1>2. CASE Flood \/ NoFrontier
  BY <1>1, <1>2 DEF Flood, FloodLayer, FloodFinished, NoFrontier, searchVars,
     TreeInv, Unsearched, Tracing, Phases
<1>3. ASSUME NEW g \in Cells, FixedGoalRefused(g) PROVE TreeInv'
  <2>1. /\ UNCHANGED <<start, reached, costs, cameFrom, queue>>
        /\ goal' = g /\ phase' = "done"
        /\ OpenCells' = OpenCells /\ SafeLines' = SafeLines
    BY <1>3, LinesAsBefore DEF FixedGoalRefused, jobVars, searchVars
  <2>2. QED
    BY <2>1 DEF TreeInv, Unsearched, Tracing, Phases
<1>4. ASSUME NEW g \in Cells, Search(g), Open(start) PROVE TreeInv'
  <2> DEFINE first == [estimate |-> 0, cost |-> 0, cell |-> start]
  <2>1. /\ UNCHANGED <<start, costs, cameFrom>>
        /\ goal' = g /\ phase' = "search"
        /\ reached' = {start} /\ queue' = {first}
        /\ OpenCells' = OpenCells /\ SafeLines' = SafeLines
    BY <1>4, LinesAsBefore DEF Search, jobVars
  <2>2. start \in Cells /\ start \in OpenCells
    BY <1>4 DEF TreeInv, OpenCells
  <2>3. /\ first \in [estimate : Nat, cost : Nat, cell : Cells]
        /\ first.cell = start
    BY <2>2
  <2> HIDE DEF first
  <2>4. QED
    BY <2>1, <2>2, <2>3 DEF TreeInv, Unsearched, Tracing, Phases
<1>5. ASSUME NEW g \in Cells, FrontierGoal(g) PROVE TreeInv'
  BY <1>4, <1>5 DEF FrontierGoal, FloodInv
<1>6. ASSUME NEW g \in Cells, FixedGoal(g) PROVE TreeInv'
  BY <1>4, <1>6 DEF FixedGoal
<1>7. ASSUME NEW e \in queue, EntryOutdated(e) \/ GoalReached(e) PROVE TreeInv'
  BY <1>1, <1>7 DEF EntryOutdated, GoalReached, Popped, searchVars, Unsearched,
     Tracing, Phases
<1>8. CASE SearchFailed \/ TraceBack \/ TraceFinished
  BY <1>1, <1>8 DEF SearchFailed, TraceBack, TraceFinished, searchVars,
     Unsearched, Tracing, Phases
<1>9. CASE Waypoints
  BY <1>1, <1>9 DEF Waypoints, Simplify, Simplified, RoundCorner, Rounded,
     searchVars, Unsearched, Tracing, Phases
<1>10. CASE UNCHANGED vars
  BY <1>1, <1>10 DEF vars, searchVars, TreeInv
<1>11. QED
  BY <1>2, <1>3, <1>5, <1>6, <1>7, <1>8, <1>9, <1>10, ExpandKeepsTreeInv
  DEF Next, Choose, Astar

(***************************************************************************)
(* The passes over the path hand on a route from the start to the goal.    *)
(***************************************************************************)
Route(p, from, to, lines) ==
  Trail(p, lines) /\ p[1] = from /\ p[Len(p)] = to

PassInv ==
  /\ path \in Seq(Cells) /\ waypoints \in Seq(Cells) /\ index \in Nat
  /\ phase \in Unsearched \cup {"search"} => path = <<>>
  /\ phase = "trace" =>
       Route(path, path[1], goal, SafeLines) /\ path[1] \in reached
  /\ phase \in {"simplify", "round"} => Route(path, start, goal, SafeLines)
  /\ phase = "simplify" =>
       /\ index \in 1..Len(path)
       /\ Route(waypoints, start, path[index], SafeLines)
  /\ phase = "round" =>
       index >= 2 /\ Cellular(waypoints) /\ waypoints[1] = start
  /\ phase = "done" =>
       \/ path = <<>>
       \/ start \in OpenCells /\ Route(path, start, goal, SafeLines)

LEMMA PassInvInitially == Init => PassInv
BY DEF Init, PassInv

\* A step that leaves the map and the passes alone.
LEMMA PassesUntouched ==
  ASSUME PassInv, UNCHANGED <<jobVars, pathVars>>,
         \/ phase' = phase /\ goal' = goal /\ reached \subseteq reached'
         \/ path = <<>> /\ phase' \in Unsearched \cup {"search", "done"}
  PROVE  PassInv'
<1>1. /\ UNCHANGED <<start, path, waypoints, index>>
      /\ OpenCells' = OpenCells /\ SafeLines' = SafeLines
  BY LinesAsBefore DEF jobVars, pathVars
<1>2. CASE phase' = phase /\ goal' = goal /\ reached \subseteq reached'
  BY <1>1, <1>2 DEF PassInv, Route, Unsearched
<1>3. CASE path = <<>> /\ phase' \in Unsearched \cup {"search", "done"}
  <2>1. /\ path' = <<>>
        /\ phase' # "trace" /\ phase' # "simplify" /\ phase' # "round"
    BY <1>1, <1>3 DEF Unsearched
  <2>2. path' \in Seq(Cells) /\ waypoints' \in Seq(Cells) /\ index' \in Nat
    BY <1>1 DEF PassInv
  <2>3. QED
    BY <2>1, <2>2 DEF PassInv
<1>4. QED
  BY <1>2, <1>3

LEMMA GoalReachedKeepsPassInv ==
  ASSUME PassInv, TreeInv, NEW e \in queue, GoalReached(e) PROVE PassInv'
<1>1. /\ phase = "search" /\ phase' = "trace" /\ path' = <<goal>>
      /\ UNCHANGED <<goal, reached, waypoints, index>>
      /\ e.cell = goal
  BY DEF GoalReached, Popped, searchVars
<1>2. goal \in Cells /\ goal \in reached
  BY <1>1 DEF TreeInv, Tracing
<1>3. Trail(<<goal>>, SafeLines') /\ <<goal>>[1] = goal
      /\ <<goal>>[Len(<<goal>>)] = goal
  BY <1>2, SingleTrail
<1>4. <<goal>> \in Seq(Cells)
  BY <1>2
<1>5. QED
  BY <1>1, <1>2, <1>3, <1>4 DEF PassInv, Route, Unsearched

LEMMA TraceBackKeepsPassInv ==
  ASSUME PassInv, TreeInv, TraceBack PROVE PassInv'
<1> DEFINE c == cameFrom[path[1]]
<1>1. /\ phase = "trace" /\ phase' = "trace"
      /\ UNCHANGED <<grid, blocked, goal, reached, waypoints, index>>
      /\ OpenCells' = OpenCells /\ SafeLines' = SafeLines
  BY LinesAsBefore DEF TraceBack, jobVars, searchVars
<1>2. /\ Trail(path, SafeLines) /\ path[Len(path)] = goal
      /\ path[1] \in reached
  BY <1>1 DEF PassInv, Route
<1>3. Head(path) = path[1]
  BY <1>2 DEF Trail, Cellular
<1>4. path' = <<c>> \o path /\ path[1] # start
  BY <1>3 DEF TraceBack
<1>5. c \in reached /\ c \in Cells /\ <<c, path[1]>> \in SafeLines
  BY <1>2, <1>4 DEF TreeInv, OpenCells
<1> HIDE DEF c
<1>6. Trail(path', SafeLines) /\ path'[1] = c /\ path'[Len(path')] = goal
  BY <1>2, <1>4, <1>5, TrailPrepended
<1>7. path' \in Seq(Cells)
  BY <1>6 DEF Trail, Cellular
<1>8. QED
  BY <1>1, <1>5, <1>6, <1>7 DEF PassInv, Route, Unsearched

LEMMA TraceFinishedKeepsPassInv ==
  ASSUME PassInv, TreeInv, TraceFinished PROVE PassInv'
<1>1. /\ phase = "trace" /\ phase' = "simplify"
      /\ UNCHANGED <<grid, blocked, start, goal, path>>
      /\ SafeLines' = SafeLines
      /\ waypoints' = <<start>> /\ index' = 1
  BY LinesAsBefore DEF TraceFinished, jobVars
<1>2. Trail(path, SafeLines) /\ path[Len(path)] = goal
  BY <1>1 DEF PassInv, Route
<1>3. path[1] = start /\ Len(path) \in Nat \ {0} /\ path \in Seq(Cells)
  BY <1>2 DEF TraceFinished, Trail, Cellular
<1>4. start \in Cells
  BY DEF TreeInv
<1>5. /\ Trail(<<start>>, SafeLines) /\ <<start>>[1] = start
      /\ <<start>>[Len(<<start>>)] = start /\ <<start>> \in Seq(Cells)
  BY <1>4, SingleTrail
<1>6. QED
  BY <1>1, <1>2, <1>3, <1>5 DEF PassInv, Route, Unsearched

LEMMA SimplifyKeepsPassInv == ASSUME PassInv, Simplify PROVE PassInv'
<1>1. /\ phase = "simplify" /\ phase' = "simplify" /\ index < Len(path)
      /\ UNCHANGED <<grid, blocked, start, goal, path>>
      /\ SafeLines' = SafeLines
  BY LinesAsBefore DEF Simplify, jobVars
<1>2. /\ Route(path, start, goal, SafeLines) /\ index \in 1..Len(path)
      /\ Route(waypoints, start, path[index], SafeLines)
  BY <1>1 DEF PassInv
<1>3. PICK k \in index + 1..Len(path) :
        Furthest(k) /\ waypoints' = Append(waypoints, path[k]) /\ index' = k
  BY DEF Simplify
<1>4. /\ Cellular(path) /\ Len(path) \in Nat
      /\ \A i \in 1..Len(path) : path[i] \in Cells
  BY <1>2, CellularEnds DEF Route, Trail
<1>5. /\ path[index] \in Cells /\ path[k] \in Cells
      /\ k \in 1..Len(path) /\ k \in Nat
  BY <1>2, <1>3, <1>4
<1>6. <<path[index], path[k]>> \in SafeLines
  <2>1. CASE k = index + 1
    BY <1>1, <1>2, <1>4, <2>1 DEF Route, Trail
  <2>2. CASE k # index + 1
    <3>1. k \in index + 2..k
      BY <1>2, <1>3, <1>4, <2>2
    <3>2. LineIsSafe(path[index], path[k])
      BY <1>3, <3>1 DEF Furthest
    <3>3. QED
      BY <1>5, <3>2 DEF SafeLines
  <2>3. QED
    BY <2>1, <2>2
<1>7. Route(waypoints', start, path[k], SafeLines)
  BY <1>2, <1>3, <1>5, <1>6, TrailAppended DEF Route
<1>8. waypoints' \in Seq(Cells)
  BY <1>7 DEF Route, Trail, Cellular
<1>9. QED
  BY <1>1, <1>2, <1>3, <1>5, <1>7, <1>8 DEF PassInv, Unsearched

LEMMA SimplifiedKeepsPassInv ==
  ASSUME PassInv, TreeInv, Simplified PROVE PassInv'
<1>1. /\ phase = "simplify" /\ phase' = "round" /\ index = Len(path)
      /\ UNCHANGED <<grid, blocked, start, goal>>
      /\ SafeLines' = SafeLines
      /\ path' = waypoints /\ waypoints' = <<start>> /\ index' = 2
  BY LinesAsBefore DEF Simplified, jobVars
<1>2. Route(waypoints, start, goal, SafeLines) /\ waypoints \in Seq(Cells)
  BY <1>1 DEF PassInv, Route
<1>3. start \in Cells
  BY DEF TreeInv
<1>4. Cellular(<<start>>) /\ <<start>>[1] = start /\ <<start>> \in Seq(Cells)
  BY <1>3 DEF Cellular
<1>5. QED
  BY <1>1, <1>2, <1>4 DEF PassInv, Unsearched

LEMMA RoundCornerKeepsPassInv ==
  ASSUME PassInv, RoundCorner PROVE PassInv'
<1> DEFINE corner == path[index]
           entry == Towards(corner, path[index - 1])
           exit == Towards(corner, path[index + 1])
<1>1. /\ phase = "round" /\ phase' = "round" /\ index < Len(path)
      /\ UNCHANGED <<grid, blocked, start, goal, path>>
      /\ SafeLines' = SafeLines /\ index' = index + 1
      /\ \/ waypoints' = Add(Add(waypoints, entry), exit)
         \/ waypoints' = Add(waypoints, corner)
  BY LinesAsBefore DEF RoundCorner, jobVars
<1>2. /\ Route(path, start, goal, SafeLines) /\ index \in Nat /\ index >= 2
      /\ Cellular(waypoints) /\ waypoints[1] = start
  BY <1>1 DEF PassInv
<1>3. Len(path) \in Nat /\ \A i \in 1..Len(path) : path[i] \in Cells
  BY <1>2, CellularEnds DEF Route, Trail
<1>4. /\ index \in 1..Len(path) /\ index - 1 \in 1..Len(path)
      /\ index + 1 \in 1..Len(path)
  BY <1>1, <1>2, <1>3
<1>5. corner \in Cells /\ entry \in Cells /\ exit \in Cells
  BY <1>3, <1>4, TowardsIsCell
<1> HIDE DEF corner, entry, exit
<1>6. /\ Cellular(Add(waypoints, corner)) /\ Add(waypoints, corner)[1] = start
      /\ Cellular(Add(waypoints, entry)) /\ Add(waypoints, entry)[1] = start
  BY <1>2, <1>5, CellAdded
<1>7. /\ Cellular(Add(Add(waypoints, entry), exit))
      /\ Add(Add(waypoints, entry), exit)[1] = start
  BY <1>5, <1>6, CellAdded
<1>8. Cellular(waypoints') /\ waypoints'[1] = start
  BY <1>1, <1>6, <1>7
<1>9. waypoints' \in Seq(Cells)
  BY <1>8 DEF Cellular
<1>10. QED
  BY <1>1, <1>2, <1>8, <1>9 DEF PassInv, Unsearched

LEMMA RoundedKeepsPassInv ==
  ASSUME PassInv, TreeInv, Rounded PROVE PassInv'
<1> DEFINE p == Add(waypoints, path[Len(path)])
<1>1. /\ phase = "round" /\ phase' = "done"
      /\ UNCHANGED <<grid, blocked, start, goal, waypoints, index>>
      /\ OpenCells' = OpenCells /\ SafeLines' = SafeLines
      /\ path' = IF PathIsSafe(p) THEN p ELSE path
  BY LinesAsBefore DEF Rounded, jobVars
<1>2. /\ Route(path, start, goal, SafeLines)
      /\ Cellular(waypoints) /\ waypoints[1] = start
      /\ start \in OpenCells /\ goal \in Cells
  BY <1>1 DEF PassInv, TreeInv, Tracing
<1>3. Cellular(p) /\ p[1] = start /\ p[Len(p)] = goal
  BY <1>2, CellAdded DEF Route
<1> HIDE DEF p
<1>4. PathIsSafe(p) => Trail(p, SafeLines)
  BY <1>2, <1>3, TrailIsSafePath
<1>5. Route(path', start, goal, SafeLines)
  BY <1>1, <1>2, <1>3, <1>4 DEF Route
<1>6. path' \in Seq(Cells)
  BY <1>5 DEF Route, Trail, Cellular
<1>7. QED
  BY <1>1, <1>2, <1>5, <1>6 DEF PassInv, Unsearched

LEMMA PassInvKept ==
  ASSUME PassInv, TreeInv, [Next]_vars PROVE PassInv'
<1>1. CASE Flood \/ Choose
  <2>1. /\ UNCHANGED <<jobVars, pathVars>>
        /\ phase' \in Unsearched \cup {"search", "done"}
    BY <1>1 DEF Flood, FloodLayer, FloodFinished, Choose, NoFrontier,
       FrontierGoal, FixedGoal, FixedGoalRefused, Search, Unsearched
  <2>2. phase \in Unsearched
    BY <1>1 DEF Flood, FloodLayer, FloodFinished, Choose, NoFrontier,
       FrontierGoal, FixedGoal, FixedGoalRefused, Unsearched
  <2>3. path = <<>>
    BY <2>2 DEF PassInv
  <2>4. QED
    BY <2>1, <2>3, PassesUntouched
<1>2. ASSUME NEW e \in queue, EntryOutdated(e) \/ Expand(e) PROVE PassInv'
  <2>1. /\ UNCHANGED <<jobVars, pathVars>>
        /\ phase' = phase /\ goal' = goal /\ reached \subseteq reached'
    BY <1>2 DEF EntryOutdated, Expand
  <2>2. QED
    BY <2>1, PassesUntouched
<1>3. CASE SearchFailed
  <2>1. UNCHANGED <<jobVars, pathVars>> /\ phase = "search" /\ phase' = "done"
    BY <1>3 DEF SearchFailed
  <2>2. path = <<>>
    BY <2>1 DEF PassInv
  <2>3. QED
    BY <2>1, <2>2, PassesUntouched
<1>4. CASE UNCHANGED vars
  BY <1>4, PassesUntouched DEF vars, searchVars
<1>5. QED
  BY <1>1, <1>2, <1>3, <1>4, GoalReachedKeepsPassInv, TraceBackKeepsPassInv,
     TraceFinishedKeepsPassInv, SimplifyKeepsPassInv, SimplifiedKeepsPassInv,
     RoundCornerKeepsPassInv, RoundedKeepsPassInv
  DEF Next, Astar, Waypoints

RouteInv == JobInv /\ TreeInv /\ PassInv

LEMMA RoutesAreKept == Spec => []RouteInv
<1>1. Init => TreeInv /\ PassInv
  BY TreeInvInitially, PassInvInitially
<1>2. JobInv /\ TreeInv /\ PassInv /\ [Next]_vars => TreeInv' /\ PassInv'
  BY TreeInvKept, PassInvKept DEF JobInv
<1>3. QED
  BY <1>1, <1>2, JobIsSound, PTL DEF Spec, RouteInv

\* What the functions of a job keep has the shapes TypeOK says, on every map:
\* costs are never negative, and the cells that corner rounding computes lie
\* on the map.
THEOREM TypeCorrect == Spec => []TypeOK
<1>1. Init => grid \in Grids /\ blocked \subseteq Cells
  BY DEF Init, Inflated
<1>2. UNCHANGED <<grid, blocked>> \/ ~[Next]_vars
  BY DEF Next, Flood, FloodLayer, FloodFinished, Choose, NoFrontier,
     FrontierGoal, FixedGoal, FixedGoalRefused, Search, Astar, EntryOutdated,
     Expand, GoalReached, SearchFailed, TraceBack, TraceFinished, Waypoints,
     Simplify, Simplified, RoundCorner, Rounded, vars, jobVars
<1>3. ASSUME grid \in Grids /\ blocked \subseteq Cells, [Next]_vars
      PROVE  (grid \in Grids /\ blocked \subseteq Cells)'
  BY <1>2, <1>3
<1>4. RouteInv /\ grid \in Grids /\ blocked \subseteq Cells => TypeOK
  BY MapAssumption
  DEF RouteInv, JobInv, FloodInv, TreeInv, PassInv, OpenCells, TypeOK
<1>5. QED
  BY <1>1, <1>3, <1>4, RoutesAreKept, PTL DEF Spec

\* The waypoints the robot is given lead from where it is to the goal, over
\* lines that keep to open cells and cut no corner: simplify_path and
\* round_path_corners give up none of what astar found.
THEOREM PathsServeGoals == Spec => []PathServesGoal
<1>1. RouteInv => PathServesGoal
  <2> SUFFICES ASSUME RouteInv, phase = "done", path # <<>>
               PROVE  /\ path[1] = start /\ path[Len(path)] = goal
                      /\ PathIsSafe(path)
    BY DEF PathServesGoal
  <2>1. start \in OpenCells /\ Route(path, start, goal, SafeLines)
    BY DEF RouteInv, PassInv
  <2>2. PathIsSafe(path)
    BY <2>1, TrailIsSafePath DEF Route, Trail
  <2>3. QED
    BY <2>1, <2>2 DEF Route
<1>2. QED
  BY <1>1, RoutesAreKept, PTL
=============================================================================
