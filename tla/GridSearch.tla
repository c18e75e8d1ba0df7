----------------------------- MODULE GridSearch -----------------------------
(***************************************************************************)
(* The computation of one planning job: flood fill from the robot, choice  *)
(* of a goal, A* to it, and the two passes that thin its path out into the *)
(* waypoints the robot follows (work() of the exploration node and the     *)
(* functions of exploration_core.py it calls).                             *)
(*                                                                         *)
(* Abstractions                                                            *)
(*  - The flood fill takes a whole layer of its queue in a step.           *)
(*  - Which reachable cells near a large enough frontier become goals is   *)
(*    free, and the search of one goal stands for those of a job: they     *)
(*    share nothing.  Scoring is left out.                                 *)
(*  - Lengths are integers: Straight and Diagonal are the costs of a move, *)
(*    Estimate is the heuristic, in the same unit.                         *)
(*  - Quotients are exact; the code computes them in floating point.       *)
(***************************************************************************)
EXTENDS Integers, Sequences, FiniteSetsExt

CONSTANTS
  Width, Height,     \* of the map, in cells
  Grids,             \* the maps looked at
  Starts,            \* where the robot may be
  Radii,             \* the radii of inflation, in cells
  Straight,          \* cost of a move along an axis
  Diagonal,          \* cost of a diagonal move
  Estimate,          \* [Cells \X Cells -> Nat], the heuristic
  Fraction           \* corner_rounding_fraction, in percent

Cells == (0..Width - 1) \X (0..Height - 1)
Nowhere == <<-1, -1>>

ASSUME MapAssumption ==
  /\ Width \in Nat /\ Height \in Nat
  /\ Grids \subseteq [Cells -> {"free", "occupied", "unknown"}]
  /\ Starts \subseteq Cells
  /\ Radii \subseteq Nat
ASSUME CostAssumption ==
  /\ Straight \in Nat \ {0} /\ Diagonal \in Nat \ {0}
  /\ Estimate \in [Cells \X Cells -> Nat]
  /\ Fraction \in 5..45

VARIABLES
  grid, start, blocked,   \* what the job works on
  phase,                  \* which function is running
  seen, layer,            \* flood fill: cells found, and those to go on from
  goal,                   \* the goal of the search
  reached,                \* the cells that have a cost
  costs, cameFrom,        \* of the cells reached (all but the start)
  queue,                  \* the heap of A*
  path,                   \* the path that is complete so far
  waypoints, index        \* the path being made from it, and how far it is

jobVars    == <<grid, start, blocked>>
floodVars  == <<seen, layer>>
searchVars == <<reached, costs, cameFrom, queue>>
pathVars   == <<path, waypoints, index>>
vars == <<jobVars, phase, floodVars, goal, searchVars, pathVars>>

Distance(a, b) == IF a > b THEN a - b ELSE b - a

\* A known free cell outside the inflated obstacles.
Open(c) == c \in Cells /\ grid[c] = "free" /\ c \notin blocked

\* inflate_obstacles, less the cell the robot stands in.
Inflated(g, s, radius) ==
  {c \in Cells \ {s} : \E d \in Cells :
     /\ g[d] = "occupied"
     /\ Distance(c[1], d[1]) * Distance(c[1], d[1])
          + Distance(c[2], d[2]) * Distance(c[2], d[2]) <= radius * radius}

Neighbours(c) == {d \in Cells \ {c} : /\ Distance(c[1], d[1]) <= 1
                                      /\ Distance(c[2], d[2]) <= 1}
IsDiagonal(c, d) == c[1] # d[1] /\ c[2] # d[2]

\* transition_is_safe.
Safe(c, d) ==
  /\ d \in Neighbours(c) /\ Open(d)
  /\ IsDiagonal(c, d) => Open(<<d[1], c[2]>>) /\ Open(<<c[1], d[2]>>)

MoveCost(c, d) == IF IsDiagonal(c, d) THEN Diagonal ELSE Straight

\* The heuristic falls by no more than a move costs, as the distance does.
ASSUME HeuristicAssumption ==
  \A c, to \in Cells : \A d \in Neighbours(c) :
    Estimate[<<c, to>>] <= MoveCost(c, d) + Estimate[<<d, to>>]

Init ==
  /\ grid \in Grids
  /\ start \in Starts
  /\ blocked \in {Inflated(grid, start, radius) : radius \in Radii}
  /\ phase = "flood"
  /\ seen = IF Open(start) THEN {start} ELSE {}
  /\ layer = seen
  /\ goal = Nowhere
  /\ reached = {}
  /\ costs = [c \in Cells |-> 0]
  /\ cameFrom = [c \in Cells |-> Nowhere]
  /\ queue = {}
  /\ path = <<>>
  /\ waypoints = <<>>
  /\ index = 0

(***************************************************************************)
(* reachable_free, then frontiers and goals.                               *)
(***************************************************************************)
\* Seeded defects: a cell that was seen before is queued again; corners are cut.
SeenAgain ==
  /\ phase = "flood" /\ layer # {}
  /\ layer' = {d \in Cells : \E c \in layer : Safe(c, d)}
  /\ seen' = seen \cup layer'
  /\ UNCHANGED <<jobVars, phase, goal, searchVars, pathVars>>
CornersCut ==
  /\ phase = "flood" /\ layer # {}
  /\ layer' = {d \in Cells \ seen : Open(d) /\ Neighbours(d) \cap layer # {}}
  /\ seen' = seen \cup layer'
  /\ UNCHANGED <<jobVars, phase, goal, searchVars, pathVars>>
FloodLayer ==
  /\ phase = "flood" /\ layer # {}
  /\ layer' = {d \in Cells \ seen : \E c \in layer : Safe(c, d)}
  /\ seen' = seen \cup layer'
  /\ UNCHANGED <<jobVars, phase, goal, searchVars, pathVars>>

FloodFinished ==
  /\ phase = "flood" /\ layer = {}
  /\ phase' = "choose"
  /\ UNCHANGED <<jobVars, floodVars, goal, searchVars, pathVars>>

Frontier == {c \in seen : \E d \in Neighbours(c) : grid[d] = "unknown"}

\* No frontier, or none that is large enough: the job has no goal.
NoFrontier ==
  /\ phase = "choose"
  /\ phase' = "done"
  /\ UNCHANGED <<jobVars, floodVars, goal, searchVars, pathVars>>

Search(g) ==
  /\ goal' = g
  /\ reached' = {start}
  /\ queue' = {[estimate |-> 0, cost |-> 0, cell |-> start]}
  /\ phase' = "search"
  /\ UNCHANGED <<jobVars, floodVars, costs, cameFrom, pathVars>>

FrontierGoal(g) ==
  /\ phase = "choose" /\ Frontier # {}
  /\ g \in seen
  /\ Search(g)

\* A goal kept in world coordinates is searched for without a flood fill; the
\* search does not look at what the flood fill has found here.
FixedGoal(g) ==
  /\ phase = "choose"
  /\ Open(start) /\ Open(g)
  /\ Search(g)

FixedGoalRefused(g) ==
  /\ phase = "choose"
  /\ ~Open(start) \/ ~Open(g)
  /\ goal' = g
  /\ phase' = "done"
  /\ UNCHANGED <<jobVars, floodVars, searchVars, pathVars>>

(***************************************************************************)
(* astar.                                                                  *)
(***************************************************************************)
Before(e, f) ==
  \/ e.estimate < f.estimate
  \/ e.estimate = f.estimate /\ e.cost < f.cost
  \/ /\ e.estimate = f.estimate /\ e.cost = f.cost
     /\ \/ e.cell[1] < f.cell[1]
        \/ e.cell[1] = f.cell[1] /\ e.cell[2] <= f.cell[2]
Popped(e) == phase = "search" /\ e \in queue /\ \A f \in queue : Before(e, f)

\* Seeded defect: the entry that gave a cell its cost is taken for outdated.
EntryNotBetter(e) ==
  /\ Popped(e) /\ e.cost >= costs[e.cell]
  /\ queue' = queue \ {e}
  /\ UNCHANGED <<jobVars, phase, floodVars, goal, reached, costs, cameFrom,
                 pathVars>>
EntryOutdated(e) ==
  /\ Popped(e) /\ e.cost > costs[e.cell]
  /\ queue' = queue \ {e}
  /\ UNCHANGED <<jobVars, phase, floodVars, goal, reached, costs, cameFrom,
                 pathVars>>

\* The neighbours of c that are reached through c for the first time, or for
\* less.  Seeded defect: the cost of the move to them is left out.
MoveNotCharged(c) ==
  {d \in Cells : /\ Safe(c, d)
                 /\ d \in reached => costs[c] < costs[d]}
Improved(c) ==
  {d \in Cells : /\ Safe(c, d)
                 /\ d \in reached => costs[c] + MoveCost(c, d) < costs[d]}

Expand(e) ==
  /\ Popped(e) /\ e.cost <= costs[e.cell] /\ e.cell # goal
  /\ LET cost(d) == costs[e.cell] + MoveCost(e.cell, d) IN
     /\ costs' = [d \in Cells |-> IF d \in Improved(e.cell) THEN cost(d)
                                  ELSE costs[d]]
     /\ queue' = (queue \ {e}) \cup
                   {[estimate |-> cost(d) + Estimate[<<d, goal>>], cost |-> cost(d),
                     cell |-> d] : d \in Improved(e.cell)}
  /\ cameFrom' = [d \in Cells |-> IF d \in Improved(e.cell) THEN e.cell
                                  ELSE cameFrom[d]]
  /\ reached' = reached \cup Improved(e.cell)
  /\ UNCHANGED <<jobVars, phase, floodVars, goal, pathVars>>

GoalReached(e) ==
  /\ Popped(e) /\ e.cost <= costs[e.cell] /\ e.cell = goal
  /\ path' = <<goal>>
  /\ phase' = "trace"
  /\ UNCHANGED <<jobVars, floodVars, goal, searchVars, waypoints, index>>

SearchFailed ==
  /\ phase = "search" /\ queue = {}
  /\ phase' = "done"
  /\ UNCHANGED <<jobVars, floodVars, goal, searchVars, pathVars>>

\* Seeded defect: the trace does not stop at the start.
TracePastStart ==
  /\ phase = "trace"
  /\ path' = <<cameFrom[Head(path)]>> \o path
  /\ UNCHANGED <<jobVars, phase, floodVars, goal, searchVars, waypoints, index>>
TraceBack ==
  /\ phase = "trace" /\ Head(path) # start
  /\ path' = <<cameFrom[Head(path)]>> \o path
  /\ UNCHANGED <<jobVars, phase, floodVars, goal, searchVars, waypoints, index>>

TraceFinished ==
  /\ phase = "trace" /\ Head(path) = start
  /\ phase' = "simplify"
  /\ waypoints' = <<start>>
  /\ index' = 1
  /\ UNCHANGED <<jobVars, floodVars, goal, searchVars, path>>

(***************************************************************************)
(* simplify_path, round_path_corners, path_is_safe.                        *)
(***************************************************************************)
\* Python's round() of n/d: to the nearest integer, halves to the even one.
Round(n, d) ==
  LET q == n \div d
      r == 2 * (n % d)
  IN IF r < d \/ (r = d /\ q % 2 = 0) THEN q ELSE q + 1

\* _grid_line, before equal neighbours are dropped (there are none).
GridLine(c, d) ==
  LET steps == Max({Distance(c[1], d[1]), Distance(c[2], d[2])})
      on(i, k) == Round(c[k] * steps + (d[k] - c[k]) * (i - 1), steps)
  IN IF steps = 0 THEN <<c>> ELSE [i \in 1..steps + 1 |-> <<on(i, 1), on(i, 2)>>]

LineIsSafe(c, d) ==
  LET line == GridLine(c, d) IN
  /\ \A i \in 1..Len(line) : Open(line[i])
  /\ \A i \in 1..Len(line) - 1 : Safe(line[i], line[i + 1])

PathIsSafe(p) ==
  /\ p # <<>>
  /\ Open(p[1])
  /\ \A i \in 1..Len(p) - 1 : LineIsSafe(p[i], p[i + 1])

\* The last cell up to which every one is on a safe line.  Seeded defect: one
\* more.
OneTooFar(k) ==
  /\ \A i \in index + 2..k - 1 : LineIsSafe(path[index], path[i])
  /\ k < Len(path) => ~LineIsSafe(path[index], path[k])
Furthest(k) ==
  /\ \A i \in index + 2..k : LineIsSafe(path[index], path[i])
  /\ k < Len(path) => ~LineIsSafe(path[index], path[k + 1])

Simplify ==
  /\ phase = "simplify" /\ index < Len(path)
  /\ \E k \in index + 1..Len(path) :
       Furthest(k) /\ waypoints' = Append(waypoints, path[k]) /\ index' = k
  /\ UNCHANGED <<jobVars, phase, floodVars, goal, searchVars, path>>

Simplified ==
  /\ phase = "simplify" /\ index = Len(path)
  /\ phase' = "round"
  /\ path' = waypoints
  /\ waypoints' = <<start>>
  /\ index' = 2
  /\ UNCHANGED <<jobVars, floodVars, goal, searchVars>>

Add(p, c) == IF p[Len(p)] = c THEN p ELSE Append(p, c)

\* The cell a Fraction of the way from c to d.
Towards(c, d) ==
  LET along(k) == Round(100 * c[k] + Fraction * (d[k] - c[k]), 100)
  IN <<along(1), along(2)>>

RoundCorner ==
  /\ phase = "round" /\ index < Len(path)
  /\ LET corner == path[index]
         entry  == Towards(corner, path[index - 1])
         exit   == Towards(corner, path[index + 1])
     IN waypoints' =
          IF /\ entry # exit
             /\ LineIsSafe(waypoints[Len(waypoints)], entry)
             /\ LineIsSafe(entry, exit)
          THEN Add(Add(waypoints, entry), exit)
          ELSE Add(waypoints, corner)
  /\ index' = index + 1
  /\ UNCHANGED <<jobVars, phase, floodVars, goal, searchVars, path>>

\* A rounded path that is not safe is given up for the one before.
Rounded ==
  /\ phase = "round" /\ index >= Len(path)
  /\ path' = LET p == Add(waypoints, path[Len(path)])
             IN IF PathIsSafe(p) THEN p ELSE path
  /\ phase' = "done"
  /\ UNCHANGED <<jobVars, floodVars, goal, searchVars, waypoints, index>>

Flood == FloodLayer \/ FloodFinished
Choose == \/ NoFrontier
          \/ \E g \in Cells :
               FrontierGoal(g) \/ FixedGoal(g) \/ FixedGoalRefused(g)
Astar == \/ \E e \in queue : EntryOutdated(e) \/ Expand(e) \/ GoalReached(e)
         \/ SearchFailed \/ TraceBack \/ TraceFinished
Waypoints == Simplify \/ Simplified \/ RoundCorner \/ Rounded

Next == Flood \/ Choose \/ Astar \/ Waypoints

Spec == Init /\ [][Next]_vars

\* The job is a plain computation: its thread runs until it returns.
FairSpec == Spec /\ WF_vars(Next)

(***************************************************************************)
(* Properties                                                              *)
(***************************************************************************)
Phases == {"flood", "choose", "search", "trace", "simplify", "round", "done"}

\* The shapes of what the functions keep.
TypeOK ==
  /\ grid \in [Cells -> {"free", "occupied", "unknown"}]
  /\ start \in Cells /\ blocked \subseteq Cells
  /\ phase \in Phases
  /\ seen \subseteq Cells /\ layer \subseteq seen
  /\ goal \in Cells \cup {Nowhere}
  /\ reached \subseteq Cells
  /\ costs \in [Cells -> Nat] /\ cameFrom \in [Cells -> Cells \cup {Nowhere}]
  /\ queue \subseteq [estimate : Nat, cost : Nat, cell : Cells]
  /\ path \in Seq(Cells) /\ waypoints \in Seq(Cells) /\ index \in Nat

\* A set of cells that no safe move leaves.
Closed(S) == \A c \in S : \A d \in Cells : Safe(c, d) => d \in S

\* reachable_free returns the cells that safe moves lead to from the start, no
\* fewer and no more: the least closed set around it.
FloodIsReachable ==
  phase = "choose" =>
    /\ Closed(seen)
    /\ \A S \in SUBSET seen : start \in S /\ Closed(S) => S = seen

\* astar fails only when there is no way: the cells it has reached from the
\* start, the goal not among them, are left by no safe move.
FailureIsReal ==
  phase = "done" /\ goal # Nowhere /\ path = <<>>
    => \/ ~Open(start) \/ ~Open(goal)
       \/ start \in reached /\ Closed(reached) /\ goal \notin reached

\* The goals of a frontier job come from reachable_free, and astar always finds
\* a way to them: two searches written apart agree, so that no candidate of the
\* job is recorded as failed.
NoCandidateFails ==
  phase = "done" /\ goal \in seen => path # <<>>

\* What the robot is given to follow leads from where it is to the goal, over
\* straight lines that keep to open cells and cut no corner.
PathServesGoal ==
  phase = "done" /\ path # <<>> =>
    /\ path[1] = start /\ path[Len(path)] = goal
    /\ PathIsSafe(path)

\* The ways with one move more, of which the cheapest to each cell are kept:
\* a way is the cell it leads to and its cost.
Longer(ways) ==
  LET all == ways \cup UNION {{<<d, w[2] + MoveCost(w[1], d)>> :
                                 d \in {e \in Cells : Safe(w[1], e)}} : w \in ways}
  IN {w \in all : \A v \in all : v[1] = w[1] => w[2] <= v[2]}

\* The cells that some way from the start leads to, each with the cost of the
\* cheapest, over ways of at most n moves.
Cheapest[n \in 0..Width * Height] ==
  IF n = 0 THEN {<<start, 0>>} ELSE Longer(Cheapest[n - 1])

\* The path astar returns is as short as any, for a consistent heuristic: an
\* entry is improved in the heap and an outdated one is skipped.
PathIsShortest ==
  phase = "simplify" /\ index = 1 =>
    /\ <<goal, costs[goal]>> \in Cheapest[Width * Height]
    /\ \A i \in 1..Len(path) - 1 :
         costs[path[i + 1]] = costs[path[i]] + MoveCost(path[i], path[i + 1])

\* A planning job returns.
Terminates == <>(phase = "done")
=============================================================================
