------------------------- MODULE GridShortestProofs -------------------------
(***************************************************************************)
(* The path A* returns is as short as any, on every map and for every      *)
(* heuristic that falls by no more than a move costs.  CostInv describes   *)
(* the costs while the heap is worked on.  When the goal is popped they    *)
(* give a potential that no move raises by more than its cost: what shows  *)
(* that no way is cheaper.                                                 *)
(***************************************************************************)
EXTENDS GridPathProofs, FiniteSetTheorems, WellFoundedInduction

(***************************************************************************)
(* Induction, for sets of natural numbers.                                 *)
(***************************************************************************)
LEMMA LeastNatural ==
  ASSUME NEW S \in SUBSET Nat, S # {}
  PROVE  \E m \in S : \A k \in S : m <= k
<1> DEFINE below == {p \in Nat \X Nat : p[1] < p[2]}
<1>1. IsWellFoundedOn(below, Nat)
  BY NatLessThanWellFounded DEF OpToRel
<1>2. \A k, m \in Nat : k < m => <<k, m>> \in below
  OBVIOUS
<1> HIDE DEF below
<1>3. PICK m \in S : \A k \in S : ~ (<<k, m>> \in below)
  BY <1>1, WFMin
<1>4. ASSUME NEW k \in S PROVE m <= k
  <2>1. ~ (k < m)
    BY <1>2, <1>3
  <2>2. QED
    BY <2>1
<1>5. QED
  BY <1>4

LEMMA SetInduction ==
  ASSUME NEW S, 0 \in S, \A n \in Nat : n \in S => n + 1 \in S
  PROVE  \A n \in Nat : n \in S
<1> SUFFICES ASSUME Nat \ S # {} PROVE FALSE
  OBVIOUS
<1>1. PICK m \in Nat \ S : \A k \in Nat \ S : m <= k
  BY LeastNatural
<1>2. m # 0 /\ m - 1 \in Nat
  BY <1>1
<1>3. m - 1 \in S
  BY <1>1, <1>2
<1>4. QED
  BY <1>1, <1>2, <1>3

(***************************************************************************)
(* What the recursive definition of Cheapest says.                         *)
(***************************************************************************)
LEMMA CheapestUnfolds ==
  /\ Cheapest[0] = {<<start, 0>>}
  /\ \A n \in 1..Width * Height : Cheapest[n] = Longer(Cheapest[n - 1])
<1> DEFINE N == Width * Height
           Is(f, k) == f = [n \in 0..k |-> IF n = 0 THEN {<<start, 0>>}
                                           ELSE Longer(f[n - 1])]
           S == {k \in Nat : \E f : Is(f, k)}
<1>1. N \in Nat
  BY MapAssumption
<1>2. 0 \in S
  <2> DEFINE one == [n \in 0..0 |-> {<<start, 0>>}]
  <2>1. Is(one, 0)
    OBVIOUS
  <2> HIDE DEF one, Is
  <2>2. QED
    BY <2>1
<1>3. ASSUME NEW k \in Nat, k \in S PROVE k + 1 \in S
  <2>1. PICK f : Is(f, k)
    BY <1>3
  <2> DEFINE g == [n \in 0..k + 1 |-> IF n = 0 THEN {<<start, 0>>}
                                      ELSE Longer(f[n - 1])]
  <2>2. ASSUME NEW n \in 0..k PROVE g[n] = f[n]
    <3>1. n \in 0..k + 1
      OBVIOUS
    <3>2. g[n] = IF n = 0 THEN {<<start, 0>>} ELSE Longer(f[n - 1])
      BY <3>1
    <3>3. f[n] = IF n = 0 THEN {<<start, 0>>} ELSE Longer(f[n - 1])
      BY <2>1
    <3>4. QED
      BY <3>2, <3>3
  <2>3. \A n \in 0..k + 1 : n # 0 => n - 1 \in 0..k
    OBVIOUS
  <2>4. Is(g, k + 1)
    <3>1. \A n \in 0..k + 1 : n # 0 => Longer(f[n - 1]) = Longer(g[n - 1])
      BY <2>2, <2>3
    <3>2. QED
      BY <3>1
  <2> HIDE DEF g, Is
  <2>5. QED
    BY <2>4
<1>4. N \in S
  <2> HIDE DEF S, N
  <2>1. QED
    BY <1>1, <1>2, <1>3, SetInduction
<1>5. Is(Cheapest, N)
  BY <1>4, Zenon DEF Cheapest
<1> HIDE DEF N
<1>6. QED
  <2>1. \A n \in 1..N : n \in 0..N /\ n # 0
    BY <1>1
  <2>2. 0 \in 0..N
    BY <1>1
  <2>3. QED
    BY <1>5, <2>1, <2>2 DEF N

(***************************************************************************)
(* The costs during the search                                             *)
(***************************************************************************)
\* The entry that gave c its cost is in the heap, at or before its place; or
\* the moves from c have all been charged.
Scheduled(c) == \E e \in queue : /\ e.cell = c /\ e.cost = costs[c]
                                 /\ e.estimate <= costs[c] + Estimate[<<c, goal>>]
Settled(c) ==
  \A d \in Cells :
    Safe(c, d) => d \in reached /\ costs[d] <= costs[c] + MoveCost(c, d)

CostInv ==
  /\ costs[start] = 0
  /\ \A c \in reached \ {start} :
       /\ Safe(cameFrom[c], c)
       /\ costs[cameFrom[c]] + MoveCost(cameFrom[c], c) <= costs[c]
  /\ phase = "search" =>
       /\ \A c \in reached : Scheduled(c) \/ Settled(c)
       /\ \A e \in queue : \/ e.cell = start
                           \/ e.estimate >= costs[e.cell] + Estimate[<<e.cell, goal>>]

LEMMA CostInvInitially == Init => CostInv
BY MapAssumption DEF Init, CostInv

LEMMA MoveCostsSomething == \A c, d : MoveCost(c, d) \in Nat \ {0}
BY CostAssumption DEF MoveCost

LEMMA ExpandKeepsCostInv ==
  ASSUME CostInv, TreeInv, SearchInv, NEW e \in queue, Expand(e)
  PROVE  CostInv'
<1> DEFINE c == e.cell
           cost(d) == costs[c] + MoveCost(c, d)
           new == Improved(c)
           entry(d) == [estimate |-> cost(d) + Estimate[<<d, goal>>],
                        cost |-> cost(d), cell |-> d]
<1>1. /\ phase = "search" /\ phase' = "search"
      /\ UNCHANGED <<grid, blocked, start, goal>>
      /\ costs' = [d \in Cells |-> IF d \in new THEN cost(d) ELSE costs[d]]
      /\ cameFrom' = [d \in Cells |-> IF d \in new THEN c ELSE cameFrom[d]]
      /\ reached' = reached \cup new
      /\ queue' = (queue \ {e}) \cup {entry(d) : d \in new}
  BY DEF Expand, Popped, jobVars
<1>2. \A a, b : Safe(a, b)' <=> Safe(a, b)
  BY <1>1, SafeAsBefore
<1>3. /\ start \in Cells /\ goal \in Cells /\ c \in reached
      /\ reached \subseteq Cells /\ costs \in [Cells -> Nat]
      /\ cameFrom \in [Cells -> Cells \cup {Nowhere}]
      /\ \A d \in reached \ {start} : cameFrom[d] \in reached
      /\ \A f \in queue : f.cell \in reached
  BY <1>1 DEF TreeInv, Tracing, OpenCells
<1>4. /\ \A d \in Cells : cost(d) \in Nat /\ cost(d) > costs[c]
      /\ \A d \in Cells : Estimate[<<d, goal>>] \in Nat
  BY <1>3, MoveCostsSomething, CostAssumption
<1>5. /\ \A d \in new : /\ d \in Cells /\ d # c /\ Safe(c, d)
                        /\ d \in reached => cost(d) < costs[d]
      /\ \A d \in Cells \ new : Safe(c, d) => d \in reached /\ costs[d] <= cost(d)
  <2>1. \A d : d \in new <=> /\ d \in Cells /\ Safe(c, d)
                             /\ d \in reached => cost(d) < costs[d]
    BY DEF Improved
  <2>2. \A d : Safe(c, d) => d # c
    BY DEF Safe, Neighbours
  <2> HIDE DEF new, cost
  <2>3. QED
    BY <1>3, <1>4, <2>1, <2>2
<1>6. /\ \A d : entry(d).cell = d /\ entry(d).cost = cost(d)
      /\ \A d : entry(d).estimate = cost(d) + Estimate[<<d, goal>>]
  OBVIOUS
<1> HIDE DEF c, cost, new, entry
<1>7. /\ \A d \in new : costs'[d] = cost(d)
      /\ \A d \in Cells \ new : costs'[d] = costs[d]
      /\ \A d \in Cells : costs'[d] \in Nat
      /\ \A d \in reached : costs'[d] <= costs[d]
      /\ costs'[c] = costs[c]
  BY <1>1, <1>3, <1>4, <1>5
<1>8. costs'[start] = 0
  <2>1. start \in reached
    BY <1>1 DEF SearchInv
  <2>2. start \notin new
    BY <1>3, <1>4, <1>5, <2>1 DEF CostInv
  <2>3. QED
    BY <1>3, <1>7, <2>2 DEF CostInv
<1>9. ASSUME NEW d \in reached' \ {start}
      PROVE  /\ Safe(cameFrom'[d], d)
             /\ costs'[cameFrom'[d]] + MoveCost(cameFrom'[d], d) <= costs'[d]
  <2>1. CASE d \in new
    <3>1. cameFrom'[d] = c /\ costs'[d] = costs[c] + MoveCost(c, d)
      BY <1>1, <1>5, <1>7, <2>1 DEF cost
    <3>2. QED
      BY <1>3, <1>5, <1>7, <2>1, <3>1, MoveCostIsNat
  <2>2. CASE d \notin new
    <3>1. /\ d \in reached \ {start} /\ d \in Cells
          /\ cameFrom'[d] = cameFrom[d] /\ costs'[d] = costs[d]
      BY <1>1, <1>3, <1>7, <2>2
    <3>2. /\ Safe(cameFrom[d], d) /\ cameFrom[d] \in reached
          /\ costs[cameFrom[d]] + MoveCost(cameFrom[d], d) <= costs[d]
      BY <1>3, <3>1 DEF CostInv
    <3>3. costs'[cameFrom[d]] <= costs[cameFrom[d]]
      BY <1>7, <3>2
    <3>4. /\ costs'[cameFrom[d]] \in Nat /\ costs[cameFrom[d]] \in Nat
          /\ costs[d] \in Nat /\ MoveCost(cameFrom[d], d) \in Nat
      BY <1>3, <1>7, <3>1, <3>2, MoveCostIsNat
    <3>5. QED
      BY <3>1, <3>2, <3>3, <3>4
  <2>3. QED
    BY <2>1, <2>2
<1>10. ASSUME NEW d \in reached' PROVE Scheduled(d)' \/ Settled(d)'
  <2>1. CASE d \in new
    <3>1. entry(d) \in queue' /\ costs'[d] = cost(d)
      BY <1>1, <1>7, <2>1
    <3>2. entry(d).estimate <= costs'[d] + Estimate[<<d, goal'>>]
      BY <1>1, <1>4, <1>5, <1>6, <2>1, <3>1
    <3>3. QED
      BY <1>6, <3>1, <3>2 DEF Scheduled
  <2>2. CASE d \notin new /\ d = c
    <3>1. ASSUME NEW b \in Cells, Safe(c, b)
          PROVE  b \in reached' /\ costs'[b] <= costs'[c] + MoveCost(c, b)
      <4>1. CASE b \in new
        BY <1>1, <1>3, <1>4, <1>7, <4>1 DEF cost
      <4>2. CASE b \notin new
        BY <1>1, <1>5, <1>7, <3>1, <4>2 DEF cost
      <4>3. QED
        BY <4>1, <4>2
    <3>2. QED
      BY <1>2, <2>2, <3>1 DEF Settled
  <2>3. CASE d \notin new /\ d # c
    <3>1. d \in reached /\ d \in Cells /\ costs'[d] = costs[d]
      BY <1>1, <1>3, <1>7, <2>3
    <3>2. CASE Scheduled(d)
      <4>1. PICK f \in queue : /\ f.cell = d /\ f.cost = costs[d]
                               /\ f.estimate <= costs[d] + Estimate[<<d, goal>>]
        BY <3>2 DEF Scheduled
      <4>2. f \in queue'
        BY <1>1, <2>3, <4>1 DEF c
      <4>3. QED
        BY <1>1, <3>1, <4>1, <4>2 DEF Scheduled
    <3>3. CASE Settled(d)
      <4>1. ASSUME NEW b \in Cells, Safe(d, b)
            PROVE  b \in reached' /\ costs'[b] <= costs'[d] + MoveCost(d, b)
        <5>1. b \in reached /\ costs[b] <= costs[d] + MoveCost(d, b)
          BY <3>3, <4>1 DEF Settled
        <5>2. costs'[b] <= costs[b]
          BY <1>7, <5>1
        <5>3. QED
          BY <1>1, <1>3, <1>7, <3>1, <5>1, <5>2, MoveCostIsNat
      <4>2. QED
        BY <1>2, <4>1 DEF Settled
    <3>4. QED
      BY <1>1, <3>1, <3>2, <3>3 DEF CostInv
  <2>4. QED
    BY <2>1, <2>2, <2>3
<1>11. ASSUME NEW f \in queue', f.cell # start
       PROVE  f.estimate >= costs'[f.cell] + Estimate[<<f.cell, goal>>]
  <2>1. CASE f \in queue
    <3>1. /\ f.estimate >= costs[f.cell] + Estimate[<<f.cell, goal>>]
          /\ f.cell \in reached /\ f.estimate \in Nat
      BY <1>1, <1>3, <1>11, <2>1 DEF CostInv, TreeInv
    <3>2. QED
      BY <1>3, <1>4, <1>7, <3>1
  <2>2. CASE f \notin queue
    <3>1. PICK d \in new : f = entry(d)
      BY <1>1, <2>2
    <3>2. f.cell = d /\ f.estimate = costs'[d] + Estimate[<<d, goal>>]
      BY <1>6, <1>7, <3>1
    <3>3. QED
      BY <1>4, <1>5, <1>7, <3>2
  <2>3. QED
    BY <2>1, <2>2
<1>12. QED
  BY <1>1, <1>2, <1>8, <1>9, <1>10, <1>11 DEF CostInv

LEMMA CostInvKept ==
  ASSUME CostInv, TreeInv, SearchInv, [Next]_vars PROVE CostInv'
<1>1. ASSUME UNCHANGED <<jobVars, reached, costs, cameFrom>>,
             phase' # "search"
      PROVE  CostInv'
  <2>1. UNCHANGED <<start, reached, costs, cameFrom>>
        /\ \A a, b : Safe(a, b)' <=> Safe(a, b)
    BY <1>1, SafeAsBefore DEF jobVars
  <2>2. QED
    BY <1>1, <2>1 DEF CostInv
<1>2. ASSUME UNCHANGED <<jobVars, goal, phase, searchVars>> PROVE CostInv'
  <2>1. UNCHANGED <<start, goal, phase, reached, costs, cameFrom, queue>>
        /\ \A a, b : Safe(a, b)' <=> Safe(a, b)
    BY <1>2, SafeAsBefore DEF jobVars, searchVars
  <2>2. QED
    BY <2>1 DEF CostInv, Scheduled, Settled
<1>3. CASE Flood \/ NoFrontier
  BY <1>1, <1>2, <1>3 DEF Flood, FloodLayer, FloodFinished, NoFrontier, searchVars
<1>4. ASSUME NEW g \in Cells, FixedGoalRefused(g) PROVE CostInv'
  BY <1>1, <1>4 DEF FixedGoalRefused, searchVars
<1>5. ASSUME NEW g \in Cells, Search(g) PROVE CostInv'
  <2> DEFINE first == [estimate |-> 0, cost |-> 0, cell |-> start]
  <2>1. /\ UNCHANGED <<start, costs, cameFrom>>
        /\ goal' = g /\ reached' = {start} /\ queue' = {first}
    BY <1>5 DEF Search, jobVars
  <2>2. first.cell = start /\ first.cost = 0 /\ first.estimate = 0
    OBVIOUS
  <2> HIDE DEF first
  <2>3. Estimate[<<start, g>>] \in Nat /\ costs[start] = 0
    BY CostAssumption DEF TreeInv, CostInv
  <2>4. Scheduled(start)'
    BY <2>1, <2>2, <2>3 DEF Scheduled
  <2>5. QED
    BY <2>1, <2>2, <2>3, <2>4 DEF CostInv
<1>6. ASSUME NEW e \in queue, EntryOutdated(e) PROVE CostInv'
  <2>1. /\ UNCHANGED <<start, phase, goal, reached, costs, cameFrom>>
        /\ queue' = queue \ {e} /\ phase = "search"
        /\ e.cost > costs[e.cell]
        /\ \A a, b : Safe(a, b)' <=> Safe(a, b)
    BY <1>6, SafeAsBefore DEF EntryOutdated, Popped, jobVars
  <2>2. e.cost # costs[e.cell]
    BY <2>1 DEF TreeInv
  <2>3. \A c \in reached : Scheduled(c) => Scheduled(c)'
    BY <2>1, <2>2 DEF Scheduled
  <2>4. \A c \in reached : Settled(c) => Settled(c)'
    BY <2>1 DEF Settled
  <2>5. QED
    BY <2>1, <2>3, <2>4 DEF CostInv
<1>7. ASSUME NEW e \in queue, GoalReached(e) PROVE CostInv'
  BY <1>1, <1>7 DEF GoalReached, searchVars
<1>8. CASE SearchFailed \/ TraceBack \/ TraceFinished
  BY <1>1, <1>8 DEF SearchFailed, TraceBack, TraceFinished, searchVars
<1>9. CASE Waypoints
  BY <1>1, <1>9 DEF Waypoints, Simplify, Simplified, RoundCorner, Rounded,
     searchVars
<1>10. CASE UNCHANGED vars
  BY <1>2, <1>10 DEF vars
<1>11. QED
  BY <1>3, <1>4, <1>5, <1>6, <1>7, <1>8, <1>9, <1>10, ExpandKeepsCostInv
  DEF Next, Choose, FrontierGoal, FixedGoal, Astar

(***************************************************************************)
(* A potential that no move raises by more than it costs bounds the cost   *)
(* of every way from below; a path whose costs it reaches is the cheapest. *)
(***************************************************************************)
Moves == {move \in Cells \X Cells : Safe(move[1], move[2])}

Potentials(moves, from, known, cost) ==
  {p \in [Cells -> Int] :
     /\ p[from] <= 0 /\ \A c \in known : p[c] <= cost[c]
     /\ \A c, d \in Cells : <<c, d>> \in moves => p[d] <= p[c] + MoveCost(c, d)}

\* A path each cell of which costs no more than the potential asks for.
Tight(way, cost, potential, moves) ==
  /\ Cellular(way)
  /\ \A i \in 1..Len(way) : cost[way[i]] <= potential[way[i]]
  /\ \A i \in 1..Len(way) - 1 :
       /\ <<way[i], way[i + 1]>> \in moves
       /\ cost[way[i + 1]] = cost[way[i]] + MoveCost(way[i], way[i + 1])

PathInvTight ==
  phase = "trace" \/ (phase = "simplify" /\ index = 1) =>
    \E p \in Potentials(Moves, start, reached, costs) :
      Tight(path, costs, p, Moves)

LEMMA MovesAsBefore ==
  ASSUME UNCHANGED <<grid, blocked>> PROVE Moves' = Moves
<1>1. \A c, d : Safe(c, d)' <=> Safe(c, d)
  BY SafeAsBefore
<1>2. QED
  BY <1>1 DEF Moves

\* When the goal is popped, what a cell is worth is its cost, or what the goal
\* leaves for it if that is less.
LEMMA GoalIsTight ==
  ASSUME CostInv, TreeInv, SearchInv, NEW e \in queue, GoalReached(e)
  PROVE  \E p \in Potentials(Moves, start, reached, costs) :
           costs[goal] <= p[goal]
<1>1. /\ phase = "search" /\ e.cell = goal
      /\ \A f \in queue : e.estimate <= f.estimate
  <2>1. \A f \in queue : Before(e, f)
    BY DEF GoalReached, Popped
  <2>2. \A f \in queue : e.estimate \in Nat /\ f.estimate \in Nat
    BY DEF TreeInv
  <2>3. \A f \in queue : e.estimate <= f.estimate
    BY <2>1, <2>2 DEF Before
  <2>4. QED
    BY <2>3 DEF GoalReached, Popped
<1>2. /\ start \in Cells /\ goal \in Cells /\ reached \subseteq Cells
      /\ costs \in [Cells -> Nat] /\ costs[start] = 0
      /\ goal \in reached
  BY <1>1 DEF TreeInv, Tracing, OpenCells, CostInv
<1>3. \A c, d \in Cells : <<c, d>> \in Moves <=> Safe(c, d)
  BY DEF Moves
<1>4. CASE goal = start
  <2> DEFINE p == [c \in Cells |-> 0]
  <2>1. p \in Potentials(Moves, start, reached, costs)
    BY <1>2, MoveCostIsNat DEF Potentials
  <2>2. costs[goal] <= p[goal]
    BY <1>2, <1>4
  <2>3. QED
    BY <2>1, <2>2
<1>5. CASE goal # start
  <2> DEFINE left(c) == costs[goal] + Estimate[<<goal, goal>>] - Estimate[<<c, goal>>]
             p == [c \in Cells |-> IF c \in reached /\ costs[c] <= left(c)
                                   THEN costs[c] ELSE left(c)]
  <2>1. \A c \in Cells : Estimate[<<c, goal>>] \in Nat /\ left(c) \in Int
    BY <1>2, CostAssumption
  <2>2. p \in [Cells -> Int]
    BY <1>2, <2>1
  <2>0. \A c \in reached : p[c] <= costs[c]
    BY <1>2, <2>1
  <2>3. ASSUME NEW c \in Cells, NEW d \in Cells, Safe(c, d)
        PROVE  p[d] <= p[c] + MoveCost(c, d)
    <3>1. /\ p[d] \in Int /\ p[c] \in Int /\ p[d] <= left(d)
          /\ d \in reached => p[d] <= costs[d]
          /\ MoveCost(c, d) \in Nat /\ costs[c] \in Nat /\ costs[d] \in Nat
      BY <1>2, <2>1, <2>2, MoveCostIsNat
    <3>2. CASE p[c] = left(c)
      <4>1. Estimate[<<c, goal>>] <= MoveCost(c, d) + Estimate[<<d, goal>>]
        BY <1>2, <2>3, HeuristicAssumption DEF Safe
      <4>2. left(d) <= left(c) + MoveCost(c, d)
        BY <1>2, <2>1, <3>1, <4>1
      <4>3. QED
        BY <2>1, <3>1, <3>2, <4>2
    <3>3. CASE p[c] # left(c)
      <4>1. c \in reached /\ p[c] = costs[c] /\ costs[c] < left(c)
        BY <2>1, <3>1, <3>3
      <4>2. ~Scheduled(c)
        <5> SUFFICES ASSUME NEW f \in queue,
                            f.estimate <= costs[c] + Estimate[<<c, goal>>]
                     PROVE  FALSE
          BY DEF Scheduled
        <5>1. e.estimate >= costs[goal] + Estimate[<<goal, goal>>]
          BY <1>1, <1>5 DEF CostInv
        <5>2. e.estimate <= f.estimate /\ e.estimate \in Nat /\ f.estimate \in Nat
          BY <1>1 DEF TreeInv
        <5>3. QED
          BY <1>2, <2>1, <3>1, <4>1, <5>1, <5>2
      <4>3. d \in reached /\ costs[d] <= costs[c] + MoveCost(c, d)
        BY <1>1, <2>3, <4>1, <4>2 DEF CostInv, Settled
      <4>4. QED
        BY <3>1, <4>1, <4>3
    <3>4. QED
      BY <3>2, <3>3
  <2>4. p[start] <= 0
    <3>1. start \in reached
      BY <1>1 DEF SearchInv
    <3>2. QED
      BY <1>2, <2>1, <3>1
  <2>5. costs[goal] <= p[goal]
    BY <1>2, <2>1
  <2> HIDE DEF p
  <2>6. p \in Potentials(Moves, start, reached, costs)
    BY <1>3, <2>0, <2>2, <2>3, <2>4 DEF Potentials
  <2>7. QED
    BY <2>5, <2>6
<1>6. QED
  BY <1>4, <1>5

LEMMA GoalReachedKeepsTight ==
  ASSUME CostInv, TreeInv, SearchInv, NEW e \in queue, GoalReached(e)
  PROVE  PathInvTight'
<1>1. /\ UNCHANGED <<grid, blocked, start, reached, costs>>
      /\ path' = <<goal>> /\ goal \in Cells /\ phase = "search"
  BY DEF GoalReached, Popped, TreeInv, Tracing, jobVars, searchVars
<1>2. Moves' = Moves
  BY <1>1, MovesAsBefore
<1>3. PICK p \in Potentials(Moves, start, reached, costs) : costs[goal] <= p[goal]
  BY GoalIsTight
<1>4. /\ Cellular(<<goal>>) /\ Len(<<goal>>) = 1 /\ <<goal>>[1] = goal
      /\ 1..Len(<<goal>>) - 1 = {}
  BY <1>1 DEF Cellular
<1>5. Tight(path', costs, p, Moves)
  BY <1>1, <1>3, <1>4 DEF Tight
<1>6. QED
  BY <1>1, <1>2, <1>3, <1>5 DEF PathInvTight

LEMMA TraceBackKeepsTight ==
  ASSUME CostInv, TreeInv, PassInv, PathInvTight, TraceBack
  PROVE  PathInvTight'
<1> DEFINE c == cameFrom[path[1]]
           d == path[1]
<1>1. /\ UNCHANGED <<grid, blocked, start, costs>> /\ phase = "trace"
      /\ Moves' = Moves
  BY MovesAsBefore DEF TraceBack, jobVars, searchVars
<1>2. PICK p \in Potentials(Moves, start, reached, costs) :
        Tight(path, costs, p, Moves)
  BY <1>1 DEF PathInvTight
<1>3. /\ path \in Seq(Cells) /\ path # <<>> /\ Len(path) \in Nat \ {0}
      /\ Head(path) = d /\ d \in reached /\ d \in Cells /\ d # start
      /\ path' = <<c>> \o path
  BY <1>1, <1>2 DEF Tight, Cellular, TraceBack, PassInv
<1>4. /\ c \in reached /\ c \in Cells /\ Safe(c, d)
      /\ costs[c] + MoveCost(c, d) <= costs[d]
      /\ costs[c] \in Nat /\ costs[d] \in Nat /\ MoveCost(c, d) \in Nat
  BY <1>3, MoveCostIsNat DEF TreeInv, OpenCells, CostInv
<1>5. <<c, d>> \in Moves
  BY <1>3, <1>4 DEF Moves
<1>6. /\ p[d] <= p[c] + MoveCost(c, d) /\ costs[d] <= p[d]
      /\ p[c] <= costs[c]
      /\ p[c] \in Int /\ p[d] \in Int
  BY <1>2, <1>3, <1>4, <1>5 DEF Potentials, Tight
<1>7. costs[c] <= p[c] /\ costs[d] = costs[c] + MoveCost(c, d)
  BY <1>4, <1>6
<1> HIDE DEF c, d
<1>8. Tight(path', costs, p, Moves)
  <2>1. /\ path' \in Seq(Cells) /\ path' # <<>> /\ Len(path') = Len(path) + 1
        /\ path'[1] = c /\ \A i \in 1..Len(path) : path'[i + 1] = path[i]
    BY <1>3, <1>4
  <2>2. ASSUME NEW i \in 1..Len(path') PROVE costs[path'[i]] <= p[path'[i]]
    <3>1. CASE i = 1
      BY <1>7, <2>1, <3>1
    <3>2. CASE i # 1
      <4>1. i - 1 \in 1..Len(path) /\ i = (i - 1) + 1
        BY <1>3, <2>1, <3>2
      <4>2. path'[i] = path[i - 1]
        BY <2>1, <4>1
      <4>3. QED
        BY <1>2, <4>1, <4>2 DEF Tight
    <3>3. QED
      BY <3>1, <3>2
  <2>3. ASSUME NEW i \in 1..Len(path') - 1
        PROVE  /\ <<path'[i], path'[i + 1]>> \in Moves
               /\ costs[path'[i + 1]] =
                    costs[path'[i]] + MoveCost(path'[i], path'[i + 1])
    <3>1. i \in 1..Len(path) /\ path'[i + 1] = path[i]
      BY <1>3, <2>1
    <3>2. CASE i = 1
      BY <1>5, <1>7, <2>1, <3>1, <3>2 DEF d
    <3>3. CASE i # 1
      <4>1. i - 1 \in 1..Len(path) - 1 /\ i - 1 \in 1..Len(path) /\ i = (i - 1) + 1
        BY <1>3, <2>1, <3>3
      <4>2. path'[i] = path[i - 1]
        BY <2>1, <4>1
      <4>3. QED
        BY <1>2, <3>1, <4>1, <4>2 DEF Tight
    <3>4. QED
      BY <3>2, <3>3
  <2>4. QED
    BY <2>1, <2>2, <2>3 DEF Tight, Cellular
<1>9. reached' = reached
  BY DEF TraceBack, searchVars
<1>10. QED
  BY <1>1, <1>2, <1>8, <1>9 DEF PathInvTight

LEMMA TightKept ==
  ASSUME CostInv, TreeInv, SearchInv, PassInv, PathInvTight, [Next]_vars
  PROVE  PathInvTight'
<1>1. ASSUME phase' # "trace", phase' # "simplify" \/ index' # 1
      PROVE  PathInvTight'
  BY <1>1 DEF PathInvTight
<1>2. ASSUME UNCHANGED <<jobVars, reached, costs, path>>,
             phase' = "trace" \/ (phase' = "simplify" /\ index' = 1) =>
               phase = "trace" \/ (phase = "simplify" /\ index = 1)
      PROVE  PathInvTight'
  <2>1. UNCHANGED <<start, reached, costs, path>> /\ Moves' = Moves
    BY <1>2, MovesAsBefore DEF jobVars
  <2>2. QED
    BY <1>2, <2>1 DEF PathInvTight
<1>3. CASE Flood \/ Choose
  BY <1>1, <1>3 DEF Flood, FloodLayer, FloodFinished, Choose, NoFrontier,
     FrontierGoal, FixedGoal, FixedGoalRefused, Search
<1>4. ASSUME NEW e \in queue, EntryOutdated(e) \/ Expand(e) PROVE PathInvTight'
  BY <1>1, <1>4 DEF EntryOutdated, Expand, Popped
<1>5. CASE SearchFailed
  BY <1>1, <1>5 DEF SearchFailed
<1>6. CASE TraceFinished
  BY <1>2, <1>6 DEF TraceFinished, searchVars
<1>7. CASE Simplify
  <2>1. phase' = "simplify" /\ index' # 1
    BY <1>7 DEF Simplify, PassInv
  <2>2. QED
    BY <1>1, <2>1
<1>8. CASE Simplified \/ RoundCorner \/ Rounded
  BY <1>1, <1>8 DEF Simplified, RoundCorner, Rounded
<1>9. CASE UNCHANGED vars
  BY <1>2, <1>9 DEF vars, searchVars, pathVars
<1>10. QED
  BY <1>3, <1>4, <1>5, <1>6, <1>7, <1>8, <1>9, GoalReachedKeepsTight,
     TraceBackKeepsTight
  DEF Next, Astar, Waypoints

(***************************************************************************)
(* The cheapest ways                                                       *)
(***************************************************************************)
Ways == Cells \X Int

LEMMA LongerWays ==
  ASSUME NEW ways \in SUBSET Ways,
         NEW p \in Potentials(Moves, start, reached, costs),
         \A w \in ways : p[w[1]] <= w[2]
  PROVE  /\ Longer(ways) \subseteq Ways
         /\ \A w \in Longer(ways) : p[w[1]] <= w[2]
         /\ \A c \in Cells, x \in Int :
              <<c, x>> \in ways /\ x <= p[c] => <<c, x>> \in Longer(ways)
         /\ \A c, d \in Cells, x \in Int :
              <<c, x>> \in ways /\ <<c, d>> \in Moves
                /\ x + MoveCost(c, d) <= p[d]
              => <<d, x + MoveCost(c, d)>> \in Longer(ways)
<1> DEFINE more == UNION {{<<d, w[2] + MoveCost(w[1], d)>> :
                             d \in {e \in Cells : Safe(w[1], e)}} : w \in ways}
           all == ways \cup more
<1>1. \A v : v \in more <=> \E w \in ways, d \in Cells :
                              /\ Safe(w[1], d)
                              /\ v = <<d, w[2] + MoveCost(w[1], d)>>
  OBVIOUS
<1>2. Longer(ways) = {w \in all : \A v \in all : v[1] = w[1] => w[2] <= v[2]}
  BY DEF Longer
<1> HIDE DEF more
<1>3. ASSUME NEW v \in all PROVE v \in Ways /\ p[v[1]] <= v[2]
  <2>1. CASE v \in ways
    BY <2>1
  <2>2. CASE v \in more
    <3>1. PICK w \in ways, d \in Cells :
            Safe(w[1], d) /\ v = <<d, w[2] + MoveCost(w[1], d)>>
      BY <1>1, <2>2
    <3>2. /\ w[1] \in Cells /\ w[2] \in Int /\ p[w[1]] <= w[2]
          /\ MoveCost(w[1], d) \in Nat
      BY MoveCostIsNat DEF Ways
    <3>3. p[d] <= p[w[1]] + MoveCost(w[1], d) /\ p[d] \in Int /\ p[w[1]] \in Int
      BY <3>1, <3>2 DEF Potentials, Moves
    <3>4. v[1] = d /\ v[2] = w[2] + MoveCost(w[1], d) /\ v \in Ways
      BY <3>1, <3>2 DEF Ways
    <3>5. QED
      BY <3>2, <3>3, <3>4
  <2>3. QED
    BY <2>1, <2>2
<1>4. ASSUME NEW c \in Cells, NEW x \in Int, <<c, x>> \in all, x <= p[c]
      PROVE  <<c, x>> \in Longer(ways)
  <2>1. ASSUME NEW v \in all, v[1] = c PROVE x <= v[2]
    <3>1. p[c] <= v[2] /\ v[2] \in Int /\ p[c] \in Int
      BY <1>3, <2>1 DEF Ways, Potentials
    <3>2. QED
      BY <1>4, <3>1
  <2>2. <<c, x>>[1] = c /\ <<c, x>>[2] = x
    OBVIOUS
  <2> HIDE DEF all
  <2>3. QED
    BY <1>2, <1>4, <2>1, <2>2
<1>5. ASSUME NEW c \in Cells, NEW d \in Cells, NEW x \in Int,
             <<c, x>> \in ways, <<c, d>> \in Moves,
             x + MoveCost(c, d) <= p[d]
      PROVE  <<d, x + MoveCost(c, d)>> \in Longer(ways)
  <2>1. <<c, x>>[1] = c /\ <<c, x>>[2] = x /\ Safe(c, d)
    BY <1>5 DEF Moves
  <2>2. <<d, x + MoveCost(c, d)>> \in more
    BY <1>1, <1>5, <2>1
  <2>3. x + MoveCost(c, d) \in Int
    BY MoveCostIsNat
  <2>4. QED
    BY <1>4, <1>5, <2>2, <2>3
<1> HIDE DEF all
<1>6. Longer(ways) \subseteq all
  BY <1>2
<1>7. QED
  BY <1>3, <1>4, <1>5, <1>6 DEF all

\* No way costs less than the potential asks for.
LEMMA CheapestBounded ==
  ASSUME NEW p \in Potentials(Moves, start, reached, costs), start \in Cells
  PROVE  \A n \in 0..Width * Height :
           Cheapest[n] \subseteq Ways /\ \A w \in Cheapest[n] : p[w[1]] <= w[2]
<1> DEFINE N == Width * Height
           Bounded(n) == /\ Cheapest[n] \subseteq Ways
                         /\ \A w \in Cheapest[n] : p[w[1]] <= w[2]
           S == {n \in Nat : n <= N => Bounded(n)}
<1>1. N \in Nat
  BY MapAssumption
<1>2. 0 \in S
  <2>1. Cheapest[0] = {<<start, 0>>} /\ p[start] <= 0
    BY CheapestUnfolds DEF Potentials
  <2>2. Bounded(0)
    BY <2>1 DEF Ways
  <2>3. QED
    BY <2>2
<1>3. ASSUME NEW n \in Nat, n \in S PROVE n + 1 \in S
  <2>1. CASE n + 1 <= N
    <3>1. n <= N /\ n + 1 \in 1..N /\ (n + 1) - 1 = n
      BY <1>1, <2>1
    <3>2. Bounded(n)
      BY <1>3, <3>1
    <3>3. Cheapest[n + 1] = Longer(Cheapest[n])
      BY <3>1, CheapestUnfolds
    <3>4. Bounded(n + 1)
      BY <3>2, <3>3, LongerWays
    <3>5. QED
      BY <3>4
  <2>2. CASE ~(n + 1 <= N)
    BY <2>2
  <2>3. QED
    BY <2>1, <2>2
<1> HIDE DEF Bounded
<1>4. \A n \in Nat : n \in S
  <2> HIDE DEF S
  <2>1. QED
    BY <1>2, <1>3, SetInduction
<1>5. \A n \in 0..N : Bounded(n)
  BY <1>1, <1>4
<1>6. QED
  BY <1>5 DEF Bounded

\* The cells of a tight path are reached one move at a time, and stay.
LEMMA TightIsCheapest ==
  ASSUME NEW p \in Potentials(Moves, start, reached, costs), start \in Cells,
         costs \in [Cells -> Nat], costs[start] = 0,
         Tight(path, costs, p, Moves), path[1] = start
  PROVE  \A n \in 0..Width * Height : \A i \in 1..Len(path) :
           i <= n + 1 => <<path[i], costs[path[i]]>> \in Cheapest[n]
<1> DEFINE N == Width * Height
           way(i) == <<path[i], costs[path[i]]>>
           Holds(n) ==
             \A i \in 1..Len(path) : i <= n + 1 => way(i) \in Cheapest[n]
           S == {n \in Nat : n <= N => Holds(n)}
<1>1. /\ N \in Nat /\ Len(path) \in Nat \ {0}
      /\ \A i \in 1..Len(path) : path[i] \in Cells /\ costs[path[i]] \in Nat
  BY MapAssumption, CellularEnds DEF Tight
<1>2. 0 \in S
  <2>1. Cheapest[0] = {<<start, 0>>} /\ way(1) = <<start, 0>>
    BY CheapestUnfolds
  <2>2. \A i \in 1..Len(path) : i <= 0 + 1 => i = 1
    OBVIOUS
  <2>3. QED
    BY <2>1, <2>2
<1>3. ASSUME NEW n \in Nat, n \in S PROVE n + 1 \in S
  <2>1. CASE n + 1 <= N
    <3>1. n \in 0..N /\ n + 1 \in 1..N /\ (n + 1) - 1 = n /\ n <= N
      BY <1>1, <2>1
    <3>2. /\ Cheapest[n + 1] = Longer(Cheapest[n])
          /\ Cheapest[n] \subseteq Ways
          /\ \A w \in Cheapest[n] : p[w[1]] <= w[2]
      BY <3>1, CheapestUnfolds, CheapestBounded
    <3>3. Holds(n)
      BY <1>3, <3>1
    <3>4. ASSUME NEW i \in 1..Len(path), i <= (n + 1) + 1
          PROVE  way(i) \in Cheapest[n + 1]
      <4>1. /\ path[i] \in Cells /\ costs[path[i]] \in Int
            /\ costs[path[i]] <= p[path[i]]
        BY <1>1 DEF Tight
      <4>2. CASE i <= n + 1
        <5>1. way(i) \in Cheapest[n]
          BY <3>3, <4>2
        <5>2. QED
          BY <3>2, <4>1, <5>1, LongerWays
      <4>3. CASE ~(i <= n + 1)
        <5> DEFINE j == i - 1
        <5>1. /\ j \in 1..Len(path) /\ j \in 1..Len(path) - 1 /\ j <= n + 1
              /\ i = j + 1
          BY <1>1, <3>4, <4>3
        <5> HIDE DEF j
        <5>2. way(j) \in Cheapest[n] /\ path[j] \in Cells /\ costs[path[j]] \in Int
          BY <1>1, <3>3, <5>1
        <5>3. /\ <<path[j], path[i]>> \in Moves
              /\ costs[path[i]] = costs[path[j]] + MoveCost(path[j], path[i])
          BY <5>1 DEF Tight
        <5>4. <<path[i], costs[path[j]] + MoveCost(path[j], path[i])>>
                \in Longer(Cheapest[n])
          BY <3>2, <4>1, <5>2, <5>3, LongerWays
        <5>5. QED
          BY <3>2, <5>3, <5>4
      <4>4. QED
        BY <4>2, <4>3
    <3>5. QED
      BY <3>4
  <2>2. CASE ~(n + 1 <= N)
    BY <2>2
  <2>3. QED
    BY <2>1, <2>2
<1> HIDE DEF Holds
<1>4. \A n \in Nat : n \in S
  <2> HIDE DEF S
  <2>1. QED
    BY <1>2, <1>3, SetInduction
<1>5. \A n \in 0..N : Holds(n)
  BY <1>1, <1>4
<1>6. QED
  BY <1>5 DEF Holds

\* Costs grow along a tight path, which therefore has no cell twice.
LEMMA CostsGrow ==
  ASSUME NEW p, costs \in [Cells -> Nat], Tight(path, costs, p, Moves)
  PROVE  \A i, j \in 1..Len(path) : i < j => costs[path[i]] < costs[path[j]]
<1> DEFINE Grow(j) ==
      \A i \in 1..Len(path) : i < j => costs[path[i]] < costs[path[j]]
           S == {j \in Nat : j \in 1..Len(path) => Grow(j)}
<1>1. /\ Len(path) \in Nat
      /\ \A i \in 1..Len(path) : path[i] \in Cells /\ costs[path[i]] \in Nat
  BY CellularEnds DEF Tight
<1>2. 0 \in S
  OBVIOUS
<1>3. ASSUME NEW j \in Nat, j \in S PROVE j + 1 \in S
  <2> SUFFICES ASSUME j + 1 \in 1..Len(path), NEW i \in 1..Len(path), i < j + 1
               PROVE  costs[path[i]] < costs[path[j + 1]]
    OBVIOUS
  <2>1. j \in 1..Len(path) /\ j \in 1..Len(path) - 1 /\ i <= j
    BY <1>1
  <2>2. costs[path[j]] < costs[path[j + 1]]
    <3>1. costs[path[j + 1]] = costs[path[j]] + MoveCost(path[j], path[j + 1])
      BY <2>1 DEF Tight
    <3>2. QED
      BY <1>1, <2>1, <3>1, MoveCostsSomething
  <2>3. i = j \/ costs[path[i]] < costs[path[j]]
    BY <1>3, <2>1
  <2>4. QED
    BY <1>1, <2>1, <2>2, <2>3
<1> HIDE DEF Grow
<1>4. \A j \in Nat : j \in S
  <2> HIDE DEF S
  <2>1. QED
    BY <1>2, <1>3, SetInduction
<1>5. \A j \in 1..Len(path) : Grow(j)
  BY <1>1, <1>4
<1>6. QED
  BY <1>5 DEF Grow

LEMMA CellCount ==
  IsFiniteSet(Cells) /\ Cardinality(Cells) = Width * Height
<1>1. /\ IsFiniteSet(0..Width - 1) /\ Cardinality(0..Width - 1) = Width
      /\ IsFiniteSet(0..Height - 1) /\ Cardinality(0..Height - 1) = Height
  <2>1. ASSUME NEW n \in Nat
        PROVE  IsFiniteSet(0..n - 1) /\ Cardinality(0..n - 1) = n
    <3>1. 0 \in Int /\ n - 1 \in Int
      OBVIOUS
    <3>2. /\ IsFiniteSet(0..n - 1)
          /\ Cardinality(0..n - 1) =
               IF 0 > n - 1 THEN 0 ELSE (n - 1) - 0 + 1
      BY <3>1, FS_Interval, Zenon
    <3>3. QED
      BY <3>2
  <2>2. QED
    BY <2>1, MapAssumption
<1>2. QED
  BY <1>1, FS_Product DEF Cells

LEMMA PathIsShort ==
  ASSUME NEW p, costs \in [Cells -> Nat], Tight(path, costs, p, Moves)
  PROVE  Len(path) <= Width * Height
<1>1. /\ Len(path) \in Nat /\ path \in Seq(Cells)
      /\ \A i \in 1..Len(path) : path[i] \in Cells /\ costs[path[i]] \in Nat
  BY CellularEnds DEF Tight, Cellular
<1>2. IsFiniteSet(1..Len(path)) /\ Cardinality(1..Len(path)) = Len(path)
  <2>1. 1 \in Int /\ Len(path) \in Int
    BY <1>1
  <2>2. /\ IsFiniteSet(1..Len(path))
        /\ Cardinality(1..Len(path)) =
             IF 1 > Len(path) THEN 0 ELSE Len(path) - 1 + 1
    BY <2>1, FS_Interval, Zenon
  <2>3. QED
    BY <1>1, <2>2
<1>3. path \in [1..Len(path) -> Cells]
  BY <1>1
<1>4. \A i, j \in 1..Len(path) : i # j => path[i] # path[j]
  <2> SUFFICES ASSUME NEW i \in 1..Len(path), NEW j \in 1..Len(path), i < j
               PROVE  path[i] # path[j]
    BY <1>1
  <2>1. costs[path[i]] < costs[path[j]]
    BY CostsGrow
  <2>2. QED
    BY <1>1, <2>1
<1>5. ~(Cardinality(Cells) < Cardinality(1..Len(path)))
  BY <1>2, <1>3, <1>4, CellCount, FS_PigeonHole, Zenon
<1>6. Width * Height \in Nat
  BY MapAssumption
<1>7. QED
  BY <1>1, <1>2, <1>5, <1>6, CellCount

\* The path A* returns is as short as any: its last cell is the goal, with the
\* cost of the cheapest way to it, and every cell of it costs what the cell
\* before and the move to it cost.  An entry improved in the heap and one that
\* is skipped as outdated do no harm.
THEOREM PathsAreShortest == Spec => []PathIsShortest
<1> DEFINE Inv == RouteInv /\ CostInv /\ PathInvTight
<1>1. Init => CostInv /\ PathInvTight
  BY CostInvInitially DEF Init, PathInvTight
<1>2. RouteInv /\ CostInv /\ PathInvTight /\ [Next]_vars
        => CostInv' /\ PathInvTight'
  BY CostInvKept, TightKept DEF RouteInv, JobInv
<1>3. Spec => [](RouteInv /\ CostInv /\ PathInvTight)
  BY <1>1, <1>2, RoutesAreKept, PTL DEF Spec
<1>4. RouteInv /\ CostInv /\ PathInvTight => PathIsShortest
  <2> SUFFICES ASSUME RouteInv, CostInv, PathInvTight,
                      phase = "simplify", index = 1
               PROVE  /\ <<goal, costs[goal]>> \in Cheapest[Width * Height]
                      /\ \A i \in 1..Len(path) - 1 :
                           costs[path[i + 1]] =
                             costs[path[i]] + MoveCost(path[i], path[i + 1])
    BY DEF PathIsShortest
  <2>1. /\ costs \in [Cells -> Nat] /\ costs[start] = 0 /\ start \in Cells
        /\ path[1] = start /\ path[Len(path)] = goal
    BY DEF RouteInv, TreeInv, CostInv, PassInv, Route
  <2>2. PICK p \in Potentials(Moves, start, reached, costs) :
          Tight(path, costs, p, Moves)
    BY DEF PathInvTight
  <2>3. /\ Len(path) \in Nat \ {0} /\ Len(path) <= Width * Height
        /\ Width * Height \in Nat
    <3>1. Len(path) <= Width * Height
      BY <2>1, <2>2, PathIsShort
    <3>2. Len(path) \in Nat \ {0}
      BY <2>2, CellularEnds DEF Tight
    <3>3. Width * Height \in Nat
      BY MapAssumption
    <3>4. QED
      BY <3>1, <3>2, <3>3
  <2>4. /\ Width * Height \in 0..Width * Height
        /\ Len(path) \in 1..Len(path) /\ Len(path) <= Width * Height + 1
    BY <2>3
  <2>5. <<path[Len(path)], costs[path[Len(path)]]>> \in Cheapest[Width * Height]
    BY <2>1, <2>2, <2>4, TightIsCheapest
  <2>6. QED
    BY <2>1, <2>2, <2>5 DEF Tight
<1>5. QED
  BY <1>3, <1>4, PTL
=============================================================================
