---------------------------- MODULE MCGridSearch ----------------------------
(***************************************************************************)
(* Maps of 3 by 3 cells with at most MaxOccupied occupied and MaxUnknown   *)
(* unknown cells, costs in tenths of a cell.                               *)
(***************************************************************************)
EXTENDS GridSearch

CONSTANTS MaxOccupied, MaxUnknown

Holding(g, value) == Cardinality({c \in Cells : g[c] = value})
SmallGrids ==
  {g \in [Cells -> {"free", "occupied", "unknown"}] :
     Holding(g, "occupied") <= MaxOccupied /\ Holding(g, "unknown") <= MaxUnknown}

SomeStarts == {<<0, 0>>, <<1, 0>>}

\* The whole tenths of the distance between two cells.
StraightLine ==
  [pair \in Cells \X Cells |->
     LET x == Distance(pair[1][1], pair[2][1])
         y == Distance(pair[1][2], pair[2][2])
     IN Max({n \in 0..10 * (Width + Height) :
               n * n <= 100 * (x * x + y * y)})]
=============================================================================
