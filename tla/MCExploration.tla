--------------------------- MODULE MCExploration ---------------------------
(***************************************************************************)
(* Instances of Exploration.                                               *)
(*                                                                         *)
(* Two places on two map geometries: the second map starts one cell        *)
(* further along, so "door" has there the index that "hall" has in the     *)
(* first map, and "hall" lies outside it.                                  *)
(***************************************************************************)
EXTENDS Exploration

TwoPlaces == {"door", "hall"}
TwoGeoms == {"m1", "m2"}
TwoInMap == [g \in TwoGeoms |-> IF g = "m1" THEN TwoPlaces ELSE {"door"}]
TwoIndex == [g \in TwoGeoms |-> [p \in TwoPlaces |->
               (IF p = "door" THEN 1 ELSE 2) + (IF g = "m1" THEN 0 ELSE 1)]]

\* One place, inside one map and outside the other: enough for an external
\* goal to meet a frontier plan, a geometry change and its own rejection.
OnePlace == {"door"}
OneInMap == [g \in TwoGeoms |-> IF g = "m1" THEN OnePlace ELSE {}]
OneIndex == [g \in TwoGeoms |-> [p \in OnePlace |-> 1]]
=============================================================================
