------------------------------ MODULE MCTeleop ------------------------------
(***************************************************************************)
(* Instances of Teleop: the sticks centred, drifting, and held ahead, to   *)
(* the side, and so as to turn while one drifts.                           *)
(***************************************************************************)
EXTENDS Teleop

Report(drift, held) ==
  [s \in Sticks |-> IF s \in held THEN "held"
                    ELSE IF s \in drift THEN "drift" ELSE "centre"]

SomeSamples == {Report({}, {}), Report({"lx", "ry"}, {}), Report({}, {"ly"}),
                Report({"ly"}, {"lx"}), Report({"lx"}, {"ly", "rx"})}
=============================================================================
