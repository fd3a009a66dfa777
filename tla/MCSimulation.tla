---------------------------- MODULE MCSimulation ----------------------------
(* Instances of Simulation: a callback asset and a polling asset, with a    *)
(* manual timing asset, or a slower callback asset, beside them.            *)
EXTENDS Simulation

CONSTANTS plant, viewer, script

MCAssets == {plant, viewer, script}
MCKind == [a \in MCAssets |-> IF a = plant THEN "callback" ELSE IF a = viewer THEN "polling" ELSE "manual"]
MCDelta == [a \in MCAssets |-> IF a = script THEN 2 ELSE 1]
=============================================================================
