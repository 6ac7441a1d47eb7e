--------------------------- MODULE MCThermalRunner ---------------------------
(* Two drives, and a second run by the same runner.                        *)
EXTENDS ThermalRunner
=============================================================================
