--------------------------- MODULE MCStageSession ----------------------------
(* Stage sessions on small installations.                                  *)
EXTENDS StageSession

CONSTANTS d1, d2
MCOneDevice == {d1}
MCTwoDevices == {d1, d2}
=============================================================================
