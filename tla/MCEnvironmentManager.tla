------------------------ MODULE MCEnvironmentManager ------------------------
(* Two managers, one of which may start while an installer of the other is *)
(* still running.                                                          *)
EXTENDS EnvironmentManager
=============================================================================
