--------------------------- MODULE MCValidationRun ---------------------------
(* Two stages of every combination of kinds, front end and abort policy.   *)
EXTENDS ValidationRun
=============================================================================
