--------------------------- MODULE MCAdmissionGate ---------------------------
(* Two guards against the two processes that revoke a stage's admission.   *)
EXTENDS AdmissionGate, TLC

CONSTANTS g1, g2, primary, supervisor

MCGuards == {g1, g2}
MCRevokers == {primary, supervisor}
=============================================================================
