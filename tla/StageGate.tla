------------------------------ MODULE StageGate ------------------------------
(***************************************************************************)
(* What the stage admission gate promises, without locks, bytes or clocks. *)
(* The gate is open until somebody requests its closure; a closed gate     *)
(* never opens again.  A guard that entered while the gate was open may    *)
(* still be admitted after a request, but the gate cannot close around a   *)
(* guard that is inside, and once it is closed nobody is admitted.         *)
(*                                                                         *)
(* docs/storage_thermal_stage_integration.md calls this "authoritative     *)
(* revocation"; AdmissionGate shows that the memfd protocol implements it. *)
(***************************************************************************)
CONSTANT Guards

VARIABLES gate,      \* "open", "requested" or "closed"
          inside,    \* guards between their open check and their decision
          admitted   \* guards whose commit was decided

vars == <<gate, inside, admitted>>

TypeOK ==
  /\ gate \in {"open", "requested", "closed"}
  /\ inside \subseteq Guards
  /\ admitted \subseteq Guards

Init ==
  /\ gate = "open"
  /\ inside = {}
  /\ admitted = {}

\* A guard enters alone, and only through an open gate.
Enter(g) ==
  /\ gate = "open"
  /\ inside = {}
  /\ inside' = {g}
  /\ UNCHANGED <<gate, admitted>>

\* The guard inside is admitted and leaves.
Admit(g) ==
  /\ g \in inside
  /\ inside' = inside \ {g}
  /\ admitted' = admitted \cup {g}
  /\ UNCHANGED gate

\* The guard inside is refused, or dies.
Leave(g) ==
  /\ g \in inside
  /\ inside' = inside \ {g}
  /\ UNCHANGED <<gate, admitted>>

\* A closure request turns new entrants away at once.
Request ==
  /\ gate = "open"
  /\ gate' = "requested"
  /\ UNCHANGED <<inside, admitted>>

\* Closure waits for the guard inside; closing an open gate requests it as well.
Close ==
  /\ gate # "closed"
  /\ inside = {}
  /\ gate' = "closed"
  /\ UNCHANGED <<inside, admitted>>

Next ==
  \/ \E g \in Guards : Enter(g) \/ Admit(g) \/ Leave(g)
  \/ Request
  \/ Close

Spec == Init /\ [][Next]_vars
=============================================================================
