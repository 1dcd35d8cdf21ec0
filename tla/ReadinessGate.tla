--------------------------- MODULE ReadinessGate ---------------------------
(***************************************************************************)
(* What a hosted service promises about its health names, with nothing    *)
(* said about probes, tasks or sockets: a name is shown as SERVING only    *)
(* while the gate is open; the gate opens once, and when it closes every   *)
(* name is withdrawn with it and none is ever shown again.                 *)
(* Runner.tla (run_kind and run_supervisor) implements it.                 *)
(***************************************************************************)

CONSTANT Names  \* the health service names that are published

VARIABLES
  gate,   \* "starting", then "open", then "closed"
  shown   \* shown[n]: the name n is advertised as SERVING

gateVars == <<gate, shown>>

Init ==
  /\ gate = "starting"
  /\ shown = [n \in Names |-> FALSE]

Open ==
  /\ gate = "starting"
  /\ gate' = "open"
  /\ UNCHANGED shown

Show(n) ==
  /\ gate = "open"
  /\ shown' = [shown EXCEPT ![n] = TRUE]
  /\ UNCHANGED gate

Withdraw(n) ==
  /\ gate # "closed"
  /\ shown' = [shown EXCEPT ![n] = FALSE]
  /\ UNCHANGED gate

Close ==
  /\ gate = "open"
  /\ gate' = "closed"
  /\ shown' = [n \in Names |-> FALSE]

Next ==
  \/ Open
  \/ Close
  \/ \E n \in Names : Show(n) \/ Withdraw(n)

Spec == Init /\ [][Next]_gateVars
=============================================================================
