---------------------------- MODULE MCEventRouter ----------------------------
(* Small instances of EventRouter: the handler configurations offered.     *)
EXTENDS EventRouter

CONSTANTS d1, d2, t1, t2, k1, p1, x1, x2

Config(kind, sources, handled, applies, targets, sync, rejected) ==
  [kind |-> kind, domain |-> CHOOSE d \in sources : TRUE, sources |-> sources,
   handled |-> handled, applies |-> applies, targets |-> targets,
   syncTargets |-> sync, rejected |-> rejected]

\* Sagas of two sources that reach one target in either mode.
Sagas ==
  {Config("Saga", {d}, <<t1>>, {}, {x1}, sync, {}) : d \in {d1, d2}, sync \in SUBSET {x1}}

\* Process managers over one or two sources, with and without an #[applies]
\* method, and one that sends to two targets.
ProcessManagers ==
  {Config("ProcessManager", {d1, d2}, <<t1, t2>>, {p1}, {x1, x2}, {x1}, {}),
   Config("ProcessManager", {d1}, <<t1>>, {}, {x1}, {x1}, {}),
   Config("ProcessManager", {d2}, <<t2>>, {p1}, {x1}, {}, {k1})}

AllConfigs == Sagas \cup ProcessManagers

\* A saga and a process manager that declare a rejection.
RejectionConfigs ==
  {Config("Saga", {d1}, <<t1>>, {}, {x1}, {x1}, {k1}),
   Config("ProcessManager", {d1}, <<t1>>, {p1}, {x1}, {x1}, {k1})}
=============================================================================
