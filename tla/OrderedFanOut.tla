---------------------------- MODULE OrderedFanOut ----------------------------
(***************************************************************************)
(* What a router promises of one dispatch, whatever the kind of handler:   *)
(* the handlers that match are settled when the request arrives, they run  *)
(* one after the other in registration order, each at most once, and the   *)
(* reply stands for all of them or, when one fails, for none.              *)
(***************************************************************************)
EXTENDS Integers

CONSTANT Slots  \* the registration positions, a set of naturals

VARIABLES
  phase,   \* "idle", "running", "ok" or "failed"
  todo,    \* positions that match and have not run
  served   \* positions the reply stands for

fanVars == <<phase, todo, served>>

Init ==
  /\ phase = "idle"
  /\ todo = {}
  /\ served = {}

\* A request arrives: it is refused at once, or its handlers are settled.
Accept ==
  /\ phase # "running"
  /\ \/ phase' = "failed" /\ todo' = {}
     \/ phase' = "running" /\ todo' \in SUBSET Slots
  /\ served' = {}

\* The first of the matching handlers runs; after the last one the reply may
\* be given at once.
Run ==
  /\ phase = "running"
  /\ \E i \in todo :
       /\ \A j \in todo : i <= j
       /\ todo' = todo \ {i}
       /\ served' = served \cup {i}
  /\ phase' = "running" \/ (phase' = "ok" /\ todo' = {})

\* A handler fails, or nobody matched and that is an error: whatever was done
\* so far is dropped from the reply.
Fail ==
  /\ phase = "running"
  /\ phase' = "failed"
  /\ todo' = {}
  /\ served' = {}

Reply ==
  /\ phase = "running"
  /\ todo = {}
  /\ phase' = "ok"
  /\ UNCHANGED <<todo, served>>

Next == Accept \/ Run \/ Fail \/ Reply

Spec == Init /\ [][Next]_fanVars
=============================================================================
