---------------------------- MODULE OncePerTrigger ----------------------------
(***************************************************************************)
(* What Destinations::deferred_header promises of a saga's commands: a     *)
(* trigger that is delivered again is a no-op at the destination.  Nothing *)
(* is said about the bus, headers or retries: a trigger takes its place in *)
(* the history of a target once, and the place is never taken away.        *)
(* SagaDelivery.tla implements it.                                         *)
(***************************************************************************)
EXTENDS Naturals

CONSTANTS
  Triggers,  \* events that a saga reacts to
  Targets    \* aggregates that receive its commands

VARIABLE
  places  \* <<e, t, i>>: trigger e took effect at position i of t's history

Init == places = {}

\* The command of one trigger takes effect.
Take(e, t, i) ==
  /\ \A p \in places : <<p[1], p[2]>> # <<e, t>>
  /\ places' = places \cup {<<e, t, i>>}

\* Any place may be next; what a step takes is what it adds.
Next ==
  \E p \in places' \ places :
    /\ p \in Triggers \X Targets \X Nat
    /\ Take(p[1], p[2], p[3])

Spec == Init /\ [][Next]_places
=============================================================================
