----------------------------- MODULE BoundedRetry -----------------------------
(***************************************************************************)
(* What a retry policy promises whoever makes a call (retry.rs): at most   *)
(* `limit` tries, the first success ends the call, a failure ends it only *)
(* after the last try, or before the first when trying makes no sense.     *)
(* The same caller may call again.  Connection.tla and CommandClient.tla   *)
(* implement it.                                                           *)
(***************************************************************************)
EXTENDS Naturals

VARIABLES
  limit,     \* max_attempts, of this call
  hopeless,  \* whether trying makes no sense, for this call
  tries,     \* tries that ended, in this call
  outcome    \* "none" while the call runs, then "ok" or "failed"

vars == <<limit, hopeless, tries, outcome>>

Init == limit \in Nat /\ hopeless \in BOOLEAN /\ tries = 0 /\ outcome = "none"

\* A try succeeds.
Succeed ==
  /\ outcome = "none" /\ tries < limit /\ ~hopeless
  /\ tries' = tries + 1 /\ outcome' = "ok"
  /\ UNCHANGED <<limit, hopeless>>

\* A try fails; the call does with the last one.
Fail ==
  /\ outcome = "none" /\ tries < limit /\ ~hopeless
  /\ tries' = tries + 1
  /\ outcome' = IF tries' = limit THEN "failed" ELSE "none"
  /\ UNCHANGED <<limit, hopeless>>

\* The call fails before it tries.
Refuse ==
  /\ outcome = "none" /\ tries = 0
  /\ hopeless \/ limit = 0
  /\ outcome' = "failed"
  /\ UNCHANGED <<limit, hopeless, tries>>

\* The next call.
Again ==
  /\ outcome # "none"
  /\ limit' \in Nat /\ hopeless' \in BOOLEAN /\ tries' = 0 /\ outcome' = "none"

Next == Succeed \/ Fail \/ Refuse \/ Again

Spec == Init /\ [][Next]_vars
===============================================================================
