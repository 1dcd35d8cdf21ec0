-------------------------- MODULE MCAggregateHandler --------------------------
(* Small instances of AggregateHandler: a counter that stops at 2.         *)
EXTENDS AggregateHandler, TLC

CONSTANTS w1, w2, inc, reset, note, garbled, spoiled

CounterStates == 0 .. 2

\* inc counts up, reset goes back to 0; note has no #[applies] method and
\* garbled, which has one, does not decode; nor does spoiled, which has a
\* #[handles_fact] method.
CounterApply(s, t) ==
  IF t = inc THEN (IF s < 2 THEN s + 1 ELSE 2) ELSE 0

Symmetry == Permutations(Workers)
=============================================================================
