---------------------------- MODULE MCCommandClient ----------------------------
EXTENDS CommandClient, TLC

CONSTANTS a, b

Draft(strategy, dry) ==
  [command |-> TRUE, sequence |-> TRUE, strategy |-> strategy, dry |-> dry, id |-> <<>>]

\* A command that conflicts with others, one that leaves conflicts to the
\* aggregate, a dry run, builders that lack something; and a second writer.
MCDrafts ==
  (a :> {Draft("default", FALSE), Draft("aggregate_handles", FALSE), Draft("default", TRUE),
         [Draft("default", FALSE) EXCEPT !.sequence = FALSE],
         [Draft("default", FALSE) EXCEPT !.command = FALSE, !.id = <<"trace">>]}) @@
  (b :> {Draft("strict", FALSE), Draft("default", FALSE)})

\* The whole history, a selection that replaces another, a time that does not
\* parse, the events of a correlation.
MCChains ==
  {<<>>,
   <<[by |-> "sequence", seq |-> 0], [by |-> "range", lower |-> 1]>>,
   <<[by |-> "time", valid |-> FALSE]>>,
   <<[by |-> "range_to", lower |-> 0, upper |-> 0], [by |-> "correlation", id |-> <<"new", a, 1>>]>>}
================================================================================
