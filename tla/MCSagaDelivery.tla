--------------------------- MODULE MCSagaDelivery ---------------------------
EXTENDS SagaDelivery, TLC

CONSTANTS r1, r2, t1, t2, t3

\* t1 and t2 are aggregates of one domain.
MCDomain == (t1 :> "inventory") @@ (t2 :> "inventory") @@ (t3 :> "payment")

Draft(t, style, strategy) ==
  [target |-> t, package |-> "examples", name |-> IF t = t3 THEN "Pay" ELSE "Reserve",
   style |-> style, strategy |-> strategy]

Plan(first, second, crowded) ==
  [drafts |-> [e \in Triggers |-> IF e.seq = 1 THEN first ELSE second],
   crowded |-> crowded]

\* Two triggers that meet at a target; a saga with two destinations; a target
\* that others write to, numbered from its book; stamps by domain, over a
\* deferred header too.
MCPlans ==
  {Plan({Draft(t1, "deferred", "commutative")}, {Draft(t1, "deferred", "strict")}, {}),
   Plan({Draft(t1, "deferred", "commutative"), Draft(t3, "deferred", "strict")}, {}, {t3}),
   Plan({Draft(t1, "booked", "strict")}, {}, {t1}),
   Plan({Draft(t2, "stamped", "commutative")}, {}, {t1}),
   Plan({Draft(t3, "restamped", "aggregate_handles")}, {Draft(t3, "unset", "strict")}, {})}

MCRejected == {<<"inventory", "Reserve">>}
=============================================================================
