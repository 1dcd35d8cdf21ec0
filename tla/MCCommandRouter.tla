--------------------------- MODULE MCCommandRouter ---------------------------
(* Small instances of CommandRouter: the handler configurations offered.   *)
EXTENDS CommandRouter

CONSTANTS d1, d2, t1, t2, k1

\* Handlers of two domains that may declare the one command type, once or
\* twice, and the one rejection key; two that opt in to facts or to replay;
\* and a saga to mix in.
Handlers ==
  [kind : {"CommandHandler"}, domain : {d1, d2},
   handled : {<<>>, <<t1>>, <<t1, t1>>}, rejected : SUBSET {k1},
   facts : {{}}, replay : {FALSE}]

Fact(d, ts, replay) ==
  [kind |-> "CommandHandler", domain |-> d, handled |-> <<>>, rejected |-> {},
   facts |-> ts, replay |-> replay]

AllConfigs ==
  Handlers
    \cup {Fact(d1, {t1}, FALSE), Fact(d2, {t2}, TRUE)}
    \cup [kind : {"Saga"}, domain : {d1}, handled : {<<t1>>}]

\* Handlers of two domains that may declare facts.
FactConfigs == {Fact(d, ts, FALSE) : d \in {d1, d2}, ts \in SUBSET {t1, t2}}
=============================================================================
