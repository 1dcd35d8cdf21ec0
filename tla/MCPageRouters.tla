---------------------------- MODULE MCPageRouters ----------------------------
(* Small instances of PageRouters: handlers and pages offered.             *)
EXTENDS PageRouters

CONSTANTS d1, d2, v1, v2, v3

Projector(domains, handled) ==
  [kind |-> "Projector", domains |-> domains, handled |-> handled, upcasts |-> <<>>]

Upcaster(d, upcasts) ==
  [kind |-> "Upcaster", domains |-> {d}, handled |-> <<>>, upcasts |-> upcasts]

\* Projectors of the log's domain, of any and of another, and upcasters that
\* make one version step, both steps, or a step in another domain.
AllConfigs ==
  {Projector({d1}, <<v1, v2>>), Projector({AnyDomain}, <<v1>>), Projector({d2}, <<v1>>),
   Upcaster(d1, <<<<v1, v2>>>>), Upcaster(d1, <<<<v2, v3>>>>),
   Upcaster(d1, <<<<v1, v2>>, <<v2, v3>>>>), Upcaster(d2, <<<<v1, v3>>>>)}

AllPages ==
  {[type |-> v1, decodes |-> TRUE], [type |-> v1, decodes |-> FALSE],
   [type |-> v2, decodes |-> TRUE], NotAnEvent}
=============================================================================
