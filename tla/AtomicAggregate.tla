--------------------------- MODULE AtomicAggregate ---------------------------
(***************************************************************************)
(* What an event-sourced aggregate promises, with nothing said about       *)
(* requests, event books or rebuilding: its log only grows, a command is   *)
(* decided in one step on the state that the whole log adds up to, and a   *)
(* fact is recorded whatever the state is.                                 *)
(* AggregateHandler.tla (the generated handlers) implements it.            *)
(***************************************************************************)
EXTENDS Integers, Sequences

CONSTANTS
  Types,     \* event types
  States,    \* states of the aggregate
  NoState,   \* what a fact is decided on
  Initial,   \* the state of the empty log
  Effect(_, _)  \* Effect(s, t): the state after an event of type t in state s

VARIABLES
  log,   \* the persisted events: their type, what they came by ("command" or
         \* "fact") and the state they were decided on
  truth  \* truth[i + 1]: the state the first i events add up to

aggregateVars == <<log, truth>>

IsHistory(t, l) ==
  /\ DOMAIN t = 1 .. Len(l) + 1
  /\ t[1] = Initial
  /\ \A i \in 1 .. Len(l) : t[i + 1] = Effect(t[i], l[i].type)

\* log' adds events that came by one request, decided on one state.
Grows(by, seen) ==
  /\ \A i \in DOMAIN log : i \in DOMAIN log' /\ log'[i] = log[i]
  /\ \A i \in DOMAIN log' \ DOMAIN log :
       /\ log'[i].type \in Types
       /\ log'[i].by = by
       /\ log'[i].seen = seen
  /\ IsHistory(truth', log')

Init == log = <<>> /\ truth = <<Initial>>

Decide == Grows("command", truth[Len(log) + 1])
Record == Grows("fact", NoState)

Next == Decide \/ Record

Spec == Init /\ [][Next]_aggregateVars
=============================================================================
