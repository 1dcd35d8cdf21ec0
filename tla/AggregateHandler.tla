--------------------------- MODULE AggregateHandler ---------------------------
(***************************************************************************)
(* The handler that #[command_handler] generates for one aggregate         *)
(* (angzarr-macros/src/lib.rs, expand_aggregate), serving several requests *)
(* at once, and the coordinator that keeps the aggregate's events, sends   *)
(* the requests and persists what they answer (external).                  *)
(*                                                                         *)
(* The state of the aggregate is a value of States that #[applies] methods *)
(* change; events are known by their type.  A type in Undecodable stands   *)
(* for an event whose bytes do not decode as the message its URL names.    *)
(***************************************************************************)
EXTENDS Integers, Sequences

CONSTANTS
  Workers,         \* requests served at once
  Types,           \* event types
  Applied,         \* types with an #[applies] method
  FactTypes,       \* types with a #[handles_fact] method
  Undecodable,     \* types whose payload does not decode
  States,          \* values of the state type
  NoState,         \* not a state
  Initial,         \* what #[state_factory], or else Default, returns
  Default,         \* the value that protobuf encodes as no bytes at all
  Apply(_, _),     \* Apply(s, t): what the #[applies] method of t makes of s
  SendsSnapshots,  \* command books start from the latest snapshot
  MaxLog,          \* bound: how many events are persisted at most
  MaxPages,        \* bound: how many events one method emits at most
  MaxFacts         \* bound: how many facts one request carries at most

ASSUME HandlerAssumption ==
  /\ Applied \subseteq Types
  /\ FactTypes \subseteq Types
  /\ Undecodable \subseteq Types
  /\ NoState \notin States
  /\ Initial \in States
  /\ Default \in States
  /\ \A s \in States, t \in Types : Apply(s, t) \in States
  /\ SendsSnapshots \in BOOLEAN
  /\ MaxLog \in Nat
  /\ MaxPages \in Nat
  /\ MaxFacts \in Nat

VARIABLES
  log,    \* the coordinator's events of the aggregate, as in AtomicAggregate
  truth,  \* history: truth[i + 1] is the state the first i events add up to
  snap,   \* the latest snapshot: its state, and how many events it covers
  calls   \* calls[w]: the request a worker serves

vars == <<log, truth, snap, calls>>

\* "command" is a command or a rejection notification: dispatch treats both
\* alike up to the method it ends in.
Kinds == {"command", "fact", "replay"}

Idle == [kind |-> "idle"]

UpTo(S, n) == UNION {[1 .. k -> S] : k \in 0 .. n}

\* What an event does to the state: nothing without an #[applies] method.
Effect(s, t) == IF t \in Applied \ Undecodable THEN Apply(s, t) ELSE s

\* The aggregate this module implements.
Aggregate == INSTANCE AtomicAggregate

-----------------------------------------------------------------------------
Init ==
  /\ log = <<>>
  /\ truth = <<Initial>>
  /\ snap = [state |-> Initial, covers |-> 0]
  /\ calls = [w \in Workers |-> Idle]

Pages(from) == [i \in 1 .. Len(log) - from |-> log[from + i].type]

\* A snapshot is sent with every replay, and with every other book if the
\* coordinator loads aggregates from their snapshots.
FirstPage(kind) ==
  IF kind = "replay" \/ SendsSnapshots THEN snap.covers ELSE 0

\* Mutant of StartState: a replay does not look at its base snapshot either.
StartState_Initial(kind, from) == Initial

\* Where rebuilding starts.  dispatch and __angzarr_dispatch_fact know of no
\* snapshot; __angzarr_dispatch_replay decodes the one it is sent unless that
\* encodes to nothing.
StartState(kind, from) ==
  IF kind = "replay" /\ from > 0 /\ snap.state # Default
    THEN snap.state
    ELSE Initial

\* The coordinator sends the book as it stands (external); the worker has
\* constructed the state it rebuilds from.
Receive(w) ==
  /\ calls[w] = Idle
  /\ \E kind \in Kinds : \E facts \in UpTo(Types, MaxFacts) :
       /\ kind # "fact" => facts = <<>>
       /\ calls' = [calls EXCEPT ![w] =
            [kind  |-> kind,
             from  |-> FirstPage(kind),
             book  |-> Pages(FirstPage(kind)),
             next  |-> Len(log),
             idx   |-> 1,
             state |-> StartState(kind, FirstPage(kind)),
             facts |-> facts,
             fIdx  |-> 1,
             left  |-> <<>>,
             out   |-> <<>>,
             reply |-> "none"]]
  /\ UNCHANGED <<log, truth, snap>>

\* Worker w runs a request of one of the kinds.
Serving(w, kinds) == calls[w].kind \in kinds /\ calls[w].reply = "none"

Rebuilding(w) ==
  Serving(w, Kinds) /\ calls[w].idx <= Len(calls[w].book)
Rebuilt(w, kind) ==
  Serving(w, {kind}) /\ calls[w].idx > Len(calls[w].book)

\* Mutant of ApplyPage: each page is applied to the initial state.
ApplyPage_Restarts(w) ==
  /\ Rebuilding(w)
  /\ calls[w].book[calls[w].idx] \in Applied \ Undecodable
  /\ calls' = [calls EXCEPT
       ![w].state = Apply(Initial, calls[w].book[calls[w].idx]),
       ![w].idx   = @ + 1]
  /\ UNCHANGED <<log, truth, snap>>

\* Mutant of ApplyPage: the loop steps over the page after an applied one.
ApplyPage_StepsOver(w) ==
  /\ Rebuilding(w)
  /\ calls[w].book[calls[w].idx] \in Applied \ Undecodable
  /\ calls' = [calls EXCEPT
       ![w].state = Apply(calls[w].state, calls[w].book[calls[w].idx]),
       ![w].idx   = @ + 2]
  /\ UNCHANGED <<log, truth, snap>>

\* The loop over the prior pages, the same in all three dispatch functions.
ApplyPage(w) ==
  /\ Rebuilding(w)
  /\ calls[w].book[calls[w].idx] \in Applied \ Undecodable
  /\ calls' = [calls EXCEPT
       ![w].state = Apply(calls[w].state, calls[w].book[calls[w].idx]),
       ![w].idx   = @ + 1]
  /\ UNCHANGED <<log, truth, snap>>

\* No #[applies] method matches, or the page carries no event.
SkipPage(w) ==
  /\ Rebuilding(w)
  /\ calls[w].book[calls[w].idx] \notin Applied
  /\ calls' = [calls EXCEPT ![w].idx = @ + 1]
  /\ UNCHANGED <<log, truth, snap>>

\* Mutant of PageDoesNotDecode: such a page is skipped like an unknown one.
PageDoesNotDecode_Skips(w) ==
  /\ Rebuilding(w)
  /\ calls[w].book[calls[w].idx] \in Applied \cap Undecodable
  /\ calls' = [calls EXCEPT ![w].idx = @ + 1]
  /\ UNCHANGED <<log, truth, snap>>

\* ANY_DECODE_FAILED: the whole dispatch fails.
PageDoesNotDecode(w) ==
  /\ Rebuilding(w)
  /\ calls[w].book[calls[w].idx] \in Applied \cap Undecodable
  /\ calls' = [calls EXCEPT ![w].reply = "error"]
  /\ UNCHANGED <<log, truth, snap>>

\* The #[handles] method decides, or rejects; so does the #[rejected] one.
\* A notification that matches none is answered with an empty book.
Decide(w) ==
  /\ Rebuilt(w, "command")
  /\ \/ \E ts \in UpTo(Types \ Undecodable, MaxPages) :
          calls' = [calls EXCEPT ![w].out = ts, ![w].reply = "events"]
     \/ calls' = [calls EXCEPT ![w].reply = "error"]
  /\ UNCHANGED <<log, truth, snap>>

Fact(w) == calls[w].facts[calls[w].fIdx]

FactsLeft(w) ==
  Rebuilt(w, "fact") /\ calls[w].fIdx <= Len(calls[w].facts)

\* Mutant of HandleFact: the fact is applied to the state before the next one.
HandleFact_Applies(w) ==
  /\ FactsLeft(w)
  /\ Fact(w) \in FactTypes \ Undecodable
  /\ \/ \E ts \in UpTo(Types \ Undecodable, MaxPages) :
          calls' = [calls EXCEPT ![w].out = @ \o ts, ![w].fIdx = @ + 1,
                                 ![w].state = Effect(@, Fact(w))]
     \/ calls' = [calls EXCEPT ![w].out = <<>>, ![w].reply = "error"]
  /\ UNCHANGED <<log, truth, snap>>

\* The #[handles_fact] method of the next fact emits events, or rejects.  It
\* is given the state rebuilt from the prior events, which it cannot change.
HandleFact(w) ==
  /\ FactsLeft(w)
  /\ Fact(w) \in FactTypes \ Undecodable
  /\ \/ \E ts \in UpTo(Types \ Undecodable, MaxPages) :
          calls' = [calls EXCEPT ![w].out = @ \o ts, ![w].fIdx = @ + 1]
     \/ calls' = [calls EXCEPT ![w].out = <<>>, ![w].reply = "error"]
  /\ UNCHANGED <<log, truth, snap>>

\* No method for it: skipped, to be persisted by the coordinator as it is.
PassFact(w) ==
  /\ FactsLeft(w)
  /\ Fact(w) \notin FactTypes
  /\ calls' = [calls EXCEPT ![w].left = Append(@, Fact(w)), ![w].fIdx = @ + 1]
  /\ UNCHANGED <<log, truth, snap>>

FactDoesNotDecode(w) ==
  /\ FactsLeft(w)
  /\ Fact(w) \in FactTypes \cap Undecodable
  /\ calls' = [calls EXCEPT ![w].out = <<>>, ![w].reply = "error"]
  /\ UNCHANGED <<log, truth, snap>>

FactsDone(w) ==
  /\ Rebuilt(w, "fact")
  /\ calls[w].fIdx > Len(calls[w].facts)
  /\ calls' = [calls EXCEPT ![w].reply = "events"]
  /\ UNCHANGED <<log, truth, snap>>

\* ReplayResponse with the packed state.
ReplayDone(w) ==
  /\ Rebuilt(w, "replay")
  /\ calls' = [calls EXCEPT ![w].reply = "state"]
  /\ UNCHANGED <<log, truth, snap>>

-----------------------------------------------------------------------------
(* The coordinator (external).                                             *)

Persist(ts, by, seen) ==
  /\ Len(log) + Len(ts) <= MaxLog
  /\ log' = log \o [k \in DOMAIN ts |-> [type |-> ts[k], by |-> by, seen |-> seen]]
  /\ truth' \in [1 .. Len(log') + 1 -> States]
  /\ \A i \in DOMAIN truth : truth'[i] = truth[i]
  /\ Aggregate!IsHistory(truth', log')
  /\ UNCHANGED snap

\* Events a command or a rejection was answered with are persisted if the log
\* still ends where the book said (MERGE_STRICT).
CommitDecision(w) ==
  /\ calls[w].kind = "command"
  /\ calls[w].reply = "events"
  /\ calls[w].next = Len(log)
  /\ Persist(calls[w].out, "command", calls[w].state)
  /\ calls' = [calls EXCEPT ![w] = Idle]

\* Facts are numbered when they are persisted: the events they were answered
\* with and, as they are, the facts nobody handled.
CommitFacts(w) ==
  /\ calls[w].kind = "fact"
  /\ calls[w].reply = "events"
  /\ Persist(calls[w].out \o calls[w].left, "fact", NoState)
  /\ calls' = [calls EXCEPT ![w] = Idle]

\* The state of a replay becomes the next snapshot.
TakeSnapshot(w) ==
  /\ calls[w].kind = "replay"
  /\ calls[w].reply = "state"
  /\ snap' = [state |-> calls[w].state, covers |-> calls[w].next]
  /\ calls' = [calls EXCEPT ![w] = Idle]
  /\ UNCHANGED <<log, truth>>

\* An error, a sequence conflict, or a coordinator that lost the reply.
Discard(w) ==
  /\ calls[w] # Idle
  /\ calls[w].reply # "none"
  /\ calls' = [calls EXCEPT ![w] = Idle]
  /\ UNCHANGED <<log, truth, snap>>

HandlerStep(w) ==
  \/ ApplyPage(w)
  \/ SkipPage(w)
  \/ PageDoesNotDecode(w)
  \/ Decide(w)
  \/ HandleFact(w)
  \/ PassFact(w)
  \/ FactDoesNotDecode(w)
  \/ FactsDone(w)
  \/ ReplayDone(w)

Next ==
  \E w \in Workers :
    \/ Receive(w)
    \/ HandlerStep(w)
    \/ CommitDecision(w)
    \/ CommitFacts(w)
    \/ TakeSnapshot(w)
    \/ Discard(w)

Spec == Init /\ [][Next]_vars

-----------------------------------------------------------------------------
(* Properties.                                                             *)

CallRecords ==
  [kind  : Kinds,
   from  : Nat,
   book  : Seq(Types),
   next  : Nat,
   idx   : Nat \ {0},
   state : States,
   facts : Seq(Types),
   fIdx  : Nat \ {0},
   left  : Seq(Types),
   out   : Seq(Types \ Undecodable),
   reply : {"none", "error", "events", "state"}]

TypeOK ==
  /\ log \in Seq([type : Types, by : {"command", "fact"},
                  seen : States \cup {NoState}])
  /\ truth \in Seq(States)
  /\ snap \in [state : States, covers : 0 .. Len(log)]
  /\ calls \in [Workers -> {Idle} \cup CallRecords]
  /\ \A w \in Workers :
       calls[w] # Idle =>
         /\ calls[w].idx <= Len(calls[w].book) + 1
         /\ calls[w].fIdx <= Len(calls[w].facts) + 1

\* Whatever was persisted since, a handler method runs on the state that the
\* events before its request's next_sequence add up to: rebuilding from the
\* book, and from the base snapshot of a replay, is the same as having applied
\* every event, and no fact of a request sees the events of an earlier one.
MethodsSeeTheirHistory ==
  \A w \in Workers : \A kind \in Kinds :
    Rebuilt(w, kind) => calls[w].state = truth[calls[w].next + 1]

\* The state a snapshot stores is the state the events it covers add up to,
\* however many replays on top of one another it comes from.
SnapshotIsTrue == snap.state = truth[snap.covers + 1]

\* A persisted event that an #[applies] method cannot decode ends the
\* aggregate's commands: every later rebuild fails on it, and a decision that
\* was under way does not get past the sequence check.
PoisonEndsCommands ==
  \A i, j \in DOMAIN log :
    i < j /\ log[i].type \in Applied \cap Undecodable => log[j].by = "fact"

\* Requests in flight together are decided as if one after the other, each on
\* the state of the whole log: the handler implements AtomicAggregate.
AggregateSpec == Aggregate!Spec

-----------------------------------------------------------------------------
(* What tests and comments say that the code does not do.                  *)

\* The state-building tests: with a snapshot in the book, the state starts
\* from the snapshot, and equals it if there are no pages after it.
StateStartsFromSnapshot ==
  \A w \in Workers :
    Rebuilt(w, "command") /\ calls[w].from > 0 /\ calls[w].book = <<>>
      => calls[w].state = truth[calls[w].from + 1]
=============================================================================
