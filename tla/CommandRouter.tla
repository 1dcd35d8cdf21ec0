---------------------------- MODULE CommandRouter ----------------------------
(***************************************************************************)
(* CommandHandlerRouter (src/router/runtime.rs) behind CommandHandlerGrpc  *)
(* (src/handler.rs): commands, rejection notifications, facts and replays, *)
(* each dispatched by a loop over the registered factories, one action per *)
(* iteration.  A dispatch shares nothing mutable with another, so one is   *)
(* followed at a time; the router may be any that build() accepts.         *)
(*                                                                         *)
(* What business code answers is a nondeterministic outcome, a number of   *)
(* pages.  The model follows the next_sequence each handler's request      *)
(* carries; a generated #[rejected] method is given the notification and   *)
(* the state only, so what it does with the sequence is left open.         *)
(***************************************************************************)
EXTENDS RouterBuilder, FiniteSets

CONSTANTS
  Domains,    \* domains of handlers and requests
  NoDomain,   \* the empty domain of a command book without a cover
  Types,      \* type URLs of commands and facts
  Keys,       \* rejection keys: (target domain, command name) pairs
  NoKey,      \* the key of a notification that names no rejected command
  MaxPages,   \* bound: how many pages a handler emits at most
  SeqLimit,   \* sequence numbers are 0..SeqLimit-1 and wrap (u32)
  FirstSeqs   \* the next_sequence values a request may start from

ASSUME RouterAssumption ==
  /\ \A c \in Configs :
       c.kind = "CommandHandler" =>
         /\ c.domain \in Domains
         /\ c.handled \in Seq(Types)
         /\ c.rejected \subseteq Keys
         /\ c.facts \subseteq Types
         /\ c.replay \in BOOLEAN
  /\ NoDomain \notin Domains
  /\ NoKey \notin Keys
  /\ MaxPages \in Nat
  /\ SeqLimit \in Nat \ {0}
  /\ FirstSeqs \subseteq 0 .. SeqLimit - 1

VARIABLES
  call,     \* the request being dispatched, or Idle
  at,       \* the factory the loop is at
  seq,      \* running_seq (u32; a release build wraps, a debug build panics)
  pages,    \* merged.pages: for each the factory whose handler emitted it
  reply,    \* what dispatch returned, or "none" while it runs
  handed,   \* history: the next_sequence each factory's handler was handed,
            \* NotRun for those not invoked in this call
  revoked   \* history: handlers that answered with a Revocation

callVars == <<call, at, seq, pages, reply, handed, revoked>>
vars     == <<builderVars, callVars>>

Idle   == [kind |-> "idle"]
NotRun == -1
Slots  == 1 .. MaxHandlers

\* hasBook: the ContextualCommand carries the aggregate's event book.
Commands ==
  [kind : {"command"}, domain : Domains \cup {NoDomain}, type : Types,
   hasBook : BOOLEAN, seq : FirstSeqs]

Notifications ==
  [kind : {"notification"}, domain : Domains, key : Keys \cup {NoKey},
   hasBook : BOOLEAN, seq : FirstSeqs]

Facts   == [kind : {"fact"}, domain : Domains, type : Types]
Replays == [kind : {"replay"}, domain : Domains]

\* Requests the extraction functions refuse: no book, page, payload, or a
\* payload that does not decode.
Malformed == [kind : {"malformed"}]

Requests == Commands \cup Notifications \cup Facts \cup Replays \cup Malformed

ErrorReplies ==
  {"malformed", "no_handler", "wrong_kind", "handler_error", "unimplemented"}
OkReplies == {"events", "fact_events", "state"}
Replies   == {"none"} \cup ErrorReplies \cup OkReplies

-----------------------------------------------------------------------------
RunSlots == {i \in DOMAIN handed : handed[i] # NotRun}

\* cmd.events.next_sequence, or 0 without a book.
InitialSeq(r) ==
  IF r.kind \in {"command", "notification"} /\ r.hasBook THEN r.seq ELSE 0

\* Mutant of HandedSeq: every handler gets the book the request came with.
HandedSeq_Unthreaded(r) == InitialSeq(r)

\* The sequence the handler at hand finds in its event book: the clone is
\* rewritten to running_seq, unless there is no book to rewrite.
HandedSeq(r) == IF r.hasBook THEN seq ELSE 0

\* n pages of the handler in slot i.
Emitted(i, n) == [k \in 1 .. n |-> i]

\* supports_handle_fact and supports_replay, the gates of the gRPC adapter.
SupportsFacts  == \E i \in DOMAIN factories : factories[i].facts # {}
SupportsReplay == \E i \in DOMAIN factories : factories[i].replay

\* Mutant of Matches: a command matches by its type URL alone.
Matches_AnyDomain(r, c) ==
  CASE r.kind = "command" -> \E n \in DOMAIN c.handled : c.handled[n] = r.type
    [] r.kind = "notification" -> r.key \in c.rejected
    [] OTHER -> TRUE

\* The test each loop makes of the factory it is at.
Matches(r, c) ==
  CASE r.kind = "command" ->
         c.domain = r.domain /\ \E n \in DOMAIN c.handled : c.handled[n] = r.type
    [] r.kind = "notification" -> r.key \in c.rejected
    [] OTHER -> TRUE

Init ==
  /\ BuilderInit
  /\ call = Idle
  /\ at = 1
  /\ seq = 0
  /\ pages = <<>>
  /\ reply = "none"
  /\ handed = [i \in Slots |-> NotRun]
  /\ revoked = {}

\* A request reaches the service: the adapter's gates and the extraction of
\* the type URL or rejection key come before the first factory.
Receive ==
  /\ built = "CommandHandler"
  /\ call = Idle \/ reply # "none"
  /\ \E r \in Requests :
       /\ call' = r
       /\ seq' = InitialSeq(r)
       /\ reply' = CASE r.kind = "malformed" -> "malformed"
                     [] r.kind = "fact" /\ ~SupportsFacts -> "unimplemented"
                     [] r.kind = "replay" /\ ~SupportsReplay -> "unimplemented"
                     [] OTHER -> "none"
  /\ at' = 1
  /\ pages' = <<>>
  /\ handed' = [i \in Slots |-> NotRun]
  /\ revoked' = {}
  /\ UNCHANGED builderVars

Dispatching == call # Idle /\ reply = "none"

AtMatch ==
  /\ Dispatching
  /\ at \in DOMAIN factories
  /\ Matches(call, factories[at])

\* continue: the produced handler does not match.
SkipFactory ==
  /\ Dispatching
  /\ at \in DOMAIN factories
  /\ ~Matches(call, factories[at])
  /\ at' = at + 1
  /\ UNCHANGED <<builderVars, call, seq, pages, reply, handed, revoked>>

\* handler.dispatch(..)? fails, or answers with the wrong response kind: the
\* whole dispatch returns that error and merged is dropped.
HandlerFails ==
  /\ AtMatch
  /\ handed' = [handed EXCEPT ![at] =
                  IF call.kind \in {"command", "notification"}
                    THEN HandedSeq(call) ELSE 0]
  /\ reply' \in {"handler_error", "wrong_kind"}
  /\ pages' = <<>>
  /\ UNCHANGED <<builderVars, call, at, seq, revoked>>

\* A command: the first match answers for the router.
RunCommand ==
  /\ AtMatch
  /\ call.kind = "command"
  /\ handed' = [handed EXCEPT ![at] = HandedSeq(call)]
  /\ \E n \in 0 .. MaxPages : pages' = Emitted(at, n)
  /\ reply' = "events"
  /\ UNCHANGED <<builderVars, call, at, seq, revoked>>

\* Mutant of RunRejection: the first handler answers for the router, as with
\* a command.
RunRejection_FirstWins ==
  /\ AtMatch
  /\ call.kind = "notification"
  /\ handed' = [handed EXCEPT ![at] = HandedSeq(call)]
  /\ \E n \in 0 .. MaxPages :
       /\ pages' = Emitted(at, n)
       /\ seq' = (seq + n) % SeqLimit
  /\ reply' = "events"
  /\ UNCHANGED <<builderVars, call, at, revoked>>

\* A rejection: events are merged and running_seq moves past them.
RunRejection ==
  /\ AtMatch
  /\ call.kind = "notification"
  /\ handed' = [handed EXCEPT ![at] = HandedSeq(call)]
  /\ \E n \in 0 .. MaxPages :
       /\ pages' = pages \o Emitted(at, n)
       /\ seq' = (seq + n) % SeqLimit
  /\ at' = at + 1
  /\ UNCHANGED <<builderVars, call, reply, revoked>>

\* A rejection handler delegated to the framework: only the Events variant
\* of the result is looked at.
RunRevocation ==
  /\ AtMatch
  /\ call.kind = "notification"
  /\ handed' = [handed EXCEPT ![at] = HandedSeq(call)]
  /\ revoked' = revoked \cup {at}
  /\ at' = at + 1
  /\ UNCHANGED <<builderVars, call, seq, pages, reply>>

\* Mutant of RunFact: every handler takes the fact.
RunFact_FansOut ==
  /\ AtMatch
  /\ call.kind = "fact"
  /\ handed' = [handed EXCEPT ![at] = 0]
  /\ \E n \in 0 .. MaxPages :
       /\ call.type \notin factories[at].facts => n = 0
       /\ pages' = pages \o Emitted(at, n)
  /\ at' = at + 1
  /\ UNCHANGED <<builderVars, call, seq, reply, revoked>>

\* A fact: the first factory takes it.  The generated handler passes over a
\* fact type it declares no method for and answers with an empty book.
RunFact ==
  /\ AtMatch
  /\ call.kind = "fact"
  /\ handed' = [handed EXCEPT ![at] = 0]
  /\ \E n \in 0 .. MaxPages :
       /\ call.type \notin factories[at].facts => n = 0
       /\ pages' = Emitted(at, n)
  /\ reply' = "fact_events"
  /\ UNCHANGED <<builderVars, call, at, seq, revoked>>

\* A replay: the first factory takes it, and refuses if it did not opt in.
RunReplay ==
  /\ AtMatch
  /\ call.kind = "replay"
  /\ handed' = [handed EXCEPT ![at] = 0]
  /\ reply' = IF factories[at].replay THEN "state" ELSE "wrong_kind"
  /\ UNCHANGED <<builderVars, call, at, seq, pages, revoked>>

\* The loop ran out of factories.
Finish ==
  /\ Dispatching
  /\ at = Len(factories) + 1
  /\ reply' = IF call.kind = "command" THEN "no_handler" ELSE "events"
  /\ UNCHANGED <<builderVars, call, at, seq, pages, handed, revoked>>

DispatchStep ==
  \/ SkipFactory
  \/ HandlerFails
  \/ RunCommand
  \/ RunRejection
  \/ RunRevocation
  \/ RunFact
  \/ RunReplay
  \/ Finish

Next ==
  \/ BuilderNext /\ UNCHANGED callVars
  \/ Receive
  \/ DispatchStep

Spec == Init /\ [][Next]_vars

-----------------------------------------------------------------------------
(* Properties.                                                             *)

TypeOK ==
  /\ factories \in Seq(Configs)
  /\ Len(factories) <= MaxHandlers
  /\ built \in BuildErrors \cup {"building"} \cup {c.kind : c \in Configs}
  /\ call \in {Idle} \cup Requests
  /\ at \in 1 .. Len(factories) + 1
  /\ seq \in 0 .. SeqLimit - 1
  /\ pages \in Seq(Slots)
  /\ reply \in Replies
  /\ handed \in [Slots -> {NotRun} \cup (0 .. SeqLimit - 1)]
  /\ revoked \subseteq Slots

\* A command runs exactly the handler that declares its (domain, type URL),
\* whatever the registration order, and is refused when there is none: the
\* uniqueness build() checks is what makes the first match the only one.
CommandHasOneOwner ==
  call.kind = "command" /\ reply # "none" =>
    /\ RunSlots = OwnersOf(factories, call.domain, call.type)
    /\ \A i, j \in RunSlots : i = j
    /\ reply = "no_handler" <=> RunSlots = {}

\* A rejection answered with events was shown to every handler of its key,
\* and the merged pages stand in registration order.  When one of them fails,
\* the reply is an error without pages: no later handler has run, every
\* earlier one has, and their work is lost to the caller.
RejectionServesAll ==
  LET declared == {i \in DOMAIN factories : call.key \in factories[i].rejected} IN
  call.kind = "notification" =>
    /\ reply = "events" =>
         /\ RunSlots = declared
         /\ \A k, l \in DOMAIN pages : k <= l => pages[k] <= pages[l]
    /\ reply \in {"handler_error", "wrong_kind"} =>
         /\ pages = <<>>
         /\ RunSlots = {i \in declared : i <= at} /\ at \in RunSlots

\* How many of the merged pages come from handlers before slot i.
PagesBefore(i) == Cardinality({k \in DOMAIN pages : pages[k] < i})

\* Each handler is handed the sequence that follows the pages merged before
\* it, and the reply the one that follows them all, even across the wrap:
\* running_seq threads through handlers that know nothing of each other.
RejectionSequencesThread ==
  call.kind = "notification" /\ call.hasBook /\ reply = "events" =>
    /\ \A i \in RunSlots : handed[i] = (call.seq + PagesBefore(i)) % SeqLimit
    /\ seq = (call.seq + Len(pages)) % SeqLimit

\* The router implements the ordered fan-out.
FanOut == INSTANCE OrderedFanOut WITH
  phase  <- IF call = Idle THEN "idle"
            ELSE IF reply = "none" THEN "running"
            ELSE IF reply \in OkReplies THEN "ok" ELSE "failed",
  todo   <- {i \in DOMAIN factories :
               /\ Dispatching
               /\ i >= at
               /\ Matches(call, factories[i])
               /\ call.kind \in {"fact", "replay"} => i = 1},
  served <- IF reply \in ErrorReplies THEN {} ELSE RunSlots

\* CommandHandlerRouter, all four entry points, is an OrderedFanOut.
FanOutSpec == FanOut!Spec

-----------------------------------------------------------------------------
(* What documents and comments say that the code does not do.              *)

\* delegate_to_framework: a rejection handler may delegate to the framework;
\* the caller must be able to tell that from a rejection nobody handles.
DelegationIsVisible ==
  call.kind = "notification" /\ reply # "none" /\ revoked # {}
    => ~(reply = "events" /\ pages = <<>> /\ seq = InitialSeq(call))

\* dispatch_fact routes a fact to the matching #[handles_fact] method.
FactReachesItsHandler ==
  call.kind = "fact" /\ reply = "fact_events" =>
    \A i \in DOMAIN factories :
      factories[i].domain = call.domain /\ call.type \in factories[i].facts
        => \E j \in RunSlots : factories[j].domain = call.domain
                               /\ call.type \in factories[j].facts
=============================================================================
