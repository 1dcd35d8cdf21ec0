----------------------------- MODULE EventRouter -----------------------------
(***************************************************************************)
(* SagaRouter and ProcessManagerRouter (src/router/runtime.rs) with what   *)
(* #[saga] and #[process_manager] generate.  Both fan the last event of a  *)
(* trigger book out to every handler that declares its domain and type,    *)
(* one action per iteration of the loop over the factories, and both       *)
(* concatenate what the handlers emit.  A process manager's handler first  *)
(* rebuilds its state from the process_state of the request.               *)
(*                                                                         *)
(* commands, facts and process_events (a saga's commands and events) are   *)
(* merged alike and stand in one list.  What business code answers is      *)
(* nondeterministic: a few messages for targets the handler declares.      *)
(***************************************************************************)
EXTENDS RouterBuilder, SequencesExt

CONSTANTS
  Domains,   \* source domains
  NoDomain,  \* the empty domain of a trigger book without a cover
  Types,     \* type URLs of trigger events
  Keys,      \* rejection keys: (target domain, command name) pairs
  PmTypes,   \* type URLs of a process manager's own events
  Targets,   \* domains that commands are sent to
  MaxBook,   \* bound: pages of a trigger or process_state book
  MaxOut     \* bound: messages a handler emits at most

ASSUME EventRouterAssumption ==
  /\ \A c \in Configs :
       c.kind \in {"Saga", "ProcessManager"} =>
         /\ c.sources \subseteq Domains
         /\ c.rejected \subseteq Keys
         /\ c.applies \subseteq PmTypes
         /\ c.targets \subseteq Targets
         /\ c.syncTargets \subseteq c.targets
  /\ NoDomain \notin Domains
  /\ {MaxBook, MaxOut} \subseteq Nat

VARIABLES
  call,     \* the request being dispatched, or Idle
  at,       \* the factory the loop is at
  out,      \* merged: <<slot of the handler, target>> of each message
  reply,    \* what dispatch returned, or "none" while it runs
  ran,      \* history: the handlers that were invoked
  decided   \* history: the state each of them decided on

callVars == <<call, at, out, reply, ran, decided>>
vars     == <<builderVars, callVars>>

Idle  == [kind |-> "idle"]
Slots == 1 .. MaxHandlers

\* Pages of a trigger: an event, whole or garbled, a rejection Notification,
\* or a page whose payload is no event or has no proper type URL.
Events        == [kind : {"event"}, type : Types, decodes : BOOLEAN]
Notifications == [kind : {"notification"}, key : Keys]
NotAnEvent    == [kind |-> "none"]
TriggerPages  == Events \cup Notifications \cup {NotAnEvent}

\* Pages of a process manager's own history.
ProcessPages == [type : PmTypes, decodes : BOOLEAN]

Requests ==
  [kind : {"trigger"}, domain : Domains \cup {NoDomain},
   trigger : SeqOf(TriggerPages, MaxBook), process : SeqOf(ProcessPages, MaxBook)]

Replies == {"none", "ok", "invalid", "handler_error"}

-----------------------------------------------------------------------------
LastPage(r) == r.trigger[Len(r.trigger)]

\* extract_saga_event_type_url, extract_pm_event_type_url: the last page must
\* be there and carry an Any with a proper type URL, which a Notification has.
Extracts(r) == r.trigger # <<>> /\ LastPage(r).kind # "none"

\* Mutant of Matches: the source domain is not looked at.
Matches_AnySource(r, c) ==
  /\ LastPage(r).kind = "event"
  /\ \E n \in DOMAIN c.handled : c.handled[n] = LastPage(r).type

\* The two tests of the loop: declared source domain, then handled type URL.
\* A Notification's type URL is in no handler's #[handles] list.
Matches(r, c) ==
  /\ r.domain \in c.sources
  /\ LastPage(r).kind = "event"
  /\ \E n \in DOMAIN c.handled : c.handled[n] = LastPage(r).type

\* Mutant of Rebuilt: what handlers before it emitted is replayed as well.
Rebuilt_SeesMerged(r, c) ==
  SelectSeq(r.process, LAMBDA p : p.type \in c.applies)
    \o [k \in DOMAIN out |-> [type |-> CHOOSE t \in PmTypes : TRUE, decodes |-> TRUE]]

\* The state a process manager's handler rebuilds from process_state: the
\* events it has an #[applies] method for, in order.
Rebuilt(r, c) == SelectSeq(r.process, LAMBDA p : p.type \in c.applies)

\* Mutant of Undecodable: a process event that does not decode is passed over.
Undecodable_TriggerOnly(r, c) == ~LastPage(r).decodes

\* The generated dispatch fails on the first event it would apply, or on the
\* trigger it would handle, that does not decode.
Undecodable(r, c) ==
  \/ \E n \in DOMAIN r.process : r.process[n].type \in c.applies /\ ~r.process[n].decodes
  \/ ~LastPage(r).decodes

\* sync_output_domains: the domains the readiness supervisor probes.
SyncOutputs == UNION {factories[i].syncTargets : i \in DOMAIN factories}

\* Mutant of HasAsyncOutputs: the difference of the deduplicated sets.
HasAsyncOutputs_Difference ==
  UNION {factories[i].targets : i \in DOMAIN factories} \ SyncOutputs # {}

\* has_async_outputs: whether it probes the bus; decided handler by handler.
HasAsyncOutputs ==
  \E i \in DOMAIN factories : factories[i].targets \ factories[i].syncTargets # {}

-----------------------------------------------------------------------------
Init ==
  /\ BuilderInit
  /\ call = Idle
  /\ at = 1
  /\ out = <<>>
  /\ reply = "none"
  /\ ran = {}
  /\ decided = [i \in Slots |-> <<>>]

\* A request reaches the service: no trigger, page or payload is an error.
Receive ==
  /\ built \in {"Saga", "ProcessManager"}
  /\ call = Idle \/ reply # "none"
  /\ \E r \in Requests :
       /\ built = "Saga" => r.process = <<>>
       /\ call' = r
       /\ reply' = IF Extracts(r) THEN "none" ELSE "invalid"
  /\ at' = 1
  /\ out' = <<>>
  /\ ran' = {}
  /\ decided' = [i \in Slots |-> <<>>]
  /\ UNCHANGED builderVars

AtFactory == call # Idle /\ reply = "none" /\ at \in DOMAIN factories

\* continue: the handler does not declare the domain or the type.
SkipFactory ==
  /\ AtFactory
  /\ ~Matches(call, factories[at])
  /\ at' = at + 1
  /\ UNCHANGED <<builderVars, call, out, reply, ran, decided>>

\* Mutant of RunHandler: the loop stays where it is.
RunHandler_Stays ==
  /\ AtFactory
  /\ Matches(call, factories[at])
  /\ ~Undecodable(call, factories[at])
  /\ ran' = ran \cup {at}
  /\ decided' = [decided EXCEPT ![at] = Rebuilt(call, factories[at])]
  /\ \E sent \in SeqOf(factories[at].targets, MaxOut) :
       out' = out \o [k \in DOMAIN sent |-> <<at, sent[k]>>]
  /\ UNCHANGED <<builderVars, call, at, reply>>

\* The handler answers; its messages are appended to the merged response.
RunHandler ==
  /\ AtFactory
  /\ Matches(call, factories[at])
  /\ ~Undecodable(call, factories[at])
  /\ ran' = ran \cup {at}
  /\ decided' = [decided EXCEPT ![at] = Rebuilt(call, factories[at])]
  /\ \E sent \in SeqOf(factories[at].targets, MaxOut) :
       out' = out \o [k \in DOMAIN sent |-> <<at, sent[k]>>]
  /\ at' = at + 1
  /\ UNCHANGED <<builderVars, call, reply>>

\* dispatch(..)? fails: business code rejects the event, or it or the state
\* does not decode.  The merged response is dropped.
HandlerFails ==
  /\ AtFactory
  /\ Matches(call, factories[at])
  /\ ran' = ran \cup {at}
  /\ decided' = [decided EXCEPT ![at] = Rebuilt(call, factories[at])]
  /\ reply' = "handler_error"
  /\ out' = <<>>
  /\ UNCHANGED <<builderVars, call, at>>

\* The loop ran out of factories; that nobody matched is no error.
Finish ==
  /\ call # Idle
  /\ reply = "none"
  /\ at = Len(factories) + 1
  /\ reply' = "ok"
  /\ UNCHANGED <<builderVars, call, at, out, ran, decided>>

Next ==
  \/ BuilderNext /\ UNCHANGED callVars
  \/ Receive
  \/ SkipFactory
  \/ RunHandler
  \/ HandlerFails
  \/ Finish

Spec == Init /\ [][Next]_vars

-----------------------------------------------------------------------------
(* Properties.                                                             *)

TypeOK ==
  /\ factories \in Seq(Configs)
  /\ Len(factories) <= MaxHandlers
  /\ built \in BuildErrors \cup {"building"} \cup {c.kind : c \in Configs}
  /\ call \in {Idle} \cup Requests
  /\ at \in 1 .. Len(factories) + 1
  /\ out \in Seq(Slots \X Targets)
  /\ reply \in Replies
  /\ ran \subseteq Slots
  /\ DOMAIN decided = Slots

\* The handlers that declare the domain and the type of the trigger's last
\* event.
Listeners ==
  {i \in DOMAIN factories :
     /\ call.domain \in factories[i].sources
     /\ \E n \in DOMAIN factories[i].handled :
          LastPage(call) \in [kind : {"event"}, type : {factories[i].handled[n]},
                              decodes : BOOLEAN]}

\* An answered trigger was shown to all its listeners and to nobody else, and
\* the messages stand in registration order, each from a listener.  When a
\* listener fails nothing is emitted, though everybody up to it has run, and
\* runs again when the trigger is redelivered.
ListenersServed ==
  /\ reply = "ok" =>
       /\ ran = Listeners
       /\ \A k, l \in DOMAIN out : k <= l => out[k][1] <= out[l][1]
       /\ \A k \in DOMAIN out : out[k][1] \in Listeners
  /\ reply = "handler_error" =>
       /\ out = <<>>
       /\ ran = {i \in Listeners : i <= at}

\* Every process manager of one dispatch decides on the process_state of the
\* request: two of one pm_domain do not see each other's process_events.
DecidedOnRequestState ==
  \A i \in ran :
    decided[i] = SelectSeq(call.process, LAMBDA p : p.type \in factories[i].applies)

\* A process event that does not decode for some listener ends in an error for
\* every trigger it listens to: nothing is emitted on a partial state.
PoisonStopsDispatch ==
  reply = "ok" =>
    \A i \in Listeners : \A n \in DOMAIN call.process :
      call.process[n].type \in factories[i].applies => call.process[n].decodes

\* What leaves the service leaves through an endpoint its readiness probes:
\* a handler's synchronous target is probed itself, the others are published
\* to the bus, which is probed when any handler is asynchronous.
EmitsThroughProbed ==
  \A k \in DOMAIN out :
    IF out[k][2] \in factories[out[k][1]].syncTargets
      THEN out[k][2] \in SyncOutputs
      ELSE HasAsyncOutputs

\* Both routers implement the ordered fan-out.
FanOut == INSTANCE OrderedFanOut WITH
  phase  <- CASE call = Idle -> "idle"
              [] call # Idle /\ reply = "none" -> "running"
              [] reply = "ok" -> "ok"
              [] OTHER -> "failed",
  todo   <- {i \in DOMAIN factories :
               /\ call # Idle /\ reply = "none"
               /\ i >= at
               /\ Matches(call, factories[i])},
  served <- IF reply \in {"invalid", "handler_error"} THEN {} ELSE ran

\* SagaRouter::dispatch and ProcessManagerRouter::dispatch are OrderedFanOuts.
FanOutSpec == FanOut!Spec

-----------------------------------------------------------------------------
\* README: #[rejected] applies to sagas and process managers, which "receive a
\* rejection notification": one that listens to the domain and declares the
\* key is run.
RejectionReachesHandler ==
  reply = "ok" /\ LastPage(call).kind = "notification" =>
    \A i \in DOMAIN factories :
      call.domain \in factories[i].sources /\ LastPage(call).key \in factories[i].rejected
        => i \in ran
=============================================================================
