----------------------------- MODULE SagaDelivery -----------------------------
(***************************************************************************)
(* From a trigger event to its effect at other aggregates and back: the    *)
(* bus delivers the trigger at least once, a saga answers with commands    *)
(* whose headers it sets through Destinations (router/state.rs) or leaves  *)
(* to the framework, the destinations accept or reject them, and what they *)
(* reject comes back to the aggregate of the trigger as a Notification     *)
(* that a #[rejected] method reads through CompensationContext             *)
(* (compensation.rs).  Bus, coordinators and their checks are external.    *)
(*                                                                         *)
(* stamp_command writes the same header to every page of a book, and       *)
(* whoever reads a header reads that of the first page, so a book has one. *)
(***************************************************************************)
EXTENDS Integers, Sequences

CONSTANTS
  Roots,        \* aggregates that emit triggers
  NoRoot,       \* no source cover
  Sequences,    \* sequences of their events
  Targets,      \* aggregates that receive commands
  Domain,       \* Domain[t]: the domain of a target
  Plans,        \* what sagas draft on each trigger, and where others write
  Rejected,     \* <<domain, name>> of the commands with a #[rejected] method
  MaxLog        \* bound: length at which undeduplicated writes to a log end

Triggers == [root : Roots, seq : Sequences]

\* How a saga's method sets the header of a command: not at all, with
\* deferred_header, with stamp_command, with both in this order, or with the
\* next sequence of the target's own event book.
Styles == {"unset", "deferred", "stamped", "restamped", "booked"}

\* A command as business code drafts it; a command type is a package and a name.
Drafts ==
  [target   : Targets,
   package  : STRING,
   name     : STRING,
   style    : Styles,
   strategy : {"commutative", "strict", "aggregate_handles"}]

ASSUME SagaDeliveryAssumption ==
  /\ Sequences \subseteq Nat
  /\ NoRoot \notin Roots
  /\ \A t \in Targets : t \in DOMAIN Domain
  /\ Plans \subseteq [drafts : [Triggers -> SUBSET Drafts], crowded : SUBSET Targets]
  /\ MaxLog \in Nat

VARIABLES
  plan,      \* the one of Plans that is carried out
  due,       \* triggers that the bus has not seen acknowledged
  cmds,      \* command books on their way
  answered,  \* <<e, d>>: the coordinator has an answer for this draft of e
  log,       \* log[t]: the commands that took effect at t, in order
  notes,     \* rejected commands whose Notification is on its way
  revoked    \* notifications answered: what CompensationContext said, and who read it

vars == <<plan, due, cmds, answered, log, notes, revoked>>

-----------------------------------------------------------------------------
(* Headers.                                                                *)

Unset       == [kind |-> "unset"]
Explicit(n) == [kind |-> "sequence", seq |-> n]

\* Mutant of DeferredHeader: the sequence the source is at, not the event's.
DeferredHeader_Next(e) == [kind |-> "deferred", source |-> e.root, seq |-> e.seq + 1]

\* Mutant of DeferredHeader: the source cover without the event's sequence.
DeferredHeader_NoSeq(e) == [kind |-> "deferred", source |-> e.root, seq |-> 0]

\* Destinations::deferred_header, of the event that triggered the saga.
DeferredHeader(e) == [kind |-> "deferred", source |-> e.root, seq |-> e.seq]

\* PageHeaderExt: a header that the framework dedupes on.
AngzarrDeferred(h) == h.kind = "deferred"

\* PageHeaderExt::explicit_sequence and sequence_num of a page with header h.
SequenceNum(h) == IF h.kind = "sequence" THEN h.seq ELSE 0

\* Destinations::has_domain and sequence_for, of the sequences on a request.
HasDomain(offered, domain)   == domain \in DOMAIN offered
SequenceFor(offered, domain) == offered[domain]

\* Destinations::stamp_command: whatever the header was, it becomes explicit.
StampCommand(h, offered, domain) == Explicit(SequenceFor(offered, domain))

\* Mutant of NextSequence: a snapshot's sequence taken for a next one.
NextSequence_Twice(pages, covers) ==
  IF pages # {} THEN (CHOOSE n \in pages : \A k \in pages : k <= n) + 1 ELSE covers + 1

\* calculate_next_sequence, of a book whose snapshot covers the first `covers`
\* events (0: no snapshot) and whose pages are at the sequences `pages`.
NextSequence(pages, covers) ==
  CASE pages # {}                 -> (CHOOSE n \in pages : \A k \in pages : k <= n) + 1
    [] pages = {} /\ covers > 0   -> (covers - 1) + 1
    [] pages = {} /\ covers = 0   -> 0

-----------------------------------------------------------------------------
(* Commands.                                                               *)

\* Mutant of HeaderOf: the deferred header carries the target's next sequence
\* where the sequence of the trigger belongs.
HeaderOf_TargetSeq(e, d, offered, covers) ==
  IF d.style = "deferred"
  THEN [kind |-> "deferred", source |-> e.root, seq |-> Len(log[d.target])]
  ELSE Unset

\* The header that a saga's method gives to the command it drafts.
HeaderOf(e, d, offered, covers) ==
  CASE d.style = "unset"     -> Unset
    [] d.style = "deferred"  -> DeferredHeader(e)
    [] d.style = "stamped"   -> StampCommand(Unset, offered, Domain[d.target])
    [] d.style = "restamped" -> StampCommand(DeferredHeader(e), offered, Domain[d.target])
    [] d.style = "booked"    -> Explicit(NextSequence(covers .. Len(log[d.target]) - 1, covers))

\* The coordinator gives a command without a header that of its trigger.
Filled(h, e) ==
  IF h = Unset THEN [kind |-> "deferred", source |-> e.root, seq |-> e.seq] ELSE h

\* A command book.  seen is the history that a saga with the target's book saw.
Command(e, d, h) ==
  [trigger |-> e, draft |-> d, header |-> Filled(h, e),
   seen |-> IF d.style = "booked" THEN Len(log[d.target]) ELSE 0]

\* What somebody else wrote to a target.
Other == [trigger |-> [root |-> NoRoot, seq |-> 0], header |-> Unset]

\* (source.root, source_seq), on which the pipeline of a target dedupes.
Key(c) == <<c.header.source, c.header.seq>>
Handled(t, c) ==
  \E i \in DOMAIN log[t] : AngzarrDeferred(log[t][i].header) /\ Key(log[t][i]) = Key(c)

\* Triggers whose command took effect once, by trigger, target and position.
Delivery == INSTANCE OncePerTrigger WITH
  places <- UNION {{<<log[t][i].trigger, t, i>> :
                      i \in {j \in DOMAIN log[t] : AngzarrDeferred(log[t][j].header)}} :
                   t \in Targets}

-----------------------------------------------------------------------------
(* The bus and the saga.                                                   *)

Domains == {Domain[t] : t \in Targets}

\* destination_sequences has one number for a domain: some aggregate's next.
Offers ==
  {[d \in D |-> Len(log[at[d]])] :
     D \in SUBSET Domains,
     at \in {f \in [Domains -> Targets] : \A d \in Domains : Domain[f[d]] = d}}

\* The bus delivers a trigger, for the first time or again, and the saga
\* answers.  A command that cannot be stamped fails the dispatch (no step).
Deliver(e) ==
  /\ e \in due
  /\ \E offered \in Offers, snapshots \in BOOLEAN :
       /\ \A d \in plan.drafts[e] :
            d.style \in {"stamped", "restamped"} => HasDomain(offered, Domain[d.target])
       /\ cmds' = cmds \cup
            {Command(e, d, HeaderOf(e, d, offered, IF snapshots THEN Len(log[d.target]) ELSE 0)) :
               d \in plan.drafts[e]}
  /\ UNCHANGED <<plan, due, answered, log, notes, revoked>>

\* A command is lost, or a retryable answer to it: an explicit sequence that
\* is not the target's next, an unavailable service.
Lose(c) ==
  /\ cmds' = cmds \ {c}
  /\ UNCHANGED <<plan, due, answered, log, notes, revoked>>

\* All commands of a trigger are answered: the bus need not deliver it again.
Ack(e) ==
  /\ e \in due
  /\ \A d \in plan.drafts[e] : <<e, d>> \in answered
  /\ due' = due \ {e}
  /\ UNCHANGED <<plan, cmds, answered, log, notes, revoked>>

-----------------------------------------------------------------------------
(* The destinations.                                                       *)

\* The coordinator checks an explicit sequence unless the aggregate handles it.
InSequence(c) ==
  \/ c.draft.strategy = "aggregate_handles"
  \/ SequenceNum(c.header) = Len(log[c.draft.target])

\* A command that was answered may still be on its way a second time.
Answer(c) ==
  /\ cmds' \in {cmds, cmds \ {c}}
  /\ answered' = answered \cup {<<c.trigger, c.draft>>}
  /\ UNCHANGED <<plan, due, revoked>>

\* The trigger was handled before: the cached events, no business logic.
AnswerFromCache(c) ==
  /\ AngzarrDeferred(c.header) /\ Handled(c.draft.target, c)
  /\ Answer(c)
  /\ UNCHANGED <<log, notes>>

\* Business logic runs on what is new or in sequence.
Runs(c) ==
  IF AngzarrDeferred(c.header)
  THEN ~Handled(c.draft.target, c)
  ELSE InSequence(c) /\ Len(log[c.draft.target]) < MaxLog

Accept(c) ==
  /\ Runs(c)
  /\ Answer(c)
  /\ log' = [log EXCEPT ![c.draft.target] = Append(@, c)]
  /\ UNCHANGED notes

\* A rejection becomes a Notification to the aggregate of the trigger.
Reject(c) ==
  /\ Runs(c)
  /\ Answer(c)
  /\ notes' = notes \cup {c}
  /\ UNCHANGED log

\* Somebody else's command.
OtherWriter(t) ==
  /\ Len(log[t]) < MaxLog
  /\ log' = [log EXCEPT ![t] = Append(@, Other)]
  /\ UNCHANGED <<plan, due, cmds, answered, notes, revoked>>

-----------------------------------------------------------------------------
(* The aggregate of the trigger.                                           *)

\* CompensationContext::from_notification.
FromNotification(c) ==
  IF AngzarrDeferred(c.header)
  THEN [source |-> c.header.source, seq |-> c.header.seq]
  ELSE [source |-> NoRoot, seq |-> 0]

\* The router looks a method up by the domain and the short name of the command.
RejectionKey(c) == <<Domain[c.draft.target], c.draft.name>>

\* CompensationContext::dispatch_key has the type with its package.
DispatchKey(c) == <<Domain[c.draft.target], c.draft.package, c.draft.name>>

\* A #[rejected] method reads the context, or there is none for the key and
\* the reply is an empty event book.
Revoke(c) ==
  /\ notes' = notes \ {c}
  /\ revoked' = revoked \cup
       {[trigger |-> c.trigger, key |-> DispatchKey(c), context |-> FromNotification(c),
         by |-> IF RejectionKey(c) \in Rejected THEN "method" ELSE "nobody"]}
  /\ UNCHANGED <<plan, due, cmds, answered, log>>

-----------------------------------------------------------------------------
Init ==
  /\ plan \in Plans
  /\ due = Triggers
  /\ cmds = {} /\ answered = {} /\ notes = {} /\ revoked = {}
  /\ log = [t \in Targets |-> <<>>]

Next ==
  \/ \E e \in Triggers : Deliver(e) \/ Ack(e)
  \/ \E c \in cmds : Lose(c) \/ AnswerFromCache(c) \/ Accept(c) \/ Reject(c)
  \/ \E t \in plan.crowded : OtherWriter(t)
  \/ \E c \in notes : Revoke(c)

Spec == Init /\ [][Next]_vars

\* An answer for the command that trigger e sent to target t.
AnswerFor(e, t) ==
  \E c \in cmds :
    /\ c.trigger = e /\ c.draft.target = t
    /\ AnswerFromCache(c) \/ Accept(c) \/ Reject(c)

RevokeFor(e, t) ==
  \E c \in notes : c.trigger = e /\ c.draft.target = t /\ Revoke(c)

\* The bus delivers what is not acknowledged, a command that is sent again and
\* again arrives, and notifications do.
Fairness ==
  /\ \A e \in Triggers : WF_vars(Deliver(e)) /\ WF_vars(Ack(e))
  /\ \A e \in Triggers, t \in Targets :
       SF_vars(AnswerFor(e, t)) /\ WF_vars(RevokeFor(e, t))

FairSpec == Spec /\ Fairness

-----------------------------------------------------------------------------
(* Properties.                                                             *)

Headers ==
  [kind : {"sequence"}, seq : Nat] \cup
  [kind : {"deferred"}, source : Roots, seq : Nat]

Commands == [trigger : Triggers, draft : Drafts, header : Headers, seen : Nat]

Contexts == [source : Roots \cup {NoRoot}, seq : Nat]

\* Every variable has its type (the state of a saga's request, of the
\* destinations and of CompensationContext).
TypeOK ==
  /\ plan \in Plans
  /\ due \subseteq Triggers
  /\ cmds \subseteq Commands
  /\ answered \subseteq Triggers \X Drafts
  /\ log \in [Targets -> Seq(Commands \cup {Other})]
  /\ notes \subseteq Commands
  /\ \A r \in revoked : r.trigger \in Triggers /\ r.context \in Contexts

\* A trigger that is delivered again is a no-op at the destination: a command
\* with a deferred header (Destinations::deferred_header) takes effect once for
\* its trigger and target, whatever is lost, sent again or rejected in between.
DeliverySpec == Delivery!Spec

\* What a #[rejected] method reads from CompensationContext::from_notification
\* about a command with a deferred header is the event that triggered it, even
\* when several triggers of several roots are on their way at once.
CompensationHitsItsTrigger ==
  \A r \in revoked :
    r.context.source # NoRoot =>
      r.context = [source |-> r.trigger.root, seq |-> r.trigger.seq]

\* A command numbered by calculate_next_sequence from the target's own book
\* takes effect right after the events in that book, though other writers and
\* redeliveries come in between.
BookedLandsWhereRead ==
  \A t \in Targets : \A i \in DOMAIN log[t] :
    (/\ log[t][i] # Other
     /\ log[t][i].draft.style = "booked"
     /\ log[t][i].draft.strategy # "aggregate_handles") => log[t][i].seen = i - 1

\* Trigger e is through with draft d: a command of e took effect at its target,
\* or was rejected, and the aggregate of e hears or has heard of that.
Settled(e, d) ==
  \/ \E i \in DOMAIN log[d.target] : log[d.target][i].trigger = e
  \/ \E c \in notes : c.trigger = e /\ c.draft = d
  \/ \E r \in revoked : r.trigger = e /\ r.key = <<Domain[d.target], d.package, d.name>>

\* A trigger that the bus need not deliver again has nothing open: no command
\* was taken, by the header that Destinations gave it, for one of another
\* trigger and answered in its stead.
AcknowledgedIsSettled ==
  \A e \in Triggers \ due : \A d \in plan.drafts[e] : Settled(e, d)

\* Trigger e is the only one to ask for d, of its target, and leaves the header
\* to deferred_header or to the framework.
Deferring(e, t) ==
  /\ \A d \in plan.drafts[e] : d.style \in {"unset", "deferred"}
  /\ \E d \in plan.drafts[e] : d.target = t /\ \A f \in plan.drafts[e] : f.target = t => f = d

Took(e, t) == \E i \in DOMAIN log[t] : log[t][i].trigger = e
Undone(e, t) ==
  \E r \in revoked : r.trigger = e /\ r.key[1] = Domain[t]

\* No trigger is mistaken for another: each one in the end takes effect at its
\* target or comes back to its aggregate as a notification.
Settles ==
  \A e \in Triggers, t \in Targets :
    (Deferring(e, t) /\ e \in due) ~> (Took(e, t) \/ Undone(e, t))
=============================================================================
