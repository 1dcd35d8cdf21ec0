----------------------------- MODULE PageRouters -----------------------------
(***************************************************************************)
(* The two routers that walk a book page by page: ProjectorRouter (runtime *)
(* .rs) and UpcasterRouter (upcaster.rs), with what #[projector] and       *)
(* #[upcaster] generate.  Pages are the outer loop, handlers the inner     *)
(* one; an action is one handler given one page.                           *)
(*                                                                         *)
(* A projector's interface is its side effects, kept here over all calls:  *)
(* the coordinator delivers windows of one aggregate's log, each until it  *)
(* is answered without error, so a window or part of it may come again.    *)
(***************************************************************************)
EXTENDS RouterBuilder, SequencesExt

CONSTANTS
  Home,      \* the domain of the log
  Domains,   \* domains that handlers declare
  AnyDomain, \* "*"
  Types,     \* type URLs of events
  Pages,     \* pages of the log: an event's type and whether it decodes as
             \* such, or NotAnEvent
  NotAnEvent,\* a page without an event payload
  MaxLog     \* bound: pages of the log

ASSUME PageRoutersAssumption ==
  /\ Home \in Domains
  /\ AnyDomain \notin Domains
  /\ Pages \subseteq [type : Types, decodes : BOOLEAN] \cup {NotAnEvent}
  /\ NotAnEvent \notin [type : Types, decodes : BOOLEAN]
  /\ \A c \in Configs :
       c.kind \in {"Projector", "Upcaster"} =>
         /\ c.domains \subseteq Domains \cup {AnyDomain}
         /\ c.upcasts \in Seq(Types \X Types)
  /\ MaxLog \in Nat

VARIABLES
  log,     \* the aggregate's events, fixed
  acked,   \* how many of them were delivered without error
  call,    \* the request being dispatched, or Idle
  page,    \* position in the log of the page the outer loop is at
  turn,    \* the factory the inner loop is at
  current, \* upcaster: current_page
  output,  \* upcaster: the pages done
  reply,   \* what dispatch returned, or "none" while it runs
  seen     \* seen[i]: positions whose side effects projector i has had, the
           \* speculative calls left aside

callVars == <<call, page, turn, current, output, reply>>
vars     == <<builderVars, log, acked, callVars, seen>>

Idle  == [kind |-> "idle", first |-> 1, last |-> 0, cover |-> FALSE]
Slots == 1 .. MaxHandlers
None  == [i \in Slots |-> {}]

-----------------------------------------------------------------------------
Handles(c, t) == \E n \in DOMAIN c.handled : c.handled[n] = t

\* Upcaster c has a method for events of type t; pair n is the first of them.
Upcasts(c, t) == \E n \in DOMAIN c.upcasts : c.upcasts[n][1] = t
FirstFor(c, t, n) ==
  /\ n \in DOMAIN c.upcasts
  /\ c.upcasts[n][1] = t
  /\ \A m \in 1 .. n - 1 : c.upcasts[m][1] # t

\* Mutant of Takes: a wildcard matches no domain by itself.
Takes_NoWildcard(c, covered) ==
  IF c.kind = "Projector" THEN ~covered \/ Home \in c.domains
                          ELSE Home \in c.domains

\* The domain filter: a book without a cover goes to every projector.  The
\* projectors are filtered once for all pages, upcasters for every page anew;
\* what config() reports is the same each time.
Takes(c, covered) ==
  IF c.kind = "Projector" THEN ~covered \/ {Home, AnyDomain} \cap c.domains # {}
                          ELSE Home \in c.domains

\* current_page.clone() and the inner loop's start, for the page at p.
StartPage(p) ==
  /\ page' = p
  /\ turn' = 1
  /\ current' = IF p \in DOMAIN log THEN log[p] ELSE NotAnEvent

-----------------------------------------------------------------------------
Init ==
  /\ BuilderInit
  /\ log \in SeqOf(Pages, MaxLog)
  /\ acked = 0
  /\ call = Idle
  /\ page = 1
  /\ turn = 1
  /\ current = NotAnEvent
  /\ output = <<>>
  /\ reply = "none"
  /\ seen = None

\* The coordinator's next call.  A delivery starts at the latest with the first
\* event that was not acknowledged; a speculative call and an upcast take any
\* window.  handle_speculative forwards to handle.
Receive ==
  /\ built \in {"Projector", "Upcaster"}
  /\ call = Idle \/ reply # "none"
  /\ \E kind \in {"deliver", "speculate", "upcast"}, covered \in BOOLEAN,
        first \in 1 .. Len(log) + 1, last \in 0 .. Len(log) :
       /\ built = "Upcaster" <=> kind = "upcast"
       /\ built = "Upcaster" => covered
       /\ first <= last + 1
       /\ kind = "deliver" => first <= acked + 1
       /\ call' = [kind |-> kind, first |-> first, last |-> last, cover |-> covered]
       /\ StartPage(first)
  /\ output' = <<>>
  /\ reply' = "none"
  /\ UNCHANGED <<builderVars, log, acked, seen>>

AtHandler(kind) ==
  /\ call # Idle /\ reply = "none" /\ built = kind
  /\ page <= call.last
  /\ turn \in DOMAIN factories

\* The inner loop is at a handler that takes the request.
AtTaker(kind) == AtHandler(kind) /\ Takes(factories[turn], call.cover)

\* The next handler for this page.
Advance == turn' = turn + 1 /\ UNCHANGED <<page, current>>

\* What the projector does to the world outside, in any kind of call.
SideEffect(i) ==
  seen' = IF call.kind = "speculate" THEN seen ELSE [seen EXCEPT ![i] = @ \cup {page}]

\* A projector does not take the book or has no method for this page, or it is
\* no event: nothing.
SkipPage ==
  /\ AtHandler("Projector")
  /\ Takes(factories[turn], call.cover) /\ log[page] # NotAnEvent
       => ~Handles(factories[turn], log[page].type)
  /\ Advance
  /\ UNCHANGED <<builderVars, log, acked, call, output, reply, seen>>

\* Mutant of Project: events that do not decode are skipped.
Project_SkipsGarbled ==
  /\ AtTaker("Projector")
  /\ log[page] # NotAnEvent
  /\ Handles(factories[turn], log[page].type)
  /\ IF log[page].decodes THEN SideEffect(turn) ELSE UNCHANGED seen
  /\ Advance
  /\ UNCHANGED <<builderVars, log, acked, call, output, reply>>

\* A projector's #[handles] method is run on the event.
Project ==
  /\ AtTaker("Projector")
  /\ log[page] # NotAnEvent
  /\ log[page].decodes
  /\ Handles(factories[turn], log[page].type)
  /\ SideEffect(turn)
  /\ Advance
  /\ UNCHANGED <<builderVars, log, acked, call, output, reply>>

\* The event does not decode, or the method rejects it, after a side effect or
\* before: the whole call fails where it stands.
ProjectorFails ==
  /\ AtTaker("Projector")
  /\ log[page] # NotAnEvent
  /\ Handles(factories[turn], log[page].type)
  /\ \/ UNCHANGED seen
     \/ log[page].decodes /\ SideEffect(turn)
  /\ reply' = "error"
  /\ UNCHANGED <<builderVars, log, acked, call, page, turn, current, output>>

\* Mutant of Upcast: the first upcaster that transforms the page is the last.
Upcast_FirstOnly ==
  /\ AtTaker("Upcaster")
  /\ current # NotAnEvent
  /\ current.decodes
  /\ \E n \in DOMAIN factories[turn].upcasts :
       /\ FirstFor(factories[turn], current.type, n)
       /\ current' = [type |-> factories[turn].upcasts[n][2], decodes |-> TRUE]
  /\ turn' = Len(factories) + 1
  /\ UNCHANGED <<builderVars, log, acked, call, page, output, reply, seen>>

\* The first #[upcasts] method of the handler that starts from the type of
\* current_page transforms it; the next handler is given the result.
Upcast ==
  /\ AtTaker("Upcaster")
  /\ current # NotAnEvent
  /\ current.decodes
  /\ \E n \in DOMAIN factories[turn].upcasts :
       /\ FirstFor(factories[turn], current.type, n)
       /\ current' = [type |-> factories[turn].upcasts[n][2], decodes |-> TRUE]
  /\ turn' = turn + 1
  /\ UNCHANGED <<builderVars, log, acked, call, page, output, reply, seen>>

\* The handler is of another domain, no method of it starts from this type, or
\* the page is no event.
PassPage ==
  /\ AtHandler("Upcaster")
  /\ Takes(factories[turn], call.cover) /\ current # NotAnEvent
       => ~Upcasts(factories[turn], current.type)
  /\ Advance
  /\ UNCHANGED <<builderVars, log, acked, call, output, reply, seen>>

\* The event does not decode as the type it says: the whole call fails.
UpcastFails ==
  /\ AtTaker("Upcaster")
  /\ current # NotAnEvent
  /\ ~current.decodes
  /\ Upcasts(factories[turn], current.type)
  /\ reply' = "error"
  /\ UNCHANGED <<builderVars, log, acked, call, page, turn, current, output, seen>>

\* Every handler has had the page: the next one.
PageDone ==
  /\ call # Idle /\ reply = "none"
  /\ page <= call.last
  /\ turn = Len(factories) + 1
  /\ output' = IF built = "Upcaster" THEN Append(output, current) ELSE output
  /\ StartPage(page + 1)
  /\ UNCHANGED <<builderVars, log, acked, call, reply, seen>>

\* The reply; the coordinator takes note of a delivery with a cover.
Finish ==
  /\ call # Idle /\ reply = "none"
  /\ page = call.last + 1
  /\ reply' = "ok"
  /\ acked' = IF call.kind = "deliver" /\ call.cover /\ call.last > acked
                THEN call.last ELSE acked
  /\ UNCHANGED <<builderVars, log, call, page, turn, current, output, seen>>

Next ==
  \/ BuilderNext /\ UNCHANGED <<log, acked, callVars, seen>>
  \/ Receive
  \/ SkipPage
  \/ Project
  \/ ProjectorFails
  \/ Upcast
  \/ PassPage
  \/ UpcastFails
  \/ PageDone
  \/ Finish

Spec == Init /\ [][Next]_vars

-----------------------------------------------------------------------------
(* Properties.                                                             *)

Entries == [type : Types, decodes : BOOLEAN] \cup {NotAnEvent}

Calls ==
  [kind : {"deliver", "speculate", "upcast"}, first : 1 .. Len(log) + 1,
   last : 0 .. Len(log), cover : BOOLEAN]

TypeOK ==
  /\ factories \in Seq(Configs)
  /\ Len(factories) <= MaxHandlers
  /\ log \in Seq(Pages)
  /\ acked \in 0 .. Len(log)
  /\ call \in {Idle} \cup Calls
  /\ page \in 1 .. Len(log) + 1
  /\ turn \in 1 .. Len(factories) + 1
  /\ current \in Entries
  /\ output \in Seq(Entries)
  /\ reply \in {"none", "ok", "error"}
  /\ seen \in [Slots -> SUBSET DOMAIN log]

\* The projectors that declare the log's domain, and what each has a method for.
Subscribed ==
  {i \in DOMAIN factories :
     built = "Projector" /\ (Home \in factories[i].domains \/ AnyDomain \in factories[i].domains)}
Owed(i) ==
  {p \in DOMAIN log : log[p] # NotAnEvent /\ Handles(factories[i], log[p].type)}

\* Over any sequence of deliveries, failures and redeliveries, a projection
\* never has an event's effect without those of all earlier events it handles.
NoGaps ==
  \A i \in Subscribed : \A p \in seen[i] : \A q \in Owed(i) : q < p => q \in seen[i]

\* An acknowledged event has reached every projector that handles it: one that
\* fails or cannot decode an event holds the acknowledgement back for all.
CaughtUp == \A i \in Subscribed : {p \in Owed(i) : p <= acked} \subseteq seen[i]

\* The upcasters of the log's domain.
Upcasters == {i \in DOMAIN factories : Takes(factories[i], TRUE)}

\* Upcasters are registered oldest version first: what one produces is
\* upcast, if at all, by one registered after it.
Chronological ==
  \A a, b \in Upcasters : b <= a =>
    \A n \in DOMAIN factories[a].upcasts :
      ~Upcasts(factories[b], factories[a].upcasts[n][2])

\* An answered upcast has the pages of the request at their places, as they
\* came if no upcaster starts from their type, and leaves no event that any of
\* them would still transform, if they are registered in the order of the
\* versions.
UpcastLeavesNothing ==
  call.kind = "upcast" /\ reply = "ok" =>
    /\ Len(output) = call.last - call.first + 1
    /\ \A k \in DOMAIN output : LET original == log[call.first + k - 1] IN
         /\ output[k] = NotAnEvent <=> original = NotAnEvent
         /\ (\A a \in Upcasters : original = NotAnEvent \/
               ~Upcasts(factories[a], original.type)) => output[k] = original
         /\ (Chronological /\ output[k] # NotAnEvent) =>
               \A a \in Upcasters : ~Upcasts(factories[a], output[k].type)
=============================================================================
