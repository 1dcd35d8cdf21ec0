-------------------------- MODULE PageRoutersProofs --------------------------
(***************************************************************************)
(* Proofs about PageRouters, for any projectors, upcasters and logs.  The  *)
(* argument for projections: a delivery starts no later than the first     *)
(* event that was not acknowledged, and what it has passed is seen by      *)
(* everybody it concerns (Along).  For upcasts: what an event has become   *)
(* is settled by the upcasters it has passed (Became), so that the last of *)
(* them leaves what the reply promises (Outputs).                          *)
(***************************************************************************)
EXTENDS PageRouters, TLAPS, SequenceTheorems

\* The router that serves is the one that build() has checked.
Accepted ==
  /\ built # "building" => built = BuildResult(factories)
  /\ built = "building" => call = Idle /\ acked = 0 /\ seen = None
  /\ call # Idle =>
       /\ built = "Upcaster" <=> call.kind = "upcast"
       /\ built \in {"Projector", "Upcaster"}
       /\ call.kind = "upcast" => call.cover
       /\ call.first <= call.last + 1
       /\ call.kind = "deliver" => call.first <= acked + 1
       /\ call.first <= page /\ page <= call.last + 1
       /\ reply = "ok" => page = call.last + 1

\* A delivery under way has shown the events it passed to all they concern.
Along ==
  call # Idle /\ call.kind = "deliver" /\ reply = "none" =>
    \A i \in Subscribed : \A q \in Owed(i) :
      q < page \/ (q = page /\ i < turn) => q \in seen[i]

\* Event e is what the upcasters of us make of event o.
Became(e, o, us) ==
  /\ e = NotAnEvent <=> o = NotAnEvent
  /\ (\A a \in us : o = NotAnEvent \/ ~Upcasts(factories[a], o.type)) => e = o
  /\ Chronological /\ e # NotAnEvent => \A a \in us : ~Upcasts(factories[a], e.type)

Passed(n) == {a \in Upcasters : a < n}

\* The event at hand, and those that are done.
Outputs ==
  call # Idle /\ call.kind = "upcast" /\ reply \in {"none", "ok"} =>
    /\ Len(output) = page - call.first
    /\ \A k \in DOMAIN output : Became(output[k], log[call.first + k - 1], Upcasters)
    /\ page <= call.last => Became(current, log[page], Passed(turn))

IInv == TypeOK /\ Accepted /\ NoGaps /\ CaughtUp /\ Along /\ Outputs

-----------------------------------------------------------------------------
(* Positions, pages and handlers.                                          *)

\* A sequence has its entries in its set.
LEMMA EntryType ==
  ASSUME NEW S, NEW s \in Seq(S)
  PROVE  Len(s) \in Nat /\ DOMAIN s = 1 .. Len(s) /\ \A i \in 1 .. Len(s) : s[i] \in S
OBVIOUS

\* What the registration positions and those of the log are.
LEMMA Positions ==
  ASSUME TypeOK
  PROVE  /\ Len(factories) \in Nat /\ DOMAIN factories = 1 .. Len(factories)
         /\ DOMAIN factories \subseteq Slots /\ DOMAIN factories \subseteq Nat
         /\ \A i \in DOMAIN factories : factories[i] \in Configs
         /\ turn \in Nat \ {0} /\ turn <= Len(factories) + 1
         /\ (turn \in DOMAIN factories <=> turn # Len(factories) + 1)
         /\ Len(log) \in Nat /\ DOMAIN log = 1 .. Len(log)
         /\ \A p \in DOMAIN log : log[p] \in Entries
         /\ page \in Nat \ {0} /\ acked \in Nat /\ acked <= Len(log)
<1>1. Len(factories) \in Nat /\ DOMAIN factories = 1 .. Len(factories)
      /\ \A i \in DOMAIN factories : factories[i] \in Configs
  BY EntryType DEF TypeOK
<1>2. turn \in 1 .. Len(factories) + 1 /\ Len(factories) <= MaxHandlers /\ MaxHandlers \in Nat
  BY BuilderAssumption DEF TypeOK
<1>3. DOMAIN factories \subseteq Slots
  BY <1>1, <1>2 DEF Slots
<1>4. Len(log) \in Nat /\ DOMAIN log = 1 .. Len(log) /\ \A p \in DOMAIN log : log[p] \in Pages
  BY EntryType DEF TypeOK
<1>5. Pages \subseteq Entries
  BY PageRoutersAssumption DEF Entries
<1>6. page \in 1 .. Len(log) + 1 /\ acked \in 0 .. Len(log)
  BY DEF TypeOK
<1> QED
  BY <1>1, <1>2, <1>3, <1>4, <1>5, <1>6

\* What a call asks for.
LEMMA CallType ==
  ASSUME TypeOK, call # Idle
  PROVE  /\ call \in Calls /\ call.first \in Nat \ {0} /\ call.last \in Nat
         /\ call.last <= Len(log) /\ call.kind \in {"deliver", "speculate", "upcast"}
         /\ call.cover \in BOOLEAN
BY Positions DEF TypeOK, Calls

\* A router has handlers of the kind it is of.
LEMMA OneKind ==
  ASSUME TypeOK, Accepted, built \in {"Projector", "Upcaster"}, NEW i \in DOMAIN factories
  PROVE  factories[i].kind = built /\ factories[i] \in Configs
<1>1. built = BuildResult(factories)
  BY DEF Accepted
<1>2. ~Mixed(factories) /\ built = factories[1].kind
  BY <1>1 DEF BuildResult, BuildErrors
<1>3. factories[i].kind = factories[1].kind
  BY <1>2 DEF Mixed
<1> QED
  BY <1>2, <1>3, Positions

\* A projector that declares the log's domain takes every book of it.
LEMMA SubscribersTake ==
  ASSUME TypeOK, Accepted, NEW i \in Subscribed, NEW covered \in BOOLEAN
  PROVE  Takes(factories[i], covered) /\ i \in DOMAIN factories /\ built = "Projector"
<1>1. i \in DOMAIN factories /\ built = "Projector"
  BY DEF Subscribed
<1>2. factories[i].kind = "Projector"
  BY <1>1, OneKind
<1> QED
  BY <1>1, <1>2 DEF Subscribed, Takes

\* The side effects leave what was seen before.
LEMMA SideEffectType ==
  ASSUME TypeOK, NEW i \in Slots, page \in DOMAIN log, SideEffect(i)
  PROVE  /\ seen' \in [Slots -> SUBSET DOMAIN log]
         /\ call.kind = "speculate" => seen' = seen
         /\ call.kind # "speculate" =>
              /\ seen'[i] = seen[i] \cup {page}
              /\ \A j \in Slots \ {i} : seen'[j] = seen[j]
BY DEF SideEffect, TypeOK

-----------------------------------------------------------------------------
(* The steps before a dispatch.                                            *)

LEMMA InitIInv == Init => IInv
<1> SUFFICES ASSUME Init PROVE IInv
  OBVIOUS
<1>1. /\ factories = <<>> /\ built = "building" /\ call = Idle /\ acked = 0 /\ page = 1
      /\ turn = 1 /\ current = NotAnEvent /\ output = <<>> /\ reply = "none" /\ seen = None
  BY DEF Init, BuilderInit
<1>2. log \in Seq(Pages)
  <2>1. PICK m \in 0 .. MaxLog : log \in [1 .. m -> Pages]
    BY DEF Init, SeqOf
  <2>2. m \in Nat
    BY <2>1, PageRoutersAssumption
  <2> QED
    BY <2>1, <2>2
<1>3. TypeOK
  BY <1>1, <1>2, BuilderAssumption DEF TypeOK, Entries, None
<1>4. Accepted /\ Along /\ Outputs
  BY <1>1 DEF Accepted, Along, Outputs
<1>5. NoGaps /\ CaughtUp
  <2>1. Subscribed = {}
    BY <1>1 DEF Subscribed
  <2> QED
    BY <2>1 DEF NoGaps, CaughtUp
<1> QED
  BY <1>3, <1>4, <1>5 DEF IInv

LEMMA BuilderIInv ==
  ASSUME IInv, BuilderNext, UNCHANGED <<log, acked, callVars, seen>>
  PROVE  IInv'
<1>1. UNCHANGED <<log, acked, call, page, turn, current, output, reply, seen>>
  BY DEF callVars
<1>2. built = "building" /\ call = Idle /\ acked = 0 /\ seen = None
  BY DEF BuilderNext, WithHandler, Build, IInv, Accepted
<1>3. /\ Len(factories) \in Nat /\ turn \in 1 .. Len(factories) + 1
      /\ \A i \in DOMAIN factories : factories[i] \in Configs
      /\ DOMAIN factories = 1 .. Len(factories)
  BY EntryType DEF IInv, TypeOK
<1>4. /\ factories' \in Seq(Configs) /\ Len(factories') <= MaxHandlers
      /\ turn' \in 1 .. Len(factories') + 1
  <2>1. CASE WithHandler
    <3>1. PICK c \in Configs : factories' = Append(factories, c)
      BY <2>1 DEF WithHandler
    <3>2. factories' \in Seq(Configs) /\ Len(factories') = Len(factories) + 1
      BY <3>1 DEF IInv, TypeOK
    <3> QED
      BY <1>1, <1>3, <2>1, <3>2, BuilderAssumption DEF WithHandler
  <2>2. CASE Build
    BY <1>1, <1>3, <2>2 DEF Build, IInv, TypeOK
  <2> QED
    BY <2>1, <2>2 DEF BuilderNext
<1>5. TypeOK'
  BY <1>1, <1>4 DEF IInv, TypeOK, Calls
<1>6. Accepted'
  BY <1>1, <1>2 DEF BuilderNext, WithHandler, Build, IInv, Accepted
<1>7. Along' /\ Outputs'
  BY <1>1, <1>2 DEF Along, Outputs
<1>8. NoGaps' /\ CaughtUp'
  <2>1. Subscribed' \subseteq Slots
    <3>1. DOMAIN factories' \subseteq Slots
      BY <1>5, Positions, EntryType, BuilderAssumption DEF TypeOK, Slots
    <3> QED
      BY <3>1 DEF Subscribed
  <2>2. \A i \in Subscribed' : seen'[i] = {}
    BY <1>1, <1>2, <2>1 DEF None
  <2>3. \A i : \A p \in Owed(i)' : ~(p <= acked')
    <3>1. \A p \in DOMAIN log : p \in Nat /\ p >= 1
      BY Positions DEF IInv
    <3> QED
      BY <1>1, <1>2, <3>1 DEF Owed
  <2> QED
    BY <2>2, <2>3 DEF NoGaps, CaughtUp
<1> QED
  BY <1>5, <1>6, <1>7, <1>8 DEF IInv

\* The same router and log: the same handlers concerned by the same events.
LEMMA SameRouter ==
  ASSUME UNCHANGED <<builderVars, log>>
  PROVE  /\ UNCHANGED <<factories, built, log>>
         /\ Subscribed' = Subscribed /\ Upcasters' = Upcasters
         /\ Chronological' = Chronological
         /\ \A i : Owed(i)' = Owed(i)
<1>1. UNCHANGED <<factories, built, log>>
  BY DEF builderVars
<1>2. Subscribed' = Subscribed
  BY <1>1 DEF Subscribed
<1>3. Upcasters' = Upcasters
  BY <1>1 DEF Upcasters, Takes
<1>4. Chronological' = Chronological
  BY <1>1, <1>3 DEF Chronological, Upcasts
<1>5. \A i : Owed(i)' = Owed(i)
  BY <1>1 DEF Owed, Handles
<1> QED
  BY <1>1, <1>2, <1>3, <1>4, <1>5

\* Where nothing is seen or acknowledged anew, projections stay as they are.
LEMMA SameProjections ==
  ASSUME IInv, UNCHANGED <<builderVars, log, acked, seen>>
  PROVE  NoGaps' /\ CaughtUp'
<1>1. NoGaps'
  BY SameRouter DEF IInv, NoGaps
<1>2. CaughtUp'
  BY SameRouter DEF IInv, CaughtUp
<1> QED
  BY <1>1, <1>2

LEMMA ReceiveIInv ==
  ASSUME IInv, Receive
  PROVE  IInv'
<1>1. PICK kind \in {"deliver", "speculate", "upcast"}, covered \in BOOLEAN,
           first \in 1 .. Len(log) + 1, last \in 0 .. Len(log) :
        /\ built = "Upcaster" <=> kind = "upcast"
        /\ built = "Upcaster" => covered
        /\ first <= last + 1
        /\ kind = "deliver" => first <= acked + 1
        /\ call' = [kind |-> kind, first |-> first, last |-> last, cover |-> covered]
        /\ StartPage(first)
  BY DEF Receive
<1>2. /\ built \in {"Projector", "Upcaster"} /\ output' = <<>> /\ reply' = "none"
      /\ UNCHANGED <<builderVars, log, acked, seen>>
  BY DEF Receive
<1>3. UNCHANGED <<factories, built, log>> /\ TypeOK /\ Accepted
  BY <1>2, SameRouter DEF IInv
<1>4. /\ page' = first /\ turn' = 1
      /\ current' = IF first \in DOMAIN log THEN log[first] ELSE NotAnEvent
  BY <1>1 DEF StartPage
<1>5. call' \in Calls' /\ call' # Idle
  BY <1>1, <1>3 DEF Calls, Idle
<1>6. TypeOK'
  <2>1. current' \in Entries
    BY <1>3, <1>4, Positions DEF Entries
  <2>2. turn' \in 1 .. Len(factories) + 1 /\ output' \in Seq(Entries)
    BY <1>2, <1>3, <1>4, Positions
  <2> QED
    BY <1>1, <1>2, <1>3, <1>4, <1>5, <2>1, <2>2 DEF TypeOK, Entries
<1>7. first \in Nat /\ last \in Nat
  BY <1>3, Positions
<1>8. Accepted'
  BY <1>1, <1>2, <1>3, <1>4, <1>5, <1>7 DEF Accepted
<1>9. NoGaps' /\ CaughtUp'
  BY <1>2, SameProjections
<1>10. Along'
  <2> SUFFICES ASSUME kind = "deliver", NEW i \in Subscribed, NEW q \in Owed(i),
                      q < first \/ (q = first /\ i < 1)
               PROVE  q \in seen[i]
    BY <1>1, <1>2, <1>4, SameRouter DEF Along
  <2>1. i \in Nat /\ i >= 1 /\ q \in Nat
    BY <1>3, Positions DEF Subscribed, Owed
  <2>2. q <= acked
    BY <1>1, <1>3, <1>7, <2>1, Positions
  <2> QED
    BY <2>2 DEF IInv, CaughtUp
<1>11. Outputs'
  <2> SUFFICES ASSUME kind = "upcast"
               PROVE  /\ Len(output') = page' - first
                      /\ \A k \in DOMAIN output' : Became(output[k], log[call.first + k - 1], Upcasters)'
                      /\ page' <= last => Became(current, log[page], Passed(turn))'
    BY <1>1 DEF Outputs
  <2>1. Len(output') = page' - first /\ DOMAIN output' = {}
    BY <1>2, <1>4, <1>7
  <2>2. Passed(turn)' = {}
    <3>1. \A a \in Upcasters : ~(a < 1)
      BY <1>3, Positions DEF Upcasters
    <3> QED
      BY <1>2, <1>4, <3>1, SameRouter DEF Passed
  <2>3. ASSUME page' <= last PROVE current' = log'[page']
    BY <1>3, <1>4, <1>7, <2>3, Positions
  <2> QED
    BY <2>1, <2>2, <2>3 DEF Became
<1> QED
  BY <1>6, <1>8, <1>9, <1>10, <1>11 DEF IInv

-----------------------------------------------------------------------------
(* The steps of a dispatch.                                                *)

\* What is known of a call that runs.
LEMMA Running ==
  ASSUME IInv, call # Idle, reply = "none", page <= call.last
  PROVE  /\ TypeOK /\ Accepted /\ page \in DOMAIN log /\ log[page] \in Entries
         /\ page \in Nat /\ call.last \in Nat /\ call.first \in Nat /\ call.first <= page
         /\ built \in {"Projector", "Upcaster"} /\ (built = "Upcaster" <=> call.kind = "upcast")
BY Positions, CallType DEF IInv, Accepted

\* A step inside the loops leaves the request what it is.
LEMMA StillAccepted ==
  ASSUME IInv, call # Idle, reply = "none",
         UNCHANGED <<builderVars, log, acked, call>>,
         \/ page' = page /\ reply' \in {"none", "error"}
         \/ page' = page + 1 /\ page <= call.last /\ reply' = "none"
         \/ page' = page /\ page = call.last + 1 /\ reply' = "ok"
  PROVE  Accepted'
<1>1. UNCHANGED <<factories, built, log, acked, call>>
  BY SameRouter
<1>2. call.first \in Nat /\ call.last \in Nat /\ page \in Nat
  BY CallType, Positions DEF IInv
<1> QED
  BY <1>1, <1>2 DEF Accepted, IInv

\* What a projector does on the page at hand leaves no gap behind.
LEMMA ProjectKeeps ==
  ASSUME IInv, AtTaker("Projector"), SideEffect(turn),
         UNCHANGED <<builderVars, log, acked, call>>
  PROVE  /\ NoGaps' /\ CaughtUp' /\ seen' \in [Slots -> SUBSET DOMAIN log]
         /\ \A i \in Subscribed : seen[i] \subseteq seen'[i]
         /\ call.kind = "deliver" => page \in seen'[turn]
<1>1. /\ call # Idle /\ reply = "none" /\ built = "Projector" /\ page <= call.last
      /\ turn \in DOMAIN factories
  BY DEF AtTaker, AtHandler
<1>2. TypeOK /\ page \in DOMAIN log /\ turn \in Slots /\ call.kind \in {"deliver", "speculate"}
  BY <1>1, Running, CallType, Positions
<1>3. seen' \in [Slots -> SUBSET DOMAIN log]
  BY <1>2, SideEffectType
<1>4. CASE call.kind = "speculate"
  <2>1. seen' = seen
    BY <1>2, <1>4, SideEffectType
  <2> QED
    BY <1>3, <1>4, <2>1, SameProjections
<1>5. CASE call.kind = "deliver"
  <2>1. seen'[turn] = seen[turn] \cup {page} /\ \A j \in Slots \ {turn} : seen'[j] = seen[j]
    BY <1>2, <1>5, SideEffectType
  <2>2. Subscribed \subseteq Slots
    BY <1>2, Positions DEF Subscribed
  <2>3. \A i \in Subscribed : seen[i] \subseteq seen'[i]
    BY <2>1, <2>2
  <2>4. CaughtUp'
    BY <2>3, SameRouter DEF IInv, CaughtUp
  <2>5. ASSUME NEW i \in Subscribed, NEW p \in seen'[i], NEW q \in Owed(i), q < p
        PROVE  q \in seen'[i]
    <3>1. CASE p \in seen[i]
      BY <2>3, <2>5, <3>1 DEF IInv, NoGaps
    <3>2. CASE p \notin seen[i]
      <4>1. i = turn /\ p = page
        BY <2>1, <2>2, <3>2
      <4>2. q \in seen[i]
        BY <1>1, <1>5, <2>5, <4>1 DEF IInv, Along
      <4> QED
        BY <2>3, <4>2
    <3> QED
      BY <3>1, <3>2
  <2>6. NoGaps'
    BY <2>5, SameRouter DEF NoGaps
  <2> QED
    BY <1>3, <2>1, <2>3, <2>4, <2>6
<1> QED
  BY <1>2, <1>4, <1>5

\* The delivery has passed one more projector.
LEMMA AlongOne ==
  ASSUME IInv, AtHandler("Projector"), Advance,
         UNCHANGED <<builderVars, log, acked, call, reply>>,
         \A i \in Subscribed : seen[i] \subseteq seen'[i],
         call.kind = "deliver" /\ turn \in Subscribed /\ page \in Owed(turn)
           => page \in seen'[turn]
  PROVE  Along' /\ Outputs' /\ turn' \in 1 .. Len(factories) + 1
<1>1. /\ call # Idle /\ reply = "none" /\ built = "Projector" /\ page <= call.last
      /\ turn \in DOMAIN factories
  BY DEF AtHandler
<1>2. call.kind # "upcast" /\ turn \in Nat /\ DOMAIN factories \subseteq Nat
      /\ turn' = turn + 1 /\ page' = page /\ turn <= Len(factories) /\ Len(factories) \in Nat
  BY <1>1, Running, Positions DEF Advance, IInv
<1>3. Along'
  <2> SUFFICES ASSUME call.kind = "deliver", NEW i \in Subscribed, NEW q \in Owed(i),
                      q < page \/ (q = page /\ i < turn + 1)
               PROVE  q \in seen'[i]
    BY <1>2, SameRouter DEF Along
  <2>1. i \in Nat
    BY <1>2 DEF Subscribed
  <2>2. CASE q < page \/ (q = page /\ i < turn)
    BY <1>1, <2>2 DEF IInv, Along
  <2>3. CASE q = page /\ i = turn
    BY <2>3
  <2> QED
    BY <1>2, <2>1, <2>2, <2>3
<1>4. Outputs'
  BY <1>2 DEF Outputs
<1> QED
  BY <1>2, <1>3, <1>4

LEMMA SkipPageIInv ==
  ASSUME IInv, SkipPage
  PROVE  IInv'
<1>1. /\ AtHandler("Projector") /\ Advance
      /\ Takes(factories[turn], call.cover) /\ log[page] # NotAnEvent
           => ~Handles(factories[turn], log[page].type)
      /\ UNCHANGED <<builderVars, log, acked, call, output, reply, seen>>
  BY DEF SkipPage
<1>2. call # Idle /\ reply = "none" /\ page <= call.last /\ UNCHANGED <<page, current>>
  BY <1>1 DEF AtHandler, Advance
<1>3. TypeOK /\ Accepted /\ call.cover \in BOOLEAN
  BY <1>2, CallType DEF IInv
<1>4. ~(turn \in Subscribed /\ page \in Owed(turn))
  BY <1>1, <1>3, SubscribersTake DEF Owed
<1>5. Along' /\ Outputs' /\ turn' \in 1 .. Len(factories) + 1
  BY <1>1, <1>4, AlongOne
<1>6. NoGaps' /\ CaughtUp'
  BY <1>1, SameProjections
<1>7. Accepted'
  BY <1>1, <1>2, StillAccepted
<1>8. TypeOK'
  BY <1>1, <1>2, <1>3, <1>5, SameRouter DEF TypeOK, Calls, Entries
<1> QED
  BY <1>5, <1>6, <1>7, <1>8 DEF IInv

LEMMA ProjectIInv ==
  ASSUME IInv, Project
  PROVE  IInv'
<1>1. /\ AtTaker("Projector") /\ Advance /\ SideEffect(turn)
      /\ UNCHANGED <<builderVars, log, acked, call, output, reply>>
  BY DEF Project
<1>2. AtHandler("Projector") /\ call # Idle /\ reply = "none" /\ UNCHANGED <<page, current>>
  BY <1>1 DEF AtTaker, AtHandler, Advance
<1>3. /\ NoGaps' /\ CaughtUp' /\ seen' \in [Slots -> SUBSET DOMAIN log]
      /\ \A i \in Subscribed : seen[i] \subseteq seen'[i]
      /\ call.kind = "deliver" => page \in seen'[turn]
  BY <1>1, ProjectKeeps
<1>4. Along' /\ Outputs' /\ turn' \in 1 .. Len(factories) + 1
  BY <1>1, <1>2, <1>3, AlongOne
<1>5. Accepted'
  BY <1>1, <1>2, StillAccepted
<1>6. TypeOK'
  BY <1>1, <1>2, <1>3, <1>4, SameRouter DEF IInv, TypeOK, Calls, Entries
<1> QED
  BY <1>3, <1>4, <1>5, <1>6 DEF IInv

LEMMA ProjectorFailsIInv ==
  ASSUME IInv, ProjectorFails
  PROVE  IInv'
<1>1. /\ AtTaker("Projector") /\ (UNCHANGED seen \/ SideEffect(turn)) /\ reply' = "error"
      /\ UNCHANGED <<builderVars, log, acked, call, page, turn, current, output>>
  BY DEF ProjectorFails
<1>2. call # Idle /\ reply = "none"
  BY <1>1 DEF AtTaker, AtHandler
<1>3. NoGaps' /\ CaughtUp' /\ seen' \in [Slots -> SUBSET DOMAIN log]
  BY <1>1, ProjectKeeps, SameProjections DEF IInv, TypeOK
<1>4. Along' /\ Outputs'
  BY <1>1 DEF Along, Outputs
<1>5. Accepted'
  BY <1>1, <1>2, StillAccepted
<1>6. TypeOK'
  BY <1>1, <1>3, SameRouter DEF IInv, TypeOK, Calls, Entries
<1> QED
  BY <1>3, <1>4, <1>5, <1>6 DEF IInv

\* What an upcaster does not concern itself with stays what it became; what it
\* transforms becomes what it makes of it.
LEMMA BecameMore ==
  ASSUME TypeOK, NEW o, NEW e, NEW i \in DOMAIN factories, Became(e, o, Passed(i))
  PROVE  /\ (i \in Upcasters /\ e # NotAnEvent => ~Upcasts(factories[i], e.type))
              => Became(e, o, Passed(i + 1))
         /\ i \notin Upcasters => Became(e, o, Passed(i + 1))
         /\ \A n \in DOMAIN factories[i].upcasts :
              LET f == [type |-> factories[i].upcasts[n][2], decodes |-> TRUE] IN
              /\ i \in Upcasters /\ e # NotAnEvent /\ Upcasts(factories[i], e.type)
              /\ f # NotAnEvent
              => Became(f, o, Passed(i + 1))
<1>1. i \in Nat /\ DOMAIN factories \subseteq Nat
  BY Positions
<1>2. i \in Upcasters => Passed(i + 1) = Passed(i) \cup {i}
  <2>1. \A a \in Upcasters : a < i + 1 <=> a < i \/ a = i
    BY <1>1 DEF Upcasters
  <2>2. i < i + 1
    BY <1>1
  <2> QED
    BY <2>1, <2>2 DEF Passed
<1>3. i \notin Upcasters => Passed(i + 1) = Passed(i)
  <2>1. \A a \in Upcasters : a # i => (a < i + 1 <=> a < i)
    BY <1>1 DEF Upcasters
  <2> QED
    BY <2>1 DEF Passed
<1>4. i \notin Upcasters => Became(e, o, Passed(i + 1))
  BY <1>3
<1>5. ASSUME i \in Upcasters, e # NotAnEvent => ~Upcasts(factories[i], e.type)
      PROVE  Became(e, o, Passed(i + 1))
  BY <1>2, <1>5 DEF Became
<1>6. ASSUME NEW n \in DOMAIN factories[i].upcasts, NEW f,
             f = [type |-> factories[i].upcasts[n][2], decodes |-> TRUE],
             i \in Upcasters, e # NotAnEvent, Upcasts(factories[i], e.type), f # NotAnEvent
      PROVE  Became(f, o, Passed(i + 1))
  <2>1. o # NotAnEvent
    BY <1>6 DEF Became
  <2>2. ~\A a \in Passed(i + 1) : o = NotAnEvent \/ ~Upcasts(factories[a], o.type)
    <3> SUFFICES ASSUME \A a \in Passed(i + 1) : ~Upcasts(factories[a], o.type)
                 PROVE  FALSE
      BY <2>1
    <3>1. e = o
      BY <1>2, <1>6 DEF Became
    <3> QED
      BY <1>2, <1>6, <3>1
  <2>3. ASSUME Chronological, NEW a \in Passed(i + 1) PROVE ~Upcasts(factories[a], f.type)
    <3>1. a \in Upcasters /\ a <= i
      <4>1. a \in Upcasters /\ a < i + 1
        BY DEF Passed
      <4>2. a \in Nat /\ i \in Nat
        BY <1>1, <4>1 DEF Upcasters
      <4> QED
        BY <4>1, <4>2
    <3> QED
      BY <1>6, <2>3, <3>1 DEF Chronological
  <2> QED
    BY <1>6, <2>1, <2>2, <2>3 DEF Became
<1> QED
  BY <1>4, <1>5, <1>6

\* The event at hand is passed on, and the outputs with it.
LEMMA OutputsOne ==
  ASSUME IInv, AtHandler("Upcaster"), turn' = turn + 1, page' = page,
         UNCHANGED <<builderVars, log, acked, call, output, reply>>,
         Became(current', log[page], Passed(turn + 1))
  PROVE  Along' /\ Outputs' /\ turn' \in 1 .. Len(factories) + 1
<1>1. /\ call # Idle /\ reply = "none" /\ built = "Upcaster" /\ page <= call.last
      /\ turn \in DOMAIN factories
  BY DEF AtHandler
<1>2. call.kind = "upcast" /\ turn' \in 1 .. Len(factories) + 1
  BY <1>1, Running, Positions DEF IInv
<1>3. Along'
  BY <1>2 DEF Along
<1>4. Passed(turn)' = Passed(turn + 1)
  BY SameRouter DEF Passed
<1>5. /\ Len(output) = page - call.first
      /\ \A k \in DOMAIN output : Became(output[k], log[call.first + k - 1], Upcasters)
  BY <1>1, <1>2 DEF IInv, Outputs
<1>6. Outputs'
  BY <1>4, <1>5, SameRouter DEF Outputs, Became, Upcasts
<1> QED
  BY <1>2, <1>3, <1>6

LEMMA UpcastIInv ==
  ASSUME IInv, Upcast
  PROVE  IInv'
<1>1. /\ AtTaker("Upcaster") /\ current # NotAnEvent /\ turn' = turn + 1
      /\ UNCHANGED <<builderVars, log, acked, call, page, output, reply, seen>>
  BY DEF Upcast
<1>2. PICK n \in DOMAIN factories[turn].upcasts :
        /\ FirstFor(factories[turn], current.type, n)
        /\ current' = [type |-> factories[turn].upcasts[n][2], decodes |-> TRUE]
  BY DEF Upcast
<1>3. /\ AtHandler("Upcaster") /\ call # Idle /\ reply = "none" /\ built = "Upcaster"
      /\ page <= call.last /\ turn \in DOMAIN factories /\ Takes(factories[turn], call.cover)
  BY <1>1 DEF AtTaker, AtHandler
<1>4. TypeOK /\ Accepted /\ call.kind = "upcast" /\ call.cover
  BY <1>3, Running DEF Accepted
<1>5. turn \in Upcasters
  BY <1>3, <1>4, CallType DEF Upcasters
<1>6. current' \in Entries /\ current' # NotAnEvent
  <2>1. factories[turn] \in Configs /\ factories[turn].kind = "Upcaster"
    BY <1>3, <1>4, OneKind
  <2>2. factories[turn].upcasts \in Seq(Types \X Types)
    BY <2>1, PageRoutersAssumption
  <2>3. factories[turn].upcasts[n] \in Types \X Types
    BY <2>2, EntryType
  <2>4. factories[turn].upcasts[n][2] \in Types
    BY <2>3
  <2>5. current' \in [type : Types, decodes : BOOLEAN]
    BY <1>2, <2>4
  <2> QED
    BY <2>5, PageRoutersAssumption DEF Entries
<1>7. Became(current', log[page], Passed(turn + 1))
  <2>1. Became(current, log[page], Passed(turn))
    BY <1>3, <1>4 DEF IInv, Outputs
  <2>2. Upcasts(factories[turn], current.type)
    BY <1>2 DEF FirstFor, Upcasts
  <2> QED
    BY <1>1, <1>2, <1>3, <1>4, <1>5, <1>6, <2>1, <2>2, BecameMore
<1>8. Along' /\ Outputs' /\ turn' \in 1 .. Len(factories) + 1
  BY <1>1, <1>3, <1>7, OutputsOne
<1>9. NoGaps' /\ CaughtUp'
  BY <1>1, SameProjections
<1>10. Accepted'
  BY <1>1, <1>3, StillAccepted
<1>11. TypeOK'
  BY <1>1, <1>4, <1>6, <1>8, SameRouter DEF TypeOK, Calls, Entries
<1> QED
  BY <1>8, <1>9, <1>10, <1>11 DEF IInv

LEMMA PassPageIInv ==
  ASSUME IInv, PassPage
  PROVE  IInv'
<1>1. /\ AtHandler("Upcaster") /\ turn' = turn + 1 /\ UNCHANGED <<page, current>>
      /\ Takes(factories[turn], call.cover) /\ current # NotAnEvent
           => ~Upcasts(factories[turn], current.type)
      /\ UNCHANGED <<builderVars, log, acked, call, output, reply, seen>>
  BY DEF PassPage, Advance
<1>2. /\ call # Idle /\ reply = "none" /\ built = "Upcaster"
      /\ page <= call.last /\ turn \in DOMAIN factories
  BY <1>1 DEF AtHandler
<1>3. TypeOK /\ Accepted /\ call.kind = "upcast" /\ call.cover
  BY <1>2, Running DEF Accepted
<1>4. Became(current', log[page], Passed(turn + 1))
  <2>1. Became(current, log[page], Passed(turn))
    BY <1>2, <1>3 DEF IInv, Outputs
  <2>2. turn \in Upcasters /\ current # NotAnEvent => ~Upcasts(factories[turn], current.type)
    BY <1>1, <1>3, CallType, <1>2 DEF Upcasters
  <2>3. Became(current, log[page], Passed(turn + 1))
    BY <1>2, <1>3, <2>1, <2>2, BecameMore
  <2> QED
    BY <1>1, <2>3
<1>5. Along' /\ Outputs' /\ turn' \in 1 .. Len(factories) + 1
  BY <1>1, <1>4, OutputsOne
<1>6. NoGaps' /\ CaughtUp'
  BY <1>1, SameProjections
<1>7. Accepted'
  BY <1>1, <1>2, StillAccepted
<1>8. TypeOK'
  BY <1>1, <1>3, <1>5, SameRouter DEF TypeOK, Calls, Entries
<1> QED
  BY <1>5, <1>6, <1>7, <1>8 DEF IInv

LEMMA UpcastFailsIInv ==
  ASSUME IInv, UpcastFails
  PROVE  IInv'
<1>1. /\ AtTaker("Upcaster") /\ reply' = "error"
      /\ UNCHANGED <<builderVars, log, acked, call, page, turn, current, output, seen>>
  BY DEF UpcastFails
<1>2. call # Idle /\ reply = "none"
  BY <1>1 DEF AtTaker, AtHandler
<1>3. NoGaps' /\ CaughtUp'
  BY <1>1, SameProjections
<1>4. Along' /\ Outputs'
  BY <1>1 DEF Along, Outputs
<1>5. Accepted'
  BY <1>1, <1>2, StillAccepted
<1>6. TypeOK'
  BY <1>1, SameRouter DEF IInv, TypeOK, Calls, Entries
<1> QED
  BY <1>3, <1>4, <1>5, <1>6 DEF IInv

\* All handlers have had the page: nothing of it is owed any longer, and what
\* it became is put out.
LEMMA PageDoneIInv ==
  ASSUME IInv, PageDone
  PROVE  IInv'
<1>1. /\ call # Idle /\ reply = "none" /\ page <= call.last /\ turn = Len(factories) + 1
      /\ output' = IF built = "Upcaster" THEN Append(output, current) ELSE output
      /\ page' = page + 1 /\ turn' = 1
      /\ current' = IF page + 1 \in DOMAIN log THEN log[page + 1] ELSE NotAnEvent
      /\ UNCHANGED <<builderVars, log, acked, call, reply, seen>>
  BY DEF PageDone, StartPage
<1>2. /\ TypeOK /\ Accepted /\ page \in DOMAIN log /\ page \in Nat
      /\ call.first \in Nat /\ call.first <= page /\ call.last \in Nat
  BY <1>1, Running
<1>3. TypeOK'
  <2>1. current' \in Entries
    BY <1>1, <1>2, Positions DEF Entries
  <2>2. output' \in Seq(Entries)
    BY <1>1, <1>2 DEF TypeOK
  <2>3. turn' \in 1 .. Len(factories) + 1 /\ page' \in 1 .. Len(log) + 1
    BY <1>1, <1>2, Positions
  <2>4. UNCHANGED <<factories, built, log, acked, call, reply, seen>>
    BY <1>1, SameRouter
  <2>5. Calls' = Calls /\ Entries' = Entries
    BY <2>4 DEF Calls, Entries
  <2> QED
    BY <1>2, <2>1, <2>2, <2>3, <2>4, <2>5 DEF TypeOK
<1>4. Accepted'
  BY <1>1, StillAccepted
<1>5. NoGaps' /\ CaughtUp'
  BY <1>1, SameProjections
<1>6. Along'
  <2> SUFFICES ASSUME call.kind = "deliver", NEW i \in Subscribed, NEW q \in Owed(i),
                      q < page + 1 \/ (q = page + 1 /\ i < 1)
               PROVE  q \in seen[i]
    BY <1>1, SameRouter DEF Along
  <2>1. i \in 1 .. Len(factories) /\ Len(factories) \in Nat /\ q \in Nat
    BY <1>2, Positions DEF Subscribed, Owed
  <2>2. q < page \/ (q = page /\ i < turn)
    BY <1>1, <1>2, <2>1
  <2> QED
    BY <1>1, <2>2 DEF IInv, Along
<1>7. Outputs'
  <2> SUFFICES ASSUME call.kind = "upcast"
               PROVE  /\ Len(output') = page' - call.first
                      /\ \A k \in DOMAIN output' :
                           Became(output'[k], log[call.first + k - 1], Upcasters)
                      /\ page' <= call.last => Became(current', log[page'], Passed(1))
    <3>1. Passed(turn)' = Passed(1)
      BY <1>1, SameRouter DEF Passed
    <3> QED
      BY <1>1, <3>1, SameRouter DEF Outputs, Became, Upcasts
  <2>1. built = "Upcaster" /\ output' = Append(output, current)
    BY <1>1, <1>2 DEF Accepted
  <2>2. /\ Len(output) = page - call.first
        /\ \A k \in DOMAIN output : Became(output[k], log[call.first + k - 1], Upcasters)
        /\ Became(current, log[page], Passed(turn))
    BY <1>1 DEF IInv, Outputs
  <2>3. Passed(turn) = Upcasters
    <3>1. \A a \in Upcasters : a < turn
      BY <1>1, <1>2, Positions DEF Upcasters
    <3> QED
      BY <3>1 DEF Passed
  <2>4. Passed(1) = {}
    <3>1. \A a \in Upcasters : ~(a < 1)
      BY <1>2, Positions DEF Upcasters
    <3> QED
      BY <3>1 DEF Passed
  <2>5. PICK n \in Nat : n = Len(output) /\ DOMAIN output = 1 .. n
    BY <1>2, EntryType DEF TypeOK
  <2>6. /\ Len(output') = n + 1 /\ DOMAIN output' = 1 .. n + 1
        /\ \A k \in 1 .. n : output'[k] = output[k]
        /\ output'[n + 1] = current
    <3>1. output \in Seq(Entries) /\ current \in Entries
      BY <1>2 DEF TypeOK
    <3> QED
      BY <2>1, <2>5, <3>1, AppendProperties
  <2>7. ASSUME NEW k \in 1 .. n + 1
        PROVE  Became(output'[k], log[call.first + k - 1], Upcasters)
    <3>1. CASE k \in 1 .. n
      BY <2>2, <2>5, <2>6, <3>1
    <3>2. CASE k = n + 1
      <4>1. call.first + k - 1 = page
        BY <1>2, <2>2, <2>5, <3>2
      <4> QED
        BY <2>2, <2>3, <2>6, <3>2, <4>1
    <3> QED
      BY <3>1, <3>2
  <2>8. ASSUME page' <= call.last PROVE Became(current', log[page'], Passed(1))
    <3>1. page + 1 \in DOMAIN log
      BY <1>1, <1>2, <2>8, Positions, CallType
    <3> QED
      BY <1>1, <2>4, <3>1 DEF Became
  <2>9. Len(output') = page' - call.first
    BY <1>1, <1>2, <2>2, <2>5, <2>6
  <2> QED
    BY <2>6, <2>7, <2>8, <2>9
<1> QED
  BY <1>3, <1>4, <1>5, <1>6, <1>7 DEF IInv

\* The reply to a delivery acknowledges what everybody has seen.
LEMMA FinishIInv ==
  ASSUME IInv, Finish
  PROVE  IInv'
<1>1. /\ call # Idle /\ reply = "none" /\ page = call.last + 1 /\ reply' = "ok"
      /\ acked' = IF call.kind = "deliver" /\ call.cover /\ call.last > acked
                    THEN call.last ELSE acked
      /\ UNCHANGED <<builderVars, log, call, page, turn, current, output, seen>>
  BY DEF Finish
<1>2. TypeOK /\ Accepted /\ call.last \in Nat /\ call.last <= Len(log) /\ page \in Nat
      /\ acked \in Nat /\ Len(log) \in Nat /\ acked <= Len(log)
  BY <1>1, CallType, Positions DEF IInv
<1>3. UNCHANGED <<factories, built, log>>
  BY <1>1, SameRouter
<1>4. acked' \in Nat /\ acked <= acked' /\ acked' <= Len(log)
  BY <1>1, <1>2
<1>5. TypeOK'
  BY <1>1, <1>2, <1>3, <1>4 DEF TypeOK, Calls, Entries
<1>6. Accepted'
  <2>1. call.first \in Nat
    BY <1>1, <1>2, CallType
  <2> QED
    BY <1>1, <1>2, <1>3, <1>4, <2>1 DEF Accepted
<1>7. NoGaps'
  BY <1>1, SameRouter DEF IInv, NoGaps
<1>8. CaughtUp'
  <2> SUFFICES ASSUME NEW i \in Subscribed, NEW p \in Owed(i), p <= acked'
               PROVE  p \in seen[i]
    BY <1>1, SameRouter DEF CaughtUp
  <2>1. p \in Nat
    BY <1>2, Positions DEF Owed
  <2>2. CASE p <= acked
    BY <2>2 DEF IInv, CaughtUp
  <2>3. CASE ~(p <= acked)
    <3>1. call.kind = "deliver" /\ p < page
      BY <1>1, <1>2, <2>1, <2>3
    <3> QED
      BY <1>1, <3>1 DEF IInv, Along
  <2> QED
    BY <2>2, <2>3
<1>9. Along'
  BY <1>1 DEF Along
<1>10. Outputs'
  <2>1. ~(page <= call.last)
    BY <1>1, <1>2
  <2> QED
    BY <1>1, <1>3, <2>1, SameRouter DEF IInv, Outputs, Became, Upcasts
<1> QED
  BY <1>5, <1>6, <1>7, <1>8, <1>9, <1>10 DEF IInv

LEMMA NextIInv == IInv /\ [Next]_vars => IInv'
<1> SUFFICES ASSUME IInv, [Next]_vars PROVE IInv'
  OBVIOUS
<1>1. CASE Next
  BY <1>1, BuilderIInv, ReceiveIInv, SkipPageIInv, ProjectIInv, ProjectorFailsIInv,
     UpcastIInv, PassPageIInv, UpcastFailsIInv, PageDoneIInv, FinishIInv DEF Next
<1>2. CASE UNCHANGED vars
  <2>1. UNCHANGED <<builderVars, log, acked, call, page, turn, current, output, reply, seen>>
    BY <1>2 DEF vars, callVars
  <2>2. UNCHANGED <<factories, built, log>>
    BY <2>1, SameRouter
  <2>3. TypeOK' /\ Accepted'
    BY <2>1, <2>2 DEF IInv, TypeOK, Accepted, Calls, Entries
  <2>4. NoGaps' /\ CaughtUp'
    BY <2>1, SameProjections
  <2>5. Along'
    BY <2>1, SameRouter DEF IInv, Along
  <2>6. Outputs'
    <3>1. Passed(turn)' = Passed(turn)
      BY <2>1, SameRouter DEF Passed
    <3> QED
      BY <2>1, <2>2, <3>1, SameRouter DEF IInv, Outputs, Became, Upcasts
  <2> QED
    BY <2>3, <2>4, <2>5, <2>6 DEF IInv
<1> QED
  BY <1>1, <1>2

LEMMA Invariance == Spec => []IInv
  BY InitIInv, NextIInv, PTL DEF Spec

-----------------------------------------------------------------------------
(* Theorems.                                                               *)

\* The routers' variables keep their types.
THEOREM TypeCorrect == Spec => []TypeOK
<1>1. IInv => TypeOK
  BY DEF IInv
<1> QED
  BY <1>1, Invariance, PTL

\* However calls fail and come again, no projection has an event's effect
\* without those of the events before it.
THEOREM ProjectionsWhole == Spec => []NoGaps
<1>1. IInv => NoGaps
  BY DEF IInv
<1> QED
  BY <1>1, Invariance, PTL

\* What is acknowledged has reached every projector that handles it.
THEOREM AcknowledgedIsSeen == Spec => []CaughtUp
<1>1. IInv => CaughtUp
  BY DEF IInv
<1> QED
  BY <1>1, Invariance, PTL

\* An answered upcast is whole, touches nothing it has no method for and
\* leaves nothing to transform, if the versions are registered in order.
THEOREM UpcastComplete == Spec => []UpcastLeavesNothing
<1>1. IInv => UpcastLeavesNothing
  <2> SUFFICES ASSUME IInv, call.kind = "upcast", reply = "ok"
               PROVE  /\ Len(output) = call.last - call.first + 1
                      /\ \A k \in DOMAIN output :
                           Became(output[k], log[call.first + k - 1], Upcasters)
    BY DEF UpcastLeavesNothing, Became
  <2>1. call # Idle
    BY DEF Idle
  <2>2. page = call.last + 1 /\ call.first \in Nat /\ call.last \in Nat
    BY <2>1, CallType DEF IInv, Accepted
  <2>3. /\ Len(output) = page - call.first
        /\ \A k \in DOMAIN output : Became(output[k], log[call.first + k - 1], Upcasters)
    BY <2>1 DEF IInv, Outputs
  <2> QED
    BY <2>2, <2>3
<1> QED
  BY <1>1, Invariance, PTL
=============================================================================
