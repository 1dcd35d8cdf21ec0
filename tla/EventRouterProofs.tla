-------------------------- MODULE EventRouterProofs --------------------------
(***************************************************************************)
(* Proofs about EventRouter, for any sagas or process managers, sources,   *)
(* targets and bounds.  The argument: what a loop has done when it reaches *)
(* a factory is settled by the factories before it and by the request      *)
(* alone (Served); and every message that waits to be returned was emitted *)
(* by a handler that has run, for a target it declares (Sent).             *)
(***************************************************************************)
EXTENDS EventRouter, TLAPS

\* The router that serves is the one that build() has checked.
Accepted ==
  /\ built # "building" => built = BuildResult(factories)
  /\ call = Idle => reply = "none" /\ ran = {} /\ out = <<>>
  /\ call # Idle =>
       /\ built \in {"Saga", "ProcessManager"}
       /\ reply # "invalid" => Extracts(call)

Matching == {i \in DOMAIN factories : Matches(call, factories[i])}

\* Who has run, by how far the loop is.
Served ==
  call # Idle =>
    /\ reply \in {"none", "ok"} => ran = {i \in Matching : i < at}
    /\ reply = "ok" => at = Len(factories) + 1
    /\ reply = "handler_error" => at \in Matching /\ ran = {i \in Matching : i <= at}
    /\ reply = "invalid" => ran = {}
    /\ reply \in {"none", "ok"} => \A i \in ran : ~Undecodable(call, factories[i])

\* What was sent, by whom and where to.
Sent ==
  /\ reply \notin {"none", "ok"} => out = <<>>
  /\ \A k \in DOMAIN out :
       /\ out[k][1] \in ran
       /\ out[k][2] \in factories[out[k][1]].targets
  /\ \A k, l \in DOMAIN out : k <= l => out[k][1] <= out[l][1]

\* What was decided on.
Decided == \A i \in ran : decided[i] = Rebuilt(call, factories[i])

IInv == TypeOK /\ Accepted /\ Served /\ Sent /\ Decided

-----------------------------------------------------------------------------
(* Sequences, positions and requests.                                      *)

\* A sequence has its entries in its set.
LEMMA EntryType ==
  ASSUME NEW S, NEW s \in Seq(S)
  PROVE  Len(s) \in Nat /\ DOMAIN s = 1 .. Len(s) /\ \A i \in 1 .. Len(s) : s[i] \in S
OBVIOUS

\* What one sequence after another consists of.
LEMMA Concatenated ==
  ASSUME NEW S, NEW s \in Seq(S), NEW t \in Seq(S)
  PROVE  /\ s \o t \in Seq(S) /\ DOMAIN (s \o t) = 1 .. Len(s) + Len(t)
         /\ \A i \in 1 .. Len(s) : (s \o t)[i] = s[i]
         /\ \A i \in 1 .. Len(s) + Len(t) : i > Len(s) => (s \o t)[i] = t[i - Len(s)]
<1>1. Len(s) \in Nat /\ Len(t) \in Nat
  OBVIOUS
<1>2. s \o t \in Seq(S) /\ Len(s \o t) = Len(s) + Len(t)
  OBVIOUS
<1>3. DOMAIN (s \o t) = 1 .. Len(s) + Len(t)
  BY <1>2
<1>4. \A i \in 1 .. Len(s) : (s \o t)[i] = s[i]
  BY <1>1
<1>5. \A i \in 1 .. Len(s) + Len(t) : i > Len(s) => (s \o t)[i] = t[i - Len(s)]
  BY <1>1
<1> QED
  BY <1>2, <1>3, <1>4, <1>5

\* The registration positions in use.
LEMMA FactoryType ==
  ASSUME TypeOK
  PROVE  /\ Len(factories) \in Nat /\ DOMAIN factories = 1 .. Len(factories)
         /\ DOMAIN factories \subseteq Slots /\ DOMAIN factories \subseteq Nat
         /\ \A i \in DOMAIN factories : factories[i] \in Configs
         /\ at \in Nat \ {0} /\ at <= Len(factories) + 1
         /\ (at \in DOMAIN factories <=> at # Len(factories) + 1)
<1>1. Len(factories) \in Nat /\ DOMAIN factories = 1 .. Len(factories)
      /\ \A i \in DOMAIN factories : factories[i] \in Configs
  BY EntryType DEF TypeOK
<1>2. at \in 1 .. Len(factories) + 1 /\ Len(factories) <= MaxHandlers /\ MaxHandlers \in Nat
  BY BuilderAssumption DEF TypeOK
<1>3. DOMAIN factories \subseteq Slots
  BY <1>1, <1>2 DEF Slots
<1> QED
  BY <1>1, <1>2, <1>3

\* The last page of a trigger that has one is a page.
LEMMA LastPageType ==
  ASSUME NEW r \in Requests, r.trigger # <<>>
  PROVE  LastPage(r) \in TriggerPages
<1>1. PICK m \in 0 .. MaxBook : r.trigger \in [1 .. m -> TriggerPages]
  BY DEF Requests, SeqOf
<1>2. MaxBook \in Nat
  BY EventRouterAssumption
<1>3. m \in Nat /\ Len(r.trigger) = m /\ r.trigger \in Seq(TriggerPages)
  BY <1>1, <1>2
<1>4. m # 0
  BY <1>3
<1> QED
  BY <1>1, <1>3, <1>4 DEF LastPage

\* The listeners of a trigger are the factories that the loop's tests let by.
LEMMA ListenersMatch ==
  ASSUME call \in Requests, Extracts(call)
  PROVE  Listeners = Matching
<1>1. LastPage(call) \in TriggerPages
  BY LastPageType DEF Extracts
<1>2. ASSUME NEW c, NEW n
      PROVE  LastPage(call) \in [kind : {"event"}, type : {c.handled[n]}, decodes : BOOLEAN]
               <=> LastPage(call).kind = "event" /\ c.handled[n] = LastPage(call).type
  <2>1. LastPage(call).kind = "event" => LastPage(call) \in Events
    BY <1>1 DEF TriggerPages, Events, Notifications, NotAnEvent
  <2>2. LastPage(call) \in Events /\ c.handled[n] = LastPage(call).type
          => LastPage(call) \in [kind : {"event"}, type : {c.handled[n]}, decodes : BOOLEAN]
    BY DEF Events
  <2>3. LastPage(call) \in [kind : {"event"}, type : {c.handled[n]}, decodes : BOOLEAN]
          => LastPage(call).kind = "event" /\ c.handled[n] = LastPage(call).type
    OBVIOUS
  <2> QED
    BY <2>1, <2>2, <2>3
<1> QED
  BY <1>2 DEF Listeners, Matching, Matches

\* A router of sagas has sagas only, and one of process managers those.
LEMMA OneKind ==
  ASSUME IInv, call # Idle, NEW i \in DOMAIN factories
  PROVE  factories[i].kind \in {"Saga", "ProcessManager"} /\ factories[i] \in Configs
<1>1. built \in {"Saga", "ProcessManager"} /\ built = BuildResult(factories)
  BY DEF IInv, Accepted
<1>2. ~Mixed(factories) /\ built = factories[1].kind
  BY <1>1 DEF BuildResult, BuildErrors
<1>3. factories[i].kind = factories[1].kind
  BY <1>2 DEF Mixed
<1> QED
  BY <1>1, <1>2, <1>3, FactoryType DEF IInv

-----------------------------------------------------------------------------
(* The steps before a dispatch.                                            *)

LEMMA InitIInv == Init => IInv
<1> SUFFICES ASSUME Init PROVE IInv
  OBVIOUS
<1>1. /\ factories = <<>> /\ built = "building" /\ call = Idle /\ at = 1 /\ out = <<>>
      /\ reply = "none" /\ ran = {} /\ DOMAIN decided = Slots
  BY DEF Init, BuilderInit
<1>2. TypeOK
  BY <1>1, BuilderAssumption DEF TypeOK, Replies
<1>3. Accepted /\ Served /\ Sent /\ Decided
  BY <1>1 DEF Accepted, Served, Sent, Decided
<1> QED
  BY <1>2, <1>3 DEF IInv

LEMMA BuilderIInv ==
  ASSUME IInv, BuilderNext, UNCHANGED callVars
  PROVE  IInv'
<1>1. UNCHANGED <<call, at, out, reply, ran, decided>>
  BY DEF callVars
<1>2. built = "building" /\ call = Idle
  BY DEF BuilderNext, WithHandler, Build, IInv, Accepted
<1>3. /\ Len(factories) \in Nat /\ at \in 1 .. Len(factories) + 1
      /\ \A i \in DOMAIN factories : factories[i] \in Configs
      /\ DOMAIN factories = 1 .. Len(factories)
  BY EntryType DEF IInv, TypeOK
<1>4. /\ factories' \in Seq(Configs) /\ Len(factories') <= MaxHandlers
      /\ at' \in 1 .. Len(factories') + 1
      /\ built' \in BuildErrors \cup {"building"} \cup {c.kind : c \in Configs}
  <2>1. CASE WithHandler
    <3>1. PICK c \in Configs : factories' = Append(factories, c)
      BY <2>1 DEF WithHandler
    <3>2. factories' \in Seq(Configs) /\ Len(factories') = Len(factories) + 1
      BY <3>1 DEF IInv, TypeOK
    <3> QED
      BY <1>1, <1>2, <1>3, <2>1, <3>2, BuilderAssumption DEF WithHandler, IInv, TypeOK
  <2>2. CASE Build
    <3>1. factories # <<>> => 1 \in DOMAIN factories
      BY <1>3 DEF IInv, TypeOK
    <3>2. BuildResult(factories) \in BuildErrors \cup {c.kind : c \in Configs}
      BY <1>3, <3>1 DEF BuildResult, BuildErrors
    <3> QED
      BY <1>1, <1>3, <2>2, <3>2 DEF Build, IInv, TypeOK
  <2> QED
    BY <2>1, <2>2 DEF BuilderNext
<1>5. TypeOK'
  BY <1>1, <1>4 DEF IInv, TypeOK
<1>6. Accepted'
  BY <1>1, <1>2 DEF BuilderNext, WithHandler, Build, IInv, Accepted
<1>7. Served'
  BY <1>1, <1>2 DEF Served
<1>8. Sent' /\ Decided'
  BY <1>1, <1>2 DEF Sent, Decided, IInv, Accepted
<1> QED
  BY <1>5, <1>6, <1>7, <1>8 DEF IInv

LEMMA ReceiveIInv ==
  ASSUME IInv, Receive
  PROVE  IInv'
<1>1. PICK r \in Requests :
        call' = r /\ reply' = IF Extracts(r) THEN "none" ELSE "invalid"
  BY DEF Receive
<1>2. /\ built \in {"Saga", "ProcessManager"} /\ at' = 1 /\ out' = <<>> /\ ran' = {}
      /\ DOMAIN decided' = Slots /\ UNCHANGED <<factories, built>>
  BY DEF Receive, builderVars
<1>3. r # Idle
  BY DEF Requests, Idle
<1>4. TypeOK'
  BY <1>1, <1>2, FactoryType DEF IInv, TypeOK, Replies
<1>5. Accepted'
  <2>1. Extracts(call)' = Extracts(r)
    BY <1>1 DEF Extracts, LastPage
  <2> QED
    BY <1>1, <1>2, <1>3, <2>1 DEF IInv, Accepted
<1>6. Served'
  <2>1. {i \in Matching' : i < at'} = {}
    BY <1>2, FactoryType DEF Matching, IInv
  <2> QED
    BY <1>1, <1>2, <2>1 DEF Served
<1>7. Sent' /\ Decided'
  BY <1>2 DEF Sent, Decided
<1> QED
  BY <1>4, <1>5, <1>6, <1>7 DEF IInv
-----------------------------------------------------------------------------
(* The steps of a dispatch.                                                *)

\* What does not change while the loop runs.
LEMMA SameCall ==
  ASSUME UNCHANGED <<builderVars, call>>
  PROVE  /\ UNCHANGED <<factories, built, call>> /\ Matching' = Matching
         /\ \A i : Undecodable(call, factories[i])' = Undecodable(call, factories[i])
         /\ \A i : Rebuilt(call, factories[i])' = Rebuilt(call, factories[i])
         /\ Extracts(call)' = Extracts(call)
<1>1. UNCHANGED <<factories, built, call>>
  BY DEF builderVars
<1>2. \A i : Matches(call, factories[i])' = Matches(call, factories[i])
  BY <1>1 DEF Matches, LastPage
<1>3. Matching' = Matching
  BY <1>1, <1>2 DEF Matching
<1>4. \A i : Undecodable(call, factories[i])' = Undecodable(call, factories[i])
  BY <1>1 DEF Undecodable, LastPage
<1>5. \A i : Rebuilt(call, factories[i])' = Rebuilt(call, factories[i])
  BY <1>1
<1>6. Extracts(call)' = Extracts(call)
  BY <1>1 DEF Extracts, LastPage
<1> QED
  BY <1>1, <1>3, <1>4, <1>5, <1>6

\* A dispatch leaves the router and the request alone.
LEMMA StillAccepted ==
  ASSUME IInv, AtFactory, UNCHANGED <<builderVars, call>>
  PROVE  Accepted'
BY SameCall DEF Accepted, IInv, AtFactory

\* The handlers that have run, as the loop moves past one that does not match
\* and past one that does.
LEMMA LoopMoves ==
  ASSUME TypeOK, at \in DOMAIN factories
  PROVE  /\ at \notin Matching =>
              {i \in Matching : i < at + 1} = {i \in Matching : i < at}
         /\ at \in Matching =>
              /\ {i \in Matching : i < at + 1} = {i \in Matching : i < at} \cup {at}
              /\ {i \in Matching : i <= at} = {i \in Matching : i < at} \cup {at}
         /\ at + 1 \in 1 .. Len(factories) + 1
<1>1. at \in Nat /\ at <= Len(factories) /\ Len(factories) \in Nat /\ Matching \subseteq Nat
  BY FactoryType DEF Matching
<1>2. \A i \in Matching : (i < at + 1 <=> i < at \/ i = at) /\ (i <= at <=> i < at \/ i = at)
  BY <1>1
<1>3. at + 1 \in 1 .. Len(factories) + 1
  BY <1>1
<1>4. at \notin Matching => {i \in Matching : i < at + 1} = {i \in Matching : i < at}
  BY <1>2
<1>5. at \in Matching =>
        /\ {i \in Matching : i < at + 1} = {i \in Matching : i < at} \cup {at}
        /\ {i \in Matching : i <= at} = {i \in Matching : i < at} \cup {at}
  BY <1>2
<1> QED
  BY <1>3, <1>4, <1>5

LEMMA SkipIInv ==
  ASSUME IInv, SkipFactory
  PROVE  IInv'
<1>1. /\ AtFactory /\ ~Matches(call, factories[at]) /\ at' = at + 1
      /\ UNCHANGED <<builderVars, call, out, reply, ran, decided>>
  BY DEF SkipFactory
<1>2. call # Idle /\ reply = "none" /\ at \in DOMAIN factories /\ at \notin Matching
  BY <1>1 DEF AtFactory, Matching
<1>3. UNCHANGED <<factories, built, call>> /\ Matching' = Matching
  BY <1>1, SameCall
<1>4. TypeOK'
  BY <1>1, <1>2, <1>3, LoopMoves DEF IInv, TypeOK
<1>5. Accepted'
  BY <1>1, StillAccepted
<1>6. Served'
  BY <1>1, <1>2, <1>3, LoopMoves, SameCall DEF IInv, Served
<1>7. Sent'
  BY <1>1, <1>3 DEF IInv, Sent
<1>8. Decided'
  BY <1>1, SameCall DEF IInv, Decided
<1> QED
  BY <1>4, <1>5, <1>6, <1>7, <1>8 DEF IInv

\* A handler that runs decides on the state of the request.
LEMMA RunsAndDecides ==
  ASSUME IInv, AtFactory, Matches(call, factories[at]),
         UNCHANGED <<builderVars, call>>,
         ran' = ran \cup {at},
         decided' = [decided EXCEPT ![at] = Rebuilt(call, factories[at])]
  PROVE  /\ at \in Matching /\ at \in Slots /\ ran = {i \in Matching : i < at}
         /\ ran' \subseteq Slots /\ DOMAIN decided' = Slots /\ Decided'
<1>1. at \in DOMAIN factories /\ call # Idle /\ reply = "none" /\ TypeOK
  BY DEF AtFactory, IInv
<1>2. at \in Matching /\ at \in Slots /\ ran = {i \in Matching : i < at}
  BY <1>1, FactoryType DEF Matching, IInv, Served
<1>3. ran \subseteq Slots /\ DOMAIN decided = Slots
  BY DEF IInv, TypeOK
<1>4. \A i \in Slots : decided'[i] = IF i = at THEN Rebuilt(call, factories[at]) ELSE decided[i]
  BY <1>3
<1>5. Decided'
  BY <1>2, <1>3, <1>4, SameCall DEF Decided, IInv
<1> QED
  BY <1>2, <1>3, <1>5

\* What the handler at hand sends follows what the handlers before it sent.
LEMMA SentOn ==
  ASSUME IInv, AtFactory, at \in Matching, ran = {i \in Matching : i < at},
         NEW sent \in SeqOf(factories[at].targets, MaxOut),
         out' = out \o [k \in DOMAIN sent |-> <<at, sent[k]>>],
         ran' = ran \cup {at}, UNCHANGED <<factories, reply>>
  PROVE  out' \in Seq(Slots \X Targets) /\ Sent'
<1> DEFINE mine == [k \in DOMAIN sent |-> <<at, sent[k]>>]
<1>1. call # Idle /\ reply = "none" /\ TypeOK /\ at \in DOMAIN factories
  BY DEF AtFactory, IInv
<1>2. at \in Slots /\ at \in Nat /\ ran \subseteq Nat
  BY <1>1, FactoryType DEF Matching
<1>3. factories[at].targets \subseteq Targets
  BY <1>1, OneKind, EventRouterAssumption
<1>4. PICK m \in Nat : sent \in [1 .. m -> factories[at].targets]
  <2>1. MaxOut \in Nat
    BY EventRouterAssumption
  <2>2. PICK q \in 0 .. MaxOut : sent \in [1 .. q -> factories[at].targets]
    BY DEF SeqOf
  <2>3. q \in Nat
    BY <2>1, <2>2
  <2> QED
    BY <2>2, <2>3
<1>5. /\ mine \in [1 .. m -> Slots \X Targets] /\ DOMAIN mine = 1 .. m
      /\ \A k \in 1 .. m : mine[k][1] = at /\ mine[k][2] \in factories[at].targets
  BY <1>2, <1>3, <1>4
<1>6. mine \in Seq(Slots \X Targets) /\ Len(mine) = m
  BY <1>5
<1>7. PICK n \in Nat : n = Len(out) /\ DOMAIN out = 1 .. n /\ out \in Seq(Slots \X Targets)
  BY <1>1, EntryType DEF TypeOK
<1>8. /\ \A k \in 1 .. n : out[k][1] \in ran /\ out[k][2] \in factories[out[k][1]].targets
      /\ \A k, l \in 1 .. n : k <= l => out[k][1] <= out[l][1]
  BY <1>7 DEF IInv, Sent
<1> HIDE DEF mine
<1>9. out' = out \o mine
  BY DEF mine
<1>10. /\ out' \in Seq(Slots \X Targets) /\ DOMAIN out' = 1 .. n + m
       /\ \A k \in 1 .. n : out'[k] = out[k]
       /\ \A k \in 1 .. n + m : k > n => out'[k] = mine[k - n]
  <2>1. out \in Seq(Slots \X Targets) /\ mine \in Seq(Slots \X Targets)
    BY <1>6, <1>7
  <2>2. /\ out \o mine \in Seq(Slots \X Targets)
        /\ DOMAIN (out \o mine) = 1 .. Len(out) + Len(mine)
        /\ \A k \in 1 .. Len(out) : (out \o mine)[k] = out[k]
        /\ \A k \in 1 .. Len(out) + Len(mine) : k > Len(out) => (out \o mine)[k] = mine[k - Len(out)]
    BY <2>1, Concatenated
  <2> QED
    BY <1>6, <1>7, <1>9, <2>2
<1>11. ASSUME NEW k \in 1 .. n + m, k > n
       PROVE  out'[k][1] = at /\ out'[k][2] \in factories[at].targets
  <2>1. k - n \in 1 .. m
    BY <1>11
  <2> QED
    BY <2>1, <1>5, <1>10, <1>11
<1>12. ASSUME NEW k \in 1 .. n + m, ~(k > n)
       PROVE  k \in 1 .. n /\ out'[k] = out[k]
  <2>1. k \in 1 .. n
    BY <1>12
  <2> QED
    BY <2>1, <1>10
<1>13. ASSUME NEW k \in 1 .. n + m
       PROVE  out'[k][1] \in ran' /\ out'[k][2] \in factories'[out'[k][1]].targets
  BY <1>8, <1>11, <1>12
<1>14. ASSUME NEW k \in 1 .. n + m, NEW l \in 1 .. n + m, k <= l
       PROVE  out'[k][1] <= out'[l][1]
  <2>1. CASE ~(l > n)
    <3>1. ~(k > n)
      BY <1>14, <2>1
    <3> QED
      BY <2>1, <3>1, <1>8, <1>12, <1>14
  <2>2. CASE l > n
    <3>1. out'[l][1] = at
      BY <2>2, <1>11
    <3>2. PICK i \in ran \cup {at} : i = out'[k][1]
      BY <1>8, <1>11, <1>12
    <3>3. i <= at
      BY <1>2
    <3> QED
      BY <3>1, <3>2, <3>3
  <2> QED
    BY <2>1, <2>2
<1> QED
  BY <1>1, <1>10, <1>13, <1>14 DEF Sent

LEMMA RunIInv ==
  ASSUME IInv, RunHandler
  PROVE  IInv'
<1>1. PICK sent \in SeqOf(factories[at].targets, MaxOut) :
        out' = out \o [k \in DOMAIN sent |-> <<at, sent[k]>>]
  BY DEF RunHandler
<1>2. /\ AtFactory /\ Matches(call, factories[at]) /\ ~Undecodable(call, factories[at])
      /\ ran' = ran \cup {at} /\ at' = at + 1
      /\ decided' = [decided EXCEPT ![at] = Rebuilt(call, factories[at])]
      /\ UNCHANGED <<builderVars, call, reply>>
  BY DEF RunHandler
<1>3. call # Idle /\ reply = "none" /\ at \in DOMAIN factories
  BY <1>2 DEF AtFactory
<1>4. UNCHANGED <<factories, built, call>> /\ Matching' = Matching
  BY <1>2, SameCall
<1>5. /\ at \in Matching /\ at \in Slots /\ ran = {i \in Matching : i < at}
      /\ ran' \subseteq Slots /\ DOMAIN decided' = Slots /\ Decided'
  BY <1>2, RunsAndDecides
<1>6. out' \in Seq(Slots \X Targets) /\ Sent'
  BY <1>1, <1>2, <1>4, <1>5, SentOn
<1>7. TypeOK'
  BY <1>2, <1>3, <1>4, <1>5, <1>6, LoopMoves DEF IInv, TypeOK
<1>8. Accepted'
  BY <1>2, StillAccepted
<1>9. Served'
  <2>1. ran' = {i \in Matching' : i < at'}
    BY <1>2, <1>3, <1>4, <1>5, LoopMoves DEF IInv
  <2>2. \A i \in ran' : ~Undecodable(call, factories[i])'
    BY <1>2, <1>3, SameCall DEF IInv, Served
  <2> QED
    BY <1>2, <1>3, <2>1, <2>2 DEF Served
<1> QED
  BY <1>5, <1>6, <1>7, <1>8, <1>9 DEF IInv

LEMMA FailIInv ==
  ASSUME IInv, HandlerFails
  PROVE  IInv'
<1>1. /\ AtFactory /\ Matches(call, factories[at]) /\ ran' = ran \cup {at} /\ at' = at
      /\ decided' = [decided EXCEPT ![at] = Rebuilt(call, factories[at])]
      /\ reply' = "handler_error" /\ out' = <<>> /\ UNCHANGED <<builderVars, call>>
  BY DEF HandlerFails
<1>2. call # Idle /\ reply = "none" /\ at \in DOMAIN factories
  BY <1>1 DEF AtFactory
<1>3. UNCHANGED <<factories, built, call>> /\ Matching' = Matching
  BY <1>1, SameCall
<1>4. /\ at \in Matching /\ at \in Slots /\ ran = {i \in Matching : i < at}
      /\ ran' \subseteq Slots /\ DOMAIN decided' = Slots /\ Decided'
  BY <1>1, RunsAndDecides
<1>5. TypeOK'
  BY <1>1, <1>3, <1>4 DEF IInv, TypeOK, Replies
<1>6. Accepted'
  BY <1>1, StillAccepted
<1>7. Served'
  BY <1>1, <1>2, <1>3, <1>4, LoopMoves DEF Served, IInv
<1>8. Sent'
  BY <1>1 DEF Sent
<1> QED
  BY <1>4, <1>5, <1>6, <1>7, <1>8 DEF IInv

LEMMA FinishIInv ==
  ASSUME IInv, Finish
  PROVE  IInv'
<1>1. /\ call # Idle /\ reply = "none" /\ at = Len(factories) + 1 /\ reply' = "ok"
      /\ UNCHANGED <<builderVars, call, at, out, ran, decided>>
  BY DEF Finish
<1>2. UNCHANGED <<factories, built, call>> /\ Matching' = Matching
  BY <1>1, SameCall
<1>3. TypeOK'
  BY <1>1, <1>2 DEF IInv, TypeOK, Replies
<1>4. Accepted'
  BY <1>1, SameCall DEF IInv, Accepted
<1>5. Served'
  BY <1>1, <1>2, SameCall DEF IInv, Served
<1>6. Sent' /\ Decided'
  BY <1>1, <1>2, SameCall DEF IInv, Sent, Decided
<1> QED
  BY <1>3, <1>4, <1>5, <1>6 DEF IInv

LEMMA NextIInv == IInv /\ [Next]_vars => IInv'
<1> SUFFICES ASSUME IInv, [Next]_vars PROVE IInv'
  OBVIOUS
<1>1. CASE Next
  BY <1>1, BuilderIInv, ReceiveIInv, SkipIInv, RunIInv, FailIInv, FinishIInv DEF Next
<1>2. CASE UNCHANGED vars
  <2>1. UNCHANGED <<builderVars, call, at, out, reply, ran, decided>>
    BY <1>2 DEF vars, callVars
  <2>2. UNCHANGED <<factories, built, call>> /\ Matching' = Matching
    BY <2>1, SameCall
  <2>3. TypeOK' /\ Accepted'
    BY <2>1, <2>2, SameCall DEF IInv, TypeOK, Accepted
  <2>4. Served' /\ Sent' /\ Decided'
    BY <2>1, <2>2, SameCall DEF IInv, Served, Sent, Decided
  <2> QED
    BY <2>3, <2>4 DEF IInv
<1> QED
  BY <1>1, <1>2

LEMMA Invariance == Spec => []IInv
  BY InitIInv, NextIInv, PTL DEF Spec
-----------------------------------------------------------------------------
(* Theorems.                                                               *)

\* The router's variables keep their types.
THEOREM TypeCorrect == Spec => []TypeOK
<1>1. IInv => TypeOK
  BY DEF IInv
<1> QED
  BY <1>1, Invariance, PTL

\* A trigger that is answered was shown to its listeners, in order and once;
\* one that fails emits nothing.
THEOREM ServesListeners == Spec => []ListenersServed
<1>1. IInv => ListenersServed
  <2> SUFFICES ASSUME IInv PROVE ListenersServed
    OBVIOUS
  <2>1. ASSUME reply \in {"ok", "handler_error"}
        PROVE  call # Idle /\ Listeners = Matching
    <3>1. call # Idle /\ Extracts(call) /\ call \in Requests
      BY <2>1 DEF IInv, Accepted, TypeOK
    <3> QED
      BY <3>1, ListenersMatch
  <2>2. ASSUME reply = "ok"
        PROVE  /\ ran = Listeners
               /\ \A k, l \in DOMAIN out : k <= l => out[k][1] <= out[l][1]
               /\ \A k \in DOMAIN out : out[k][1] \in Listeners
    <3>1. at = Len(factories) + 1 /\ ran = {i \in Matching : i < at}
      BY <2>1, <2>2 DEF IInv, Served
    <3>2. \A i \in Matching : i < at
      BY <3>1, FactoryType DEF IInv, Matching
    <3>3. ran = Listeners
      BY <2>1, <2>2, <3>1, <3>2
    <3> QED
      BY <3>3 DEF IInv, Sent
  <2>3. ASSUME reply = "handler_error"
        PROVE  out = <<>> /\ ran = {i \in Listeners : i <= at}
    BY <2>1, <2>3 DEF IInv, Served, Sent
  <2> QED
    BY <2>2, <2>3 DEF ListenersServed
<1> QED
  BY <1>1, Invariance, PTL

\* Process managers of one dispatch decide on what the request holds.
THEOREM DecidesOnRequest == Spec => []DecidedOnRequestState
<1>1. IInv => DecidedOnRequestState
  BY DEF IInv, Decided, DecidedOnRequestState, Rebuilt
<1> QED
  BY <1>1, Invariance, PTL

\* No answer rests on a history that some listener could not decode.
THEOREM PoisonStops == Spec => []PoisonStopsDispatch
<1>1. IInv => PoisonStopsDispatch
  <2> SUFFICES ASSUME IInv, reply = "ok", NEW i \in Listeners, NEW n \in DOMAIN call.process,
                      call.process[n].type \in factories[i].applies
               PROVE  call.process[n].decodes
    BY DEF PoisonStopsDispatch
  <2>1. call # Idle /\ Extracts(call) /\ call \in Requests
    BY DEF IInv, Accepted, TypeOK
  <2>2. i \in Matching /\ at = Len(factories) + 1
    BY <2>1, ListenersMatch DEF IInv, Served
  <2>3. i < at
    BY <2>2, FactoryType DEF IInv, Matching
  <2>4. ~Undecodable(call, factories[i])
    BY <2>1, <2>2, <2>3 DEF IInv, Served
  <2> QED
    BY <2>4 DEF Undecodable
<1> QED
  BY <1>1, Invariance, PTL

\* Readiness probes every endpoint through which a message leaves, whatever
\* handlers share a target in whatever modes.
THEOREM ProbesWhatItEmits == Spec => []EmitsThroughProbed
<1>1. IInv => EmitsThroughProbed
  <2> SUFFICES ASSUME IInv, NEW k \in DOMAIN out
               PROVE  IF out[k][2] \in factories[out[k][1]].syncTargets
                        THEN out[k][2] \in SyncOutputs
                        ELSE HasAsyncOutputs
    BY DEF EmitsThroughProbed
  <2>1. PICK i, t : i = out[k][1] /\ t = out[k][2]
    OBVIOUS
  <2>2. i \in ran /\ t \in factories[i].targets
    BY <2>1 DEF IInv, Sent
  <2>3. i \in DOMAIN factories
    <3>1. call # Idle
      BY <2>2 DEF IInv, Accepted
    <3>2. ran \subseteq Matching
      BY <2>2, <3>1 DEF IInv, Served, TypeOK, Replies
    <3> QED
      BY <2>2, <3>2 DEF Matching
  <2>4. t \in factories[i].syncTargets => t \in SyncOutputs
    BY <2>3 DEF SyncOutputs
  <2>5. t \notin factories[i].syncTargets => HasAsyncOutputs
    BY <2>2, <2>3 DEF HasAsyncOutputs
  <2> QED
    BY <2>1, <2>4, <2>5
<1> QED
  BY <1>1, Invariance, PTL

-----------------------------------------------------------------------------
(* The refinement of OrderedFanOut.                                        *)

\* The state of the fan-out, as FanOut substitutes it.
Phase ==
  CASE call = Idle -> "idle"
    [] call # Idle /\ reply = "none" -> "running"
    [] reply = "ok" -> "ok"
    [] OTHER -> "failed"

Todo ==
  {i \in DOMAIN factories :
     /\ call # Idle /\ reply = "none"
     /\ i >= at
     /\ Matches(call, factories[i])}

InReply == IF reply \in {"invalid", "handler_error"} THEN {} ELSE ran

\* The phases, one by one.
LEMMA Phases ==
  /\ call = Idle /\ reply = "none" => Phase = "idle"
  /\ call # Idle /\ reply = "none" => Phase = "running"
  /\ call # Idle /\ reply = "ok" => Phase = "ok"
  /\ call # Idle /\ reply \in {"invalid", "handler_error"} => Phase = "failed"
<1>1. call = Idle /\ reply = "none" => Phase = "idle"
  BY DEF Phase
<1>2. call # Idle /\ reply = "none" => Phase = "running"
  BY DEF Phase
<1>3. call # Idle /\ reply = "ok" => Phase = "ok"
  BY DEF Phase
<1>4. call # Idle /\ reply \in {"invalid", "handler_error"} => Phase = "failed"
  BY DEF Phase
<1> QED
  BY <1>1, <1>2, <1>3, <1>4

LEMMA NextPhases ==
  /\ call' = Idle /\ reply' = "none" => Phase' = "idle"
  /\ call' # Idle /\ reply' = "none" => Phase' = "running"
  /\ call' # Idle /\ reply' = "ok" => Phase' = "ok"
  /\ call' # Idle /\ reply' \in {"invalid", "handler_error"} => Phase' = "failed"
<1>1. call' = Idle /\ reply' = "none" => Phase' = "idle"
  BY DEF Phase
<1>2. call' # Idle /\ reply' = "none" => Phase' = "running"
  BY DEF Phase
<1>3. call' # Idle /\ reply' = "ok" => Phase' = "ok"
  BY DEF Phase
<1>4. call' # Idle /\ reply' \in {"invalid", "handler_error"} => Phase' = "failed"
  BY DEF Phase
<1> QED
  BY <1>1, <1>2, <1>3, <1>4

\* Nothing is to do unless a dispatch runs.
LEMMA NothingTodo ==
  /\ call = Idle \/ reply # "none" => Todo = {}
  /\ call' = Idle \/ reply' # "none" => Todo' = {}
BY DEF Todo

\* The steps of the fan-out, in these terms.
LEMMA FanOutSteps ==
  /\ Phase = "idle" /\ Todo = {} /\ InReply = {} => FanOut!Init
  /\ Phase # "running" /\ Phase' = "failed" /\ Todo' = {} /\ InReply' = {} => FanOut!Next
  /\ Phase # "running" /\ Phase' = "running" /\ Todo' \subseteq Slots /\ InReply' = {}
       => FanOut!Next
  /\ \A i \in Todo :
       /\ Phase = "running" /\ \A j \in Todo : i <= j
       /\ Todo' = Todo \ {i} /\ InReply' = InReply \cup {i} /\ Phase' = "running"
       => FanOut!Next
  /\ Phase = "running" /\ Phase' = "failed" /\ Todo' = {} /\ InReply' = {} => FanOut!Next
  /\ Phase = "running" /\ Todo = {} /\ Phase' = "ok" /\ UNCHANGED <<Todo, InReply>> => FanOut!Next
  /\ UNCHANGED <<Phase, Todo, InReply>> => UNCHANGED FanOut!fanVars
<1> USE DEF FanOut!Next, Phase, Todo, InReply
<1>1. Phase = "idle" /\ Todo = {} /\ InReply = {} => FanOut!Init
  BY DEF FanOut!Init
<1>2. Phase # "running" /\ Phase' = "failed" /\ Todo' = {} /\ InReply' = {} => FanOut!Next
  BY DEF FanOut!Accept
<1>3. Phase # "running" /\ Phase' = "running" /\ Todo' \subseteq Slots /\ InReply' = {}
        => FanOut!Next
  BY DEF FanOut!Accept
<1>4. ASSUME NEW i \in Todo,
             Phase = "running", \A j \in Todo : i <= j,
             Todo' = Todo \ {i}, InReply' = InReply \cup {i}, Phase' = "running"
      PROVE  FanOut!Next
  BY <1>4 DEF FanOut!Run
<1>5. Phase = "running" /\ Phase' = "failed" /\ Todo' = {} /\ InReply' = {} => FanOut!Next
  BY DEF FanOut!Fail
<1>6. Phase = "running" /\ Todo = {} /\ Phase' = "ok" /\ UNCHANGED <<Todo, InReply>> => FanOut!Next
  BY DEF FanOut!Reply
<1>7. UNCHANGED <<Phase, Todo, InReply>> => UNCHANGED FanOut!fanVars
  BY DEF FanOut!fanVars
<1> HIDE DEF FanOut!Next, Phase, Todo, InReply
<1> QED
  BY <1>1, <1>2, <1>3, <1>4, <1>5, <1>6, <1>7

\* What is to do, as the loop moves on.
LEMMA TodoMoves ==
  ASSUME IInv, AtFactory, at' = at + 1, reply' = reply, UNCHANGED <<builderVars, call>>
  PROVE  /\ at \in Todo => \A j \in Todo : at <= j
         /\ Todo' = Todo \ {at}
         /\ at \in Todo <=> Matches(call, factories[at])
<1>1. at \in DOMAIN factories /\ call # Idle /\ reply = "none" /\ at \in Nat
      /\ DOMAIN factories \subseteq Nat
  BY FactoryType DEF AtFactory, IInv
<1>2. factories' = factories /\ call' = call /\ Matching' = Matching
  BY SameCall
<1>3. Todo = {i \in Matching : i >= at} /\ Todo' = {i \in Matching : i >= at + 1}
  <2>1. Todo = {i \in Matching : i >= at}
    BY <1>1 DEF Todo, Matching
  <2>2. Todo' = {i \in Matching' : i >= at'}
    BY <1>1, <1>2 DEF Todo, Matching
  <2> QED
    BY <1>2, <2>1, <2>2
<1>4. \A i \in Matching : i >= at + 1 <=> i >= at /\ i # at
  BY <1>1 DEF Matching
<1>5. Todo' = Todo \ {at}
  BY <1>3, <1>4
<1>6. \A j \in Todo : at <= j
  BY <1>1, <1>3 DEF Matching
<1>7. at \in Todo <=> Matches(call, factories[at])
  BY <1>1 DEF Todo
<1> QED
  BY <1>5, <1>6, <1>7

\* Both routers are OrderedFanOuts, whatever the handlers are and whichever
\* of them fails.
THEOREM ImplementsFanOut == Spec => FanOutSpec
<1>1. Init => FanOut!Init
  <2> SUFFICES ASSUME Init PROVE FanOut!Init
    OBVIOUS
  <2>1. call = Idle /\ reply = "none" /\ ran = {}
    BY DEF Init
  <2>2. Phase = "idle" /\ InReply = {} /\ Todo = {}
    BY <2>1, Phases, NothingTodo DEF InReply
  <2> QED
    BY <2>2, FanOutSteps
<1>2. ASSUME IInv, [Next]_vars PROVE [FanOut!Next]_(FanOut!fanVars)
  <2>1. CASE BuilderNext /\ UNCHANGED callVars
    <3>1. call = Idle /\ reply = "none" /\ UNCHANGED <<call, reply, ran>>
      BY <1>2, <2>1 DEF BuilderNext, WithHandler, Build, IInv, Accepted, callVars
    <3>2. Phase' = Phase /\ Todo' = Todo /\ InReply' = InReply
      BY <3>1, Phases, NextPhases, NothingTodo DEF InReply
    <3> QED
      BY <3>2, FanOutSteps
  <2>2. CASE Receive
    <3>1. /\ call' \in Requests /\ reply' \in {"none", "invalid"} /\ ran' = {}
          /\ factories' = factories /\ (call = Idle \/ reply # "none")
      BY <2>2 DEF Receive, builderVars
    <3>2. call' # Idle
      BY <3>1 DEF Requests, Idle
    <3>3. Phase # "running"
      BY <1>2, <3>1, Phases DEF IInv, Accepted, TypeOK, Replies
    <3>4. InReply' = {}
      BY <3>1 DEF InReply
    <3>5. CASE reply' = "none"
      <4>1. Phase' = "running"
        BY <3>2, <3>5, NextPhases
      <4>2. Todo' \subseteq Slots
        BY <1>2, <3>1, FactoryType DEF Todo, IInv
      <4> QED
        BY <3>3, <3>4, <4>1, <4>2, FanOutSteps
    <3>6. CASE reply' = "invalid"
      <4>1. Phase' = "failed" /\ Todo' = {}
        BY <3>2, <3>6, NextPhases, NothingTodo
      <4> QED
        BY <3>3, <3>4, <4>1, FanOutSteps
    <3> QED
      BY <3>1, <3>5, <3>6
  <2>3. CASE SkipFactory
    <3>1. /\ AtFactory /\ ~Matches(call, factories[at]) /\ at' = at + 1
          /\ UNCHANGED <<builderVars, call, reply, ran>>
      BY <2>3 DEF SkipFactory
    <3>2. call # Idle /\ reply = "none"
      BY <3>1 DEF AtFactory
    <3>3. Todo' = Todo
      BY <1>2, <3>1, TodoMoves
    <3>4. Phase' = Phase /\ InReply' = InReply
      BY <3>1, <3>2, Phases, NextPhases DEF InReply
    <3> QED
      BY <3>3, <3>4, FanOutSteps
  <2>4. CASE RunHandler
    <3>1. /\ AtFactory /\ Matches(call, factories[at]) /\ at' = at + 1 /\ ran' = ran \cup {at}
          /\ UNCHANGED <<builderVars, call, reply>>
      BY <2>4 DEF RunHandler
    <3>2. call # Idle /\ reply = "none"
      BY <3>1 DEF AtFactory
    <3>3. at \in Todo /\ (\A j \in Todo : at <= j) /\ Todo' = Todo \ {at}
      BY <1>2, <3>1, TodoMoves
    <3>4. Phase = "running" /\ Phase' = "running" /\ InReply' = InReply \cup {at}
      BY <3>1, <3>2, Phases, NextPhases DEF InReply
    <3> QED
      BY <3>3, <3>4, FanOutSteps
  <2>5. CASE HandlerFails
    <3>1. AtFactory /\ reply' = "handler_error" /\ call' = call
      BY <2>5 DEF HandlerFails
    <3>2. call # Idle /\ reply = "none"
      BY <3>1 DEF AtFactory
    <3>3. Phase = "running" /\ Phase' = "failed" /\ Todo' = {} /\ InReply' = {}
      BY <3>1, <3>2, Phases, NextPhases, NothingTodo DEF InReply
    <3> QED
      BY <3>3, FanOutSteps
  <2>6. CASE Finish
    <3>1. /\ call # Idle /\ reply = "none" /\ at = Len(factories) + 1 /\ reply' = "ok"
          /\ UNCHANGED <<call, ran>>
      BY <2>6 DEF Finish
    <3>2. Todo = {}
      <4>1. \A i \in DOMAIN factories : ~(i >= at)
        BY <1>2, <3>1, FactoryType DEF IInv
      <4> QED
        BY <4>1 DEF Todo
    <3>3. Phase = "running" /\ Phase' = "ok" /\ Todo' = {} /\ InReply' = InReply
      BY <3>1, Phases, NextPhases, NothingTodo DEF InReply
    <3> QED
      BY <3>2, <3>3, FanOutSteps
  <2>7. CASE UNCHANGED vars
    <3>1. UNCHANGED <<factories, call, at, reply, ran>>
      BY <2>7 DEF vars, builderVars, callVars
    <3>2. Phase' = Phase /\ Todo' = Todo /\ InReply' = InReply
      BY <3>1 DEF Phase, Todo, InReply, Matches, LastPage
    <3> QED
      BY <3>2, FanOutSteps
  <2> QED
    BY <1>2, <2>1, <2>2, <2>3, <2>4, <2>5, <2>6, <2>7 DEF Next
<1> QED
  BY <1>1, <1>2, Invariance, PTL DEF Spec, FanOutSpec, FanOut!Spec
=============================================================================
