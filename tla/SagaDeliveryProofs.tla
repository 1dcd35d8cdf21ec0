-------------------------- MODULE SagaDeliveryProofs --------------------------
(***************************************************************************)
(* Proofs about SagaDelivery, for any aggregates, plans and bounds.  The   *)
(* argument: a deferred header, wherever its command is by now, names the  *)
(* event that triggered it (HeadersNameTrigger).  So a compensation reads  *)
(* its own trigger, and two commands of one trigger that meet at a target  *)
(* have the same key and the second is answered from the cache.            *)
(***************************************************************************)
EXTENDS SagaDelivery, TLAPS

\* A deferred header is that of the command's own trigger.
NamesTrigger(c) == AngzarrDeferred(c.header) => c.header = DeferredHeader(c.trigger)

HeadersNameTrigger ==
  /\ \A c \in cmds \cup notes : NamesTrigger(c)
  /\ \A t \in Targets : \A i \in DOMAIN log[t] : NamesTrigger(log[t][i])

IInv == TypeOK /\ HeadersNameTrigger /\ CompensationHitsItsTrigger

-----------------------------------------------------------------------------
\* The sequence after an interval of pages, or after a snapshot, is a natural
\* number: calculate_next_sequence of a whole book.
LEMMA NextSequenceType ==
  ASSUME NEW n \in Nat, NEW covers \in {0, n}
  PROVE  NextSequence(covers .. n - 1, covers) \in Nat
<1> DEFINE pages == covers .. n - 1
<1>1. CASE pages = {}
  <2>1. CASE covers > 0
    BY <1>1, <2>1 DEF NextSequence
  <2>2. CASE covers = 0
    BY <1>1, <2>2 DEF NextSequence
  <2> QED
    BY <2>1, <2>2
<1>2. CASE pages # {}
  <2>1. n - 1 \in pages /\ \A k \in pages : k <= n - 1
    BY <1>2
  <2>2. (CHOOSE m \in pages : \A k \in pages : k <= m) \in Nat
    BY <2>1
  <2> QED
    BY <1>2, <2>2 DEF NextSequence
<1> QED
  BY <1>1, <1>2

\* A history of a target grows at its end.
LEMMA AppendToLog ==
  ASSUME NEW S, NEW f \in [Targets -> Seq(S)], NEW t \in Targets, NEW x \in S
  PROVE  [f EXCEPT ![t] = Append(@, x)] \in [Targets -> Seq(S)]
<1>1. Append(f[t], x) \in Seq(S)
  OBVIOUS
<1> QED
  BY <1>1

\* What the bus delivers are commands of the trigger it delivers, and their
\* deferred headers name it.
LEMMA DeliveredCommands ==
  ASSUME TypeOK, NEW e \in Triggers, Deliver(e), NEW c \in cmds', c \notin cmds
  PROVE  c \in Commands /\ NamesTrigger(c)
<1> USE SagaDeliveryAssumption
<1>1. PICK offered \in Offers, snapshots \in BOOLEAN :
        /\ \A d \in plan.drafts[e] :
             d.style \in {"stamped", "restamped"} => HasDomain(offered, Domain[d.target])
        /\ cmds' = cmds \cup
             {Command(e, d, HeaderOf(e, d, offered, IF snapshots THEN Len(log[d.target]) ELSE 0)) :
                d \in plan.drafts[e]}
  BY DEF Deliver
<1>2. PICK d \in plan.drafts[e] :
        c = Command(e, d, HeaderOf(e, d, offered,
                                   IF snapshots THEN Len(log[d.target]) ELSE 0))
  BY <1>1
<1> DEFINE t == d.target
           covers == IF snapshots THEN Len(log[t]) ELSE 0
           h == HeaderOf(e, d, offered, covers)
<1>3. d \in Drafts /\ t \in Targets /\ d.style \in Styles
  <2>1. plan.drafts \in [Triggers -> SUBSET Drafts]
    BY DEF TypeOK
  <2>2. d \in Drafts
    BY <2>1
  <2> QED
    BY <2>2 DEF Drafts
<1>4. Len(log[t]) \in Nat
  BY <1>3 DEF TypeOK
<1>5. e.root \in Roots /\ e.seq \in Nat
  BY DEF Triggers
<1>6. d.style \in {"stamped", "restamped"} => SequenceFor(offered, Domain[t]) \in Nat
  <2>1. PICK D \in SUBSET Domains, at \in [Domains -> Targets] :
          offered = [x \in D |-> Len(log[at[x]])]
    BY DEF Offers
  <2>2. HasDomain(offered, Domain[t]) => Domain[t] \in D
    BY <2>1 DEF HasDomain
  <2>3. Domain[t] \in D => offered[Domain[t]] = Len(log[at[Domain[t]]])
    BY <2>1
  <2>4. Domain[t] \in D => at[Domain[t]] \in Targets
    BY <2>1
  <2>5. Domain[t] \in D => Len(log[at[Domain[t]]]) \in Nat
    BY <2>4 DEF TypeOK
  <2> QED
    BY <1>1, <2>2, <2>3, <2>5 DEF SequenceFor
<1>7. h = Unset \/ (h \in Headers /\ (AngzarrDeferred(h) => h = DeferredHeader(e)))
  <2>1. CASE d.style = "unset"
    BY <2>1 DEF HeaderOf
  <2>2. CASE d.style = "deferred"
    BY <2>2, <1>5 DEF HeaderOf, DeferredHeader, Headers
  <2>3. CASE d.style \in {"stamped", "restamped"}
    <3>1. h = Explicit(SequenceFor(offered, Domain[t]))
      BY <2>3 DEF HeaderOf, StampCommand
    <3> QED
      BY <3>1, <2>3, <1>6 DEF Explicit, Headers, AngzarrDeferred
  <2>4. CASE d.style = "booked"
    <3>1. h = Explicit(NextSequence(covers .. Len(log[t]) - 1, covers))
      BY <2>4 DEF HeaderOf
    <3>2. NextSequence(covers .. Len(log[t]) - 1, covers) \in Nat
      <4>1. covers \in {0, Len(log[t])}
        OBVIOUS
      <4> HIDE DEF covers, t
      <4> QED
        BY <1>4, <4>1, NextSequenceType
    <3> QED
      BY <3>1, <3>2 DEF Explicit, Headers, AngzarrDeferred
  <2> QED
    BY <2>1, <2>2, <2>3, <2>4, <1>3 DEF Styles
<1>8. Filled(h, e) \in Headers /\ (AngzarrDeferred(Filled(h, e)) => Filled(h, e) = DeferredHeader(e))
  BY <1>5, <1>7 DEF Filled, DeferredHeader, Headers, Unset
<1>9. c = [trigger |-> e, draft |-> d, header |-> Filled(h, e),
           seen |-> IF d.style = "booked" THEN Len(log[t]) ELSE 0]
  BY <1>2 DEF Command
<1> HIDE DEF h, covers, t
<1> QED
  BY <1>3, <1>4, <1>8, <1>9 DEF Commands, NamesTrigger

\* Init has nothing on its way and nothing recorded.
LEMMA InitIInv == Init => IInv
<1> SUFFICES ASSUME Init PROVE IInv
  OBVIOUS
<1>1. TypeOK
  BY DEF Init, TypeOK
<1>2. HeadersNameTrigger /\ CompensationHitsItsTrigger
  BY DEF Init, HeadersNameTrigger, CompensationHitsItsTrigger
<1> QED
  BY <1>1, <1>2 DEF IInv

-----------------------------------------------------------------------------
\* Commands on their way, recorded or rejected are ones the saga drafted.
LEMMA NextIInv == IInv /\ [Next]_vars => IInv'
<1> SUFFICES ASSUME IInv, [Next]_vars PROVE IInv'
  OBVIOUS
<1> USE SagaDeliveryAssumption
<1> USE DEF IInv
<1>1. ASSUME NEW e \in Triggers, Deliver(e)
      PROVE  IInv'
  <2>1. UNCHANGED <<plan, due, answered, log, notes, revoked>>
    BY <1>1 DEF Deliver
  <2>2. \A c \in cmds' : c \in Commands /\ NamesTrigger(c)
    <3> SUFFICES ASSUME NEW c \in cmds' PROVE c \in Commands /\ NamesTrigger(c)
      OBVIOUS
    <3>1. CASE c \in cmds
      BY <3>1 DEF TypeOK, HeadersNameTrigger
    <3>2. CASE c \notin cmds
      BY <1>1, <3>2, DeliveredCommands
    <3> QED
      BY <3>1, <3>2
  <2> QED
    BY <2>1, <2>2 DEF TypeOK, HeadersNameTrigger, CompensationHitsItsTrigger
<1>2. ASSUME NEW e \in Triggers, Ack(e)
      PROVE  IInv'
  BY <1>2 DEF Ack, TypeOK, HeadersNameTrigger, CompensationHitsItsTrigger
<1>3. ASSUME NEW c \in cmds, Lose(c)
      PROVE  IInv'
  BY <1>3 DEF Lose, TypeOK, HeadersNameTrigger, CompensationHitsItsTrigger
<1>4. ASSUME NEW c \in cmds, AnswerFromCache(c) \/ Accept(c) \/ Reject(c)
      PROVE  IInv'
  <2>1. c \in Commands /\ NamesTrigger(c) /\ c.draft.target \in Targets
    BY DEF TypeOK, HeadersNameTrigger, Commands, Drafts
  <2>2. /\ cmds' \subseteq cmds
        /\ answered' \subseteq Triggers \X Drafts
        /\ UNCHANGED <<plan, due, revoked>>
    BY <1>4, <2>1 DEF AnswerFromCache, Accept, Reject, Answer, TypeOK, Commands
  <2>3. notes' \subseteq notes \cup {c}
    BY <1>4 DEF AnswerFromCache, Accept, Reject
  <2>4. log' = log \/ log' = [log EXCEPT ![c.draft.target] = Append(@, c)]
    BY <1>4 DEF AnswerFromCache, Accept, Reject
  <2>5. log' \in [Targets -> Seq(Commands \cup {Other})]
    <3> DEFINE S == Commands \cup {Other}
               t == c.draft.target
    <3>1. log \in [Targets -> Seq(S)] /\ c \in S /\ t \in Targets
      BY <2>1 DEF TypeOK
    <3>2. log' = log \/ log' = [log EXCEPT ![t] = Append(@, c)]
      BY <2>4
    <3> HIDE DEF S, t
    <3>3. log' \in [Targets -> Seq(S)]
      BY <3>1, <3>2, AppendToLog
    <3> QED
      BY <3>3 DEF S
  <2>6. \A t \in Targets : \A i \in DOMAIN log'[t] : NamesTrigger(log'[t][i])
    <3> SUFFICES ASSUME NEW t \in Targets, NEW i \in DOMAIN log'[t]
                 PROVE  NamesTrigger(log'[t][i])
      OBVIOUS
    <3>1. log[t] \in Seq(Commands \cup {Other})
      BY DEF TypeOK
    <3>2. log'[t] = log[t] \/ log'[t] = Append(log[t], c)
      BY <2>1, <2>4 DEF TypeOK
    <3>3. log'[t][i] = c \/ (i \in DOMAIN log[t] /\ log'[t][i] = log[t][i])
      BY <3>1, <3>2
    <3> QED
      BY <2>1, <3>3 DEF HeadersNameTrigger
  <2> QED
    BY <2>1, <2>2, <2>3, <2>5, <2>6 DEF TypeOK, HeadersNameTrigger, CompensationHitsItsTrigger
<1>5. ASSUME NEW t \in Targets, OtherWriter(t)
      PROVE  IInv'
  <2>1. log' = [log EXCEPT ![t] = Append(@, Other)] /\ UNCHANGED <<plan, due, cmds, answered, notes, revoked>>
    BY <1>5 DEF OtherWriter
  <2>2. log' \in [Targets -> Seq(Commands \cup {Other})]
    BY <2>1, AppendToLog DEF TypeOK
  <2>3. NamesTrigger(Other)
    BY DEF NamesTrigger, AngzarrDeferred, Other, Unset
  <2>4. \A u \in Targets : \A i \in DOMAIN log'[u] : NamesTrigger(log'[u][i])
    <3> SUFFICES ASSUME NEW u \in Targets, NEW i \in DOMAIN log'[u]
                 PROVE  NamesTrigger(log'[u][i])
      OBVIOUS
    <3>1. log[u] \in Seq(Commands \cup {Other})
      BY DEF TypeOK
    <3>2. log'[u] = log[u] \/ log'[u] = Append(log[u], Other)
      BY <2>1 DEF TypeOK
    <3>3. log'[u][i] = Other \/ (i \in DOMAIN log[u] /\ log'[u][i] = log[u][i])
      BY <3>1, <3>2
    <3> QED
      BY <2>3, <3>3 DEF HeadersNameTrigger
  <2> QED
    BY <2>1, <2>2, <2>4 DEF TypeOK, HeadersNameTrigger, CompensationHitsItsTrigger
<1>6. ASSUME NEW c \in notes, Revoke(c)
      PROVE  IInv'
  <2>1. c \in Commands /\ NamesTrigger(c)
    BY DEF TypeOK, HeadersNameTrigger
  <2> DEFINE r == [trigger |-> c.trigger, key |-> DispatchKey(c), context |-> FromNotification(c),
                   by |-> IF RejectionKey(c) \in Rejected THEN "method" ELSE "nobody"]
  <2>2. /\ notes' \subseteq notes
        /\ revoked' = revoked \cup {r}
        /\ UNCHANGED <<plan, due, cmds, answered, log>>
    BY <1>6 DEF Revoke
  <2>3. r.trigger \in Triggers /\ r.trigger = c.trigger /\ r.context = FromNotification(c)
    BY <2>1 DEF Commands
  <2>4. FromNotification(c) \in Contexts
    BY <2>1 DEF FromNotification, Contexts, AngzarrDeferred, Commands, Headers
  <2>5. FromNotification(c).source # NoRoot =>
          FromNotification(c) = [source |-> c.trigger.root, seq |-> c.trigger.seq]
    BY <2>1 DEF FromNotification, NamesTrigger, DeferredHeader
  <2> HIDE DEF r
  <2> QED
    BY <2>2, <2>3, <2>4, <2>5 DEF TypeOK, HeadersNameTrigger, CompensationHitsItsTrigger
<1>7. ASSUME UNCHANGED vars
      PROVE  IInv'
  BY <1>7 DEF vars, TypeOK, HeadersNameTrigger, CompensationHitsItsTrigger
<1>8. plan.crowded \subseteq Targets
  BY DEF TypeOK
<1> QED
  BY <1>1, <1>2, <1>3, <1>4, <1>5, <1>6, <1>7, <1>8 DEF Next

LEMMA Invariance == Spec => []IInv
<1>1. Init => IInv
  BY InitIInv
<1>2. IInv /\ [Next]_vars => IInv'
  BY NextIInv
<1> QED
  BY <1>1, <1>2, PTL DEF Spec

-----------------------------------------------------------------------------
\* The variables keep their types, whatever sagas draft: every header that
\* Destinations produces is one that a destination understands.
THEOREM TypeCorrect == Spec => []TypeOK
<1>1. IInv => TypeOK
  BY DEF IInv
<1> QED
  BY <1>1, Invariance, PTL

\* What a #[rejected] method reads from CompensationContext is the event that
\* triggered the rejected command, for any number of triggers and targets.
THEOREM CompensationFindsTrigger == Spec => []CompensationHitsItsTrigger
<1>1. IInv => CompensationHitsItsTrigger
  BY DEF IInv
<1> QED
  BY <1>1, Invariance, PTL

-----------------------------------------------------------------------------
\* What Append adds to a sequence is one entry after the others.
LEMMA Appended ==
  ASSUME NEW S, NEW s \in Seq(S), NEW x \in S
  PROVE  /\ Len(s) + 1 \in Nat /\ Len(s) + 1 \notin DOMAIN s
         /\ DOMAIN Append(s, x) = DOMAIN s \cup {Len(s) + 1}
         /\ Append(s, x)[Len(s) + 1] = x
         /\ \A i \in DOMAIN s : Append(s, x)[i] = s[i]
<1>1. Len(s) \in Nat /\ DOMAIN s = 1 .. Len(s)
  OBVIOUS
<1>2. Append(s, x) \in Seq(S) /\ Len(Append(s, x)) = Len(s) + 1
  OBVIOUS
<1>3. DOMAIN Append(s, x) = 1 .. Len(s) + 1
  BY <1>2
<1>4. Append(s, x)[Len(s) + 1] = x
  OBVIOUS
<1>5. \A i \in DOMAIN s : Append(s, x)[i] = s[i]
  OBVIOUS
<1> QED
  BY <1>1, <1>3, <1>4, <1>5

\* The places that Delivery is about.
Places ==
  UNION {{<<log[t][i].trigger, t, i>> :
            i \in {j \in DOMAIN log[t] : AngzarrDeferred(log[t][j].header)}} :
         t \in Targets}

\* An entry of Places is a deferred command that took effect.
LEMMA PlacesOf ==
  ASSUME NEW p
  PROVE  p \in Places <=>
    \E t \in Targets : \E i \in DOMAIN log[t] :
      AngzarrDeferred(log[t][i].header) /\ p = <<log[t][i].trigger, t, i>>
BY DEF Places

\* A command that runs leaves the places alone or takes a new one, where no
\* command of its trigger was: the others have its key.
LEMMA AcceptTakes ==
  ASSUME IInv, NEW c \in cmds, Accept(c), Places' # Places
  PROVE  \E p \in Places' \ Places :
           /\ p \in Triggers \X Targets \X Nat
           /\ \A q \in Places : <<q[1], q[2]>> # <<p[1], p[2]>>
           /\ Places' = Places \cup {<<p[1], p[2], p[3]>>}
<1> DEFINE t == c.draft.target
           n == Len(log[t]) + 1
           p == <<c.trigger, t, n>>
<1>1. /\ c \in Commands /\ NamesTrigger(c)
      /\ t \in Targets /\ c.trigger \in Triggers
  BY DEF IInv, TypeOK, HeadersNameTrigger, Commands, Drafts
<1>2. log[t] \in Seq(Commands \cup {Other}) /\ DOMAIN log = Targets
  BY <1>1 DEF IInv, TypeOK
<1>3. Runs(c) /\ log' = [log EXCEPT ![t] = Append(@, c)]
  BY DEF Accept
<1>4. /\ log'[t] = Append(log[t], c)
      /\ \A u \in Targets : u # t => log'[u] = log[u]
  BY <1>1, <1>2, <1>3
<1>5. /\ n \in Nat /\ n \notin DOMAIN log[t]
      /\ DOMAIN log'[t] = DOMAIN log[t] \cup {n}
      /\ log'[t][n] = c
      /\ \A i \in DOMAIN log[t] : log'[t][i] = log[t][i]
  <2>1. c \in Commands \cup {Other}
    BY <1>1
  <2> QED
    BY <1>2, <1>4, <2>1, Appended
<1> HIDE DEF t, n
<1>6. \A q : q \in Places' <=> q \in Places \/ (AngzarrDeferred(c.header) /\ q = p)
  <2>1. \A q : q \in Places' <=>
          \E u \in Targets : \E i \in DOMAIN log'[u] :
            AngzarrDeferred(log'[u][i].header) /\ q = <<log'[u][i].trigger, u, i>>
    BY DEF Places
  <2>2. \A q : q \in Places <=>
          \E u \in Targets : \E i \in DOMAIN log[u] :
            AngzarrDeferred(log[u][i].header) /\ q = <<log[u][i].trigger, u, i>>
    BY PlacesOf
  <2>3. ASSUME NEW q, q \in Places'
        PROVE  q \in Places \/ (AngzarrDeferred(c.header) /\ q = p)
    <3>1. PICK u \in Targets : \E i \in DOMAIN log'[u] :
            AngzarrDeferred(log'[u][i].header) /\ q = <<log'[u][i].trigger, u, i>>
      BY <2>1, <2>3
    <3>2. PICK i \in DOMAIN log'[u] :
            AngzarrDeferred(log'[u][i].header) /\ q = <<log'[u][i].trigger, u, i>>
      BY <3>1
    <3>3. CASE u = t /\ i = n
      BY <1>5, <3>2, <3>3
    <3>4. CASE ~(u = t /\ i = n)
      <4>1. i \in DOMAIN log[u] /\ log'[u][i] = log[u][i]
        BY <1>4, <1>5, <3>2, <3>4
      <4> QED
        BY <2>2, <3>2, <4>1
    <3> QED
      BY <3>3, <3>4
  <2>4. ASSUME NEW q, q \in Places
        PROVE  q \in Places'
    <3>1. PICK u \in Targets : \E i \in DOMAIN log[u] :
            AngzarrDeferred(log[u][i].header) /\ q = <<log[u][i].trigger, u, i>>
      BY <2>2, <2>4
    <3>2. PICK i \in DOMAIN log[u] :
            AngzarrDeferred(log[u][i].header) /\ q = <<log[u][i].trigger, u, i>>
      BY <3>1
    <3>3. i \in DOMAIN log'[u] /\ log'[u][i] = log[u][i]
      BY <1>4, <1>5
    <3> QED
      BY <2>1, <3>2, <3>3
  <2>5. AngzarrDeferred(c.header) => p \in Places'
    BY <1>1, <1>5, <2>1
  <2> QED
    BY <2>3, <2>4, <2>5
<1>7. AngzarrDeferred(c.header)
  BY <1>6
<1>8. ~Handled(t, c)
  BY <1>3, <1>7 DEF Runs, t
<1>9. \A q \in Places : <<q[1], q[2]>> # <<c.trigger, t>>
  <2> SUFFICES ASSUME NEW q \in Places, q[1] = c.trigger, q[2] = t
               PROVE  FALSE
    OBVIOUS
  <2>1. PICK u \in Targets : \E i \in DOMAIN log[u] :
          AngzarrDeferred(log[u][i].header) /\ q = <<log[u][i].trigger, u, i>>
    BY PlacesOf
  <2>2. PICK i \in DOMAIN log[u] :
          AngzarrDeferred(log[u][i].header) /\ q = <<log[u][i].trigger, u, i>>
    BY <2>1
  <2>3. u = t /\ log[t][i].trigger = c.trigger
    BY <2>2
  <2>4. log[t][i].header = DeferredHeader(c.trigger) /\ c.header = DeferredHeader(c.trigger)
    BY <1>1, <1>7, <2>2, <2>3 DEF IInv, HeadersNameTrigger, NamesTrigger
  <2> QED
    BY <1>8, <2>2, <2>3, <2>4 DEF Handled, Key
<1>10. p \in Triggers \X Targets \X Nat /\ p \in Places' \ Places
  <2>1. p \notin Places
    BY <1>9
  <2> QED
    BY <1>1, <1>5, <1>6, <1>7, <2>1
<1>11. Places' = Places \cup {<<p[1], p[2], p[3]>>}
  BY <1>6, <1>7
<1> QED
  BY <1>9, <1>10, <1>11

\* Nothing else that happens takes or frees a place.
LEMMA DeliveryStep ==
  IInv /\ [Next]_vars => [Delivery!Next]_Places
<1> SUFFICES ASSUME IInv, [Next]_vars, Places' # Places
             PROVE  Delivery!Next
  BY DEF Delivery!Next, Places
<1>1. CASE \E c \in cmds : Accept(c)
  BY <1>1, AcceptTakes DEF Delivery!Next, Delivery!Take, Places
<1>2. CASE \E t \in plan.crowded : OtherWriter(t)
  <2> plan.crowded \subseteq Targets
    BY SagaDeliveryAssumption DEF IInv, TypeOK
  <2>1. PICK t \in Targets : OtherWriter(t)
    BY <1>2
  <2>2. log[t] \in Seq(Commands \cup {Other}) /\ DOMAIN log = Targets
    BY DEF IInv, TypeOK
  <2>3. /\ log'[t] = Append(log[t], Other)
        /\ \A u \in Targets : u # t => log'[u] = log[u]
    BY <2>1, <2>2 DEF OtherWriter
  <2>4. ~AngzarrDeferred(Other.header)
    BY DEF AngzarrDeferred, Other, Unset
  <2>5. \A u \in Targets :
          {<<log'[u][i].trigger, u, i>> :
             i \in {j \in DOMAIN log'[u] : AngzarrDeferred(log'[u][j].header)}} =
          {<<log[u][i].trigger, u, i>> :
             i \in {j \in DOMAIN log[u] : AngzarrDeferred(log[u][j].header)}}
    <3> SUFFICES ASSUME NEW u \in Targets
                 PROVE  /\ {j \in DOMAIN log'[u] : AngzarrDeferred(log'[u][j].header)} =
                             {j \in DOMAIN log[u] : AngzarrDeferred(log[u][j].header)}
                        /\ \A j \in DOMAIN log[u] : log'[u][j] = log[u][j]
      OBVIOUS
    <3>1. CASE u # t
      BY <2>3, <3>1
    <3>2. CASE u = t
      <4>1. /\ DOMAIN log'[t] = DOMAIN log[t] \cup {Len(log[t]) + 1}
            /\ log'[t][Len(log[t]) + 1] = Other
            /\ \A j \in DOMAIN log[t] : log'[t][j] = log[t][j]
        BY <2>2, <2>3, Appended
      <4> QED
        BY <2>4, <3>2, <4>1
    <3> QED
      BY <3>1, <3>2
  <2>6. Places' = Places
    BY <2>5 DEF Places
  <2> QED
    BY <2>6
<1>3. CASE log' = log
  BY <1>3 DEF Places
<1>4. \/ \E c \in cmds : Accept(c)
      \/ \E t \in plan.crowded : OtherWriter(t)
      \/ log' = log
  BY DEF Next, Deliver, Ack, Lose, AnswerFromCache, Reject, Revoke, vars
<1> QED
  BY <1>1, <1>2, <1>3, <1>4

\* A redelivered trigger is a no-op at the destination: SagaDelivery implements
\* OncePerTrigger, for every plan of deferred and other headers.
THEOREM ImplementsOncePerTrigger == Spec => DeliverySpec
<1>1. Init => Delivery!Init
  BY DEF Init, Delivery!Init
<1>2. IInv /\ [Next]_vars => [Delivery!Next]_Places
  BY DeliveryStep
<1>3. Spec => []IInv
  BY Invariance
<1> QED
  BY <1>1, <1>2, <1>3, PTL DEF Spec, DeliverySpec, Delivery!Spec, Places

-----------------------------------------------------------------------------
\* A book's next sequence is its length, with a snapshot of all of it or none.
LEMMA NextSequenceIsLength ==
  ASSUME NEW n \in Nat, NEW covers \in {0, n}
  PROVE  NextSequence(covers .. n - 1, covers) = n
<1> DEFINE pages == covers .. n - 1
<1>1. CASE pages = {}
  <2>1. CASE covers > 0
    BY <1>1, <2>1 DEF NextSequence
  <2>2. CASE covers = 0
    <3>1. n = 0
      <4>1. n > 0 => 0 \in pages
        BY <2>2
      <4> QED
        BY <1>1, <4>1
    <3> QED
      BY <1>1, <2>2, <3>1 DEF NextSequence
  <2> QED
    BY <2>1, <2>2
<1>2. CASE pages # {}
  <2> DEFINE last == CHOOSE m \in pages : \A k \in pages : k <= m
  <2>1. n - 1 \in pages /\ \A k \in pages : k <= n - 1
    BY <1>2
  <2>2. last \in pages /\ \A k \in pages : k <= last
    BY <2>1
  <2>3. last \in Int /\ last <= n - 1 /\ n - 1 <= last
    BY <2>1, <2>2
  <2>4. last + 1 = n
    <3> HIDE DEF last
    <3> QED
      BY <2>3
  <2> QED
    BY <1>2, <2>4 DEF NextSequence
<1> QED
  BY <1>1, <1>2

\* A command with a book's next sequence carries the length its saga saw.
BookedHeaders == \A c \in cmds : c.draft.style = "booked" => c.header = Explicit(c.seen)

\* Deliver numbers such a command from the history its saga read.
LEMMA BookedDelivered ==
  ASSUME TypeOK, BookedHeaders, NEW e \in Triggers, Deliver(e)
  PROVE  BookedHeaders'
<1> USE SagaDeliveryAssumption
<1>1. PICK offered \in Offers, snapshots \in BOOLEAN :
        cmds' = cmds \cup
          {Command(e, d, HeaderOf(e, d, offered, IF snapshots THEN Len(log[d.target]) ELSE 0)) :
             d \in plan.drafts[e]}
  BY DEF Deliver
<1>2. ASSUME NEW d \in plan.drafts[e], d.style = "booked",
             NEW covers, covers = IF snapshots THEN Len(log[d.target]) ELSE 0
      PROVE  LET c == Command(e, d, HeaderOf(e, d, offered, covers))
             IN  c.header = Explicit(c.seen)
  <2> DEFINE n == Len(log[d.target])
  <2>1. d.target \in Targets
    <3>1. plan.drafts \in [Triggers -> SUBSET Drafts]
      BY DEF TypeOK
    <3> QED
      BY <3>1 DEF Drafts
  <2>2. n \in Nat /\ covers \in {0, n}
    BY <1>2, <2>1 DEF TypeOK
  <2>3. NextSequence(covers .. n - 1, covers) = n
    <3> HIDE DEF n
    <3> QED
      BY <2>2, NextSequenceIsLength
  <2>4. HeaderOf(e, d, offered, covers) = Explicit(n)
    BY <1>2, <2>3 DEF HeaderOf
  <2>5. Filled(Explicit(n), e) = Explicit(n)
    BY DEF Filled, Explicit, Unset
  <2> HIDE DEF n
  <2>6. Command(e, d, HeaderOf(e, d, offered, covers)) =
          [trigger |-> e, draft |-> d, header |-> Explicit(n), seen |-> n]
    BY <1>2, <2>4, <2>5 DEF Command, n
  <2> QED
    BY <2>6
<1>3. ASSUME NEW c \in cmds', c.draft.style = "booked"
      PROVE  c.header = Explicit(c.seen)
  <2>1. CASE c \in cmds
    BY <1>3, <2>1 DEF BookedHeaders
  <2>2. CASE c \notin cmds
    <3>1. PICK d \in plan.drafts[e] :
            c = Command(e, d, HeaderOf(e, d, offered,
                                       IF snapshots THEN Len(log[d.target]) ELSE 0))
      BY <1>1, <2>2
    <3>2. c.draft = d
      BY <3>1 DEF Command
    <3> QED
      BY <1>2, <1>3, <3>1, <3>2
  <2> QED
    BY <2>1, <2>2
<1> QED
  BY <1>3 DEF BookedHeaders

\* A command that runs with an explicit sequence is in sequence.
LEMMA BookedAccepted ==
  ASSUME TypeOK, BookedHeaders, BookedLandsWhereRead, NEW c \in cmds, Accept(c)
  PROVE  BookedLandsWhereRead'
<1> DEFINE t == c.draft.target
           n == Len(log[t]) + 1
<1>1. c \in Commands /\ t \in Targets /\ DOMAIN log = Targets
  BY DEF TypeOK, Commands, Drafts
<1>2. log[t] \in Seq(Commands \cup {Other}) /\ c \in Commands \cup {Other}
  BY <1>1 DEF TypeOK
<1>3. Runs(c) /\ log' = [log EXCEPT ![t] = Append(@, c)]
  BY DEF Accept
<1>4. /\ log'[t] = Append(log[t], c)
      /\ \A u \in Targets : u # t => log'[u] = log[u]
  BY <1>1, <1>3
<1>5. /\ DOMAIN log'[t] = DOMAIN log[t] \cup {n}
      /\ log'[t][n] = c
      /\ \A i \in DOMAIN log[t] : log'[t][i] = log[t][i]
  BY <1>2, <1>4, Appended
<1>6. (c.draft.style = "booked" /\ c.draft.strategy # "aggregate_handles") => c.seen = n - 1
  <2> SUFFICES ASSUME c.draft.style = "booked", c.draft.strategy # "aggregate_handles"
               PROVE  c.seen = n - 1
    OBVIOUS
  <2>1. c.header = Explicit(c.seen)
    BY DEF BookedHeaders
  <2>2. SequenceNum(c.header) = Len(log[t])
    BY <1>3, <2>1 DEF Runs, InSequence, AngzarrDeferred, Explicit
  <2>3. Len(log[t]) \in Nat
    BY <1>2
  <2> QED
    BY <2>1, <2>2, <2>3 DEF SequenceNum, Explicit
<1> HIDE DEF t, n
<1>7. ASSUME NEW u \in Targets, NEW i \in DOMAIN log'[u]
      PROVE  \/ u = t /\ i = n /\ log'[u][i] = c
             \/ i \in DOMAIN log[u] /\ log'[u][i] = log[u][i]
  BY <1>4, <1>5
<1> QED
  BY <1>6, <1>7 DEF BookedLandsWhereRead

\* What somebody else writes is no command of a saga.
LEMMA BookedOther ==
  ASSUME TypeOK, BookedLandsWhereRead, NEW t \in Targets, OtherWriter(t)
  PROVE  BookedLandsWhereRead'
<1>1. log[t] \in Seq(Commands \cup {Other}) /\ DOMAIN log = Targets
  BY DEF TypeOK
<1>2. /\ log'[t] = Append(log[t], Other)
      /\ \A u \in Targets : u # t => log'[u] = log[u]
  BY <1>1 DEF OtherWriter
<1>3. /\ DOMAIN log'[t] = DOMAIN log[t] \cup {Len(log[t]) + 1}
      /\ log'[t][Len(log[t]) + 1] = Other
      /\ \A i \in DOMAIN log[t] : log'[t][i] = log[t][i]
  BY <1>1, <1>2, Appended
<1>4. ASSUME NEW u \in Targets, NEW i \in DOMAIN log'[u], log'[u][i] # Other
      PROVE  i \in DOMAIN log[u] /\ log'[u][i] = log[u][i]
  BY <1>2, <1>3, <1>4
<1> QED
  BY <1>4 DEF BookedLandsWhereRead

\* A command numbered by calculate_next_sequence takes effect right after the
\* events of the book that it was numbered from, whoever else writes.
THEOREM BookedInPlace == Spec => []BookedLandsWhereRead
<1> DEFINE BInv == TypeOK /\ BookedHeaders /\ BookedLandsWhereRead
<1>1. Init => BInv
  <2>1. Init => TypeOK
    BY InitIInv DEF IInv
  <2>2. Init => BookedHeaders
    BY DEF Init, BookedHeaders
  <2>3. Init => BookedLandsWhereRead
    BY DEF Init, BookedLandsWhereRead
  <2> QED
    BY <2>1, <2>2, <2>3
<1>2. BInv /\ TypeOK' /\ [Next]_vars => BInv'
  <2> SUFFICES ASSUME TypeOK, BookedHeaders, BookedLandsWhereRead, [Next]_vars
               PROVE  BookedHeaders' /\ BookedLandsWhereRead'
    OBVIOUS
  <2>1. ASSUME NEW e \in Triggers, Deliver(e)
        PROVE  BookedHeaders' /\ BookedLandsWhereRead'
    <3>1. log' = log
      BY <2>1 DEF Deliver
    <3> QED
      BY <2>1, <3>1, BookedDelivered DEF BookedLandsWhereRead
  <2>2. ASSUME NEW c \in cmds, AnswerFromCache(c) \/ Accept(c) \/ Reject(c)
        PROVE  BookedHeaders' /\ BookedLandsWhereRead'
    <3>1. cmds' \subseteq cmds
      BY <2>2 DEF AnswerFromCache, Accept, Reject, Answer
    <3>2. Accept(c) \/ log' = log
      BY <2>2 DEF AnswerFromCache, Reject
    <3>3. log' = log => BookedLandsWhereRead'
      BY DEF BookedLandsWhereRead
    <3> QED
      BY <3>1, <3>2, <3>3, BookedAccepted DEF BookedHeaders
  <2>3. ASSUME NEW t \in Targets, OtherWriter(t)
        PROVE  BookedHeaders' /\ BookedLandsWhereRead'
    <3>1. cmds' = cmds
      BY <2>3 DEF OtherWriter
    <3> QED
      BY <2>3, <3>1, BookedOther DEF BookedHeaders
  <2>4. ASSUME cmds' \subseteq cmds, log' = log
        PROVE  BookedHeaders' /\ BookedLandsWhereRead'
    BY <2>4 DEF BookedHeaders, BookedLandsWhereRead
  <2>5. \/ \E e \in Triggers : Deliver(e)
        \/ \E c \in cmds : AnswerFromCache(c) \/ Accept(c) \/ Reject(c)
        \/ \E t \in plan.crowded : OtherWriter(t)
        \/ cmds' \subseteq cmds /\ log' = log
    BY DEF Next, Ack, Lose, Revoke, vars
  <2>6. plan.crowded \subseteq Targets
    BY SagaDeliveryAssumption DEF TypeOK
  <2> QED
    BY <2>1, <2>2, <2>3, <2>4, <2>5, <2>6
<1>3. BInv => BookedLandsWhereRead
  OBVIOUS
<1>4. Spec => []TypeOK
  BY TypeCorrect
<1> HIDE DEF BInv
<1> QED
  BY <1>1, <1>2, <1>3, <1>4, PTL DEF Spec

-----------------------------------------------------------------------------
(* What is acknowledged is settled.                                        *)

\* The bus has the answers to a trigger before it forgets it, and whoever was
\* answered is settled.
AnsweredIsSettled ==
  /\ \A e \in Triggers \ due : \A d \in plan.drafts[e] : <<e, d>> \in answered
  /\ \A e \in Triggers : \A d \in Drafts : <<e, d>> \in answered => Settled(e, d)

\* Two commands with the key of the same deferred header are of one trigger:
\* (source.root, source_seq) tells triggers apart.
LEMMA KeyNamesTrigger ==
  ASSUME IInv, NEW c \in cmds, AngzarrDeferred(c.header), Handled(c.draft.target, c)
  PROVE  \E i \in DOMAIN log[c.draft.target] : log[c.draft.target][i].trigger = c.trigger
<1> DEFINE t == c.draft.target
<1>1. /\ c \in Commands /\ t \in Targets /\ c.trigger \in Triggers
      /\ c.header = DeferredHeader(c.trigger)
  BY DEF IInv, TypeOK, HeadersNameTrigger, NamesTrigger, Commands, Drafts
<1>2. PICK i \in DOMAIN log[t] :
        AngzarrDeferred(log[t][i].header) /\ Key(log[t][i]) = Key(c)
  BY DEF Handled
<1> DEFINE e == log[t][i].trigger
<1>3. log[t] \in Seq(Commands \cup {Other}) /\ ~AngzarrDeferred(Other.header)
  BY <1>1 DEF IInv, TypeOK, AngzarrDeferred, Other, Unset
<1>4. log[t][i] \in Commands
  <2>1. log[t][i] \in Commands \cup {Other}
    BY <1>2, <1>3
  <2> QED
    BY <1>2, <1>3, <2>1
<1>5. e \in Triggers /\ log[t][i].header = DeferredHeader(e)
  BY <1>1, <1>2, <1>4 DEF IInv, HeadersNameTrigger, NamesTrigger, Commands
<1>6. e.root = c.trigger.root /\ e.seq = c.trigger.seq
  BY <1>1, <1>2, <1>5 DEF Key, DeferredHeader
<1>7. e = c.trigger
  BY <1>1, <1>5, <1>6 DEF Triggers
<1> QED
  BY <1>7

\* What is settled stays settled: histories grow, and an answered notification
\* stands in revoked.
LEMMA StaysSettled ==
  ASSUME IInv, [Next]_vars, NEW e \in Triggers, NEW d \in Drafts, Settled(e, d)
  PROVE  Settled(e, d)'
<1> USE SagaDeliveryAssumption
<1> DEFINE t == d.target
<1>1. t \in Targets /\ log \in [Targets -> Seq(Commands \cup {Other})]
  BY DEF Drafts, IInv, TypeOK
<1>2. CASE \E i \in DOMAIN log[t] : log[t][i].trigger = e
  <2>1. PICK i \in DOMAIN log[t] : log[t][i].trigger = e
    BY <1>2
  <2>2. \/ log'[t] = log[t]
        \/ \E x \in Commands \cup {Other} : log'[t] = Append(log[t], x)
    <3>1. ASSUME NEW c \in cmds, Accept(c)
          PROVE  log'[t] = log[t] \/ log'[t] = Append(log[t], c)
      BY <1>1, <3>1 DEF Accept
    <3>2. ASSUME NEW u \in Targets, OtherWriter(u)
          PROVE  log'[t] = log[t] \/ log'[t] = Append(log[t], Other)
      BY <1>1, <3>2 DEF OtherWriter
    <3>3. \/ \E c \in cmds : Accept(c)
          \/ \E u \in plan.crowded : OtherWriter(u)
          \/ log' = log
      BY DEF Next, Deliver, Ack, Lose, AnswerFromCache, Reject, Revoke, vars
    <3>4. plan.crowded \subseteq Targets /\ cmds \subseteq Commands
      BY DEF IInv, TypeOK
    <3> QED
      BY <3>1, <3>2, <3>3, <3>4
  <2>3. i \in DOMAIN log'[t] /\ log'[t][i] = log[t][i]
    <3>1. CASE log'[t] = log[t]
      BY <3>1
    <3>2. CASE \E x \in Commands \cup {Other} : log'[t] = Append(log[t], x)
      <4>1. PICK x \in Commands \cup {Other} : log'[t] = Append(log[t], x)
        BY <3>2
      <4>2. log[t] \in Seq(Commands \cup {Other})
        BY <1>1
      <4> HIDE DEF t
      <4> QED
        BY <4>1, <4>2, Appended
    <3> QED
      BY <2>2, <3>1, <3>2
  <2> QED
    BY <2>1, <2>3 DEF Settled
<1>3. CASE \E c \in notes : c.trigger = e /\ c.draft = d
  <2>1. PICK c \in notes : c.trigger = e /\ c.draft = d
    BY <1>3
  <2>2. CASE c \in notes'
    BY <2>1, <2>2 DEF Settled
  <2>3. CASE c \notin notes'
    <3>1. Revoke(c)
      <4>1. \A x \in notes : Revoke(x) => notes' = notes \ {x}
        BY DEF Revoke
      <4>2. (\E x \in notes : Revoke(x)) \/ notes \subseteq notes'
        BY DEF Next, Deliver, Ack, Lose, AnswerFromCache, Accept, Reject, OtherWriter, vars
      <4> QED
        BY <2>3, <4>1, <4>2
    <3>2. \E r \in revoked' : r.trigger = c.trigger /\ r.key = DispatchKey(c)
      <4> DEFINE by == IF RejectionKey(c) \in Rejected THEN "method" ELSE "nobody"
                 r == [trigger |-> c.trigger, key |-> DispatchKey(c),
                       context |-> FromNotification(c), by |-> by]
      <4>1. r \in revoked'
        BY <3>1 DEF Revoke
      <4>2. r.trigger = c.trigger /\ r.key = DispatchKey(c)
        OBVIOUS
      <4> HIDE DEF r
      <4> QED
        BY <4>1, <4>2
    <3> QED
      BY <2>1, <3>2 DEF Settled, DispatchKey
  <2> QED
    BY <2>2, <2>3
<1>4. CASE \E r \in revoked :
             r.trigger = e /\ r.key = <<Domain[d.target], d.package, d.name>>
  <2>1. revoked \subseteq revoked'
    BY DEF Next, Deliver, Ack, Lose, AnswerFromCache, Accept, Reject, Answer, OtherWriter,
           Revoke, vars
  <2> QED
    BY <1>4, <2>1 DEF Settled
<1> QED
  BY <1>2, <1>3, <1>4 DEF Settled

\* An answer settles its own draft: it took effect, was rejected, or the
\* trigger had taken effect before.
LEMMA AnswerSettles ==
  ASSUME IInv, NEW c \in cmds, AnswerFromCache(c) \/ Accept(c) \/ Reject(c)
  PROVE  Settled(c.trigger, c.draft)'
<1> DEFINE t == c.draft.target
<1>1. c \in Commands /\ t \in Targets
  BY DEF IInv, TypeOK, Commands, Drafts
<1>2. CASE AnswerFromCache(c)
  <2>1. \E i \in DOMAIN log[t] : log[t][i].trigger = c.trigger
    BY <1>2, KeyNamesTrigger DEF AnswerFromCache
  <2>2. log' = log
    BY <1>2 DEF AnswerFromCache
  <2> QED
    BY <2>1, <2>2 DEF Settled
<1>3. CASE Accept(c)
  <2>1. log[t] \in Seq(Commands \cup {Other}) /\ DOMAIN log = Targets
    BY <1>1 DEF IInv, TypeOK
  <2>2. log'[t] = Append(log[t], c)
    BY <1>1, <1>3, <2>1 DEF Accept
  <2>3. \E i \in DOMAIN log'[t] : log'[t][i] = c
    <3>1. c \in Commands \cup {Other}
      BY <1>1
    <3> HIDE DEF t
    <3> QED
      BY <2>1, <2>2, <3>1, Appended
  <2> QED
    BY <2>3 DEF Settled
<1>4. CASE Reject(c)
  <2>1. c \in notes'
    BY <1>4 DEF Reject
  <2> QED
    BY <2>1 DEF Settled
<1> QED
  BY <1>2, <1>3, <1>4

\* No trigger is forgotten on the word of another: what the bus need not deliver
\* again took effect, or its aggregate is told of the rejection.
THEOREM AcknowledgedSettled == Spec => []AcknowledgedIsSettled
<1>1. Init => AnsweredIsSettled
  BY DEF Init, AnsweredIsSettled
<1>2. AnsweredIsSettled /\ IInv /\ [Next]_vars => AnsweredIsSettled'
  <2> SUFFICES ASSUME AnsweredIsSettled, IInv, [Next]_vars
               PROVE  AnsweredIsSettled'
    OBVIOUS
  <2>1. plan' = plan /\ answered \subseteq answered'
    BY DEF Next, Deliver, Ack, Lose, AnswerFromCache, Accept, Reject, Answer, OtherWriter,
           Revoke, vars
  <2>2. \A e \in Triggers \ due' : \A d \in plan'.drafts[e] : <<e, d>> \in answered'
    <3>1. ASSUME NEW e \in Triggers, e \notin due', e \in due
          PROVE  Ack(e)
      <4>1. \A x \in Triggers : Ack(x) => due' = due \ {x}
        BY DEF Ack
      <4>2. (\E x \in Triggers : Ack(x)) \/ due' = due
        BY DEF Next, Deliver, Lose, AnswerFromCache, Accept, Reject, Answer, OtherWriter,
               Revoke, vars
      <4> QED
        BY <3>1, <4>1, <4>2
    <3> QED
      BY <2>1, <3>1 DEF Ack, AnsweredIsSettled
  <2>3. ASSUME NEW e \in Triggers, NEW d \in Drafts, <<e, d>> \in answered'
        PROVE  Settled(e, d)'
    <3>1. CASE <<e, d>> \in answered
      BY <3>1, StaysSettled DEF AnsweredIsSettled
    <3>2. CASE <<e, d>> \notin answered
      <4>1. PICK c \in cmds : AnswerFromCache(c) \/ Accept(c) \/ Reject(c)
        BY <2>3, <3>2 DEF Next, Deliver, Ack, Lose, OtherWriter, Revoke, vars
      <4>2. answered' = answered \cup {<<c.trigger, c.draft>>}
        BY <4>1 DEF AnswerFromCache, Accept, Reject, Answer
      <4>3. e = c.trigger /\ d = c.draft
        BY <2>3, <3>2, <4>2
      <4> QED
        BY <4>1, <4>3, AnswerSettles
    <3> QED
      BY <3>1, <3>2
  <2> QED
    BY <2>2, <2>3 DEF AnsweredIsSettled
<1>3. AnsweredIsSettled /\ IInv => AcknowledgedIsSettled
  <2> SUFFICES ASSUME AnsweredIsSettled, IInv, NEW e \in Triggers \ due,
                      NEW d \in plan.drafts[e]
               PROVE  Settled(e, d)
    BY DEF AcknowledgedIsSettled
  <2>1. plan.drafts \in [Triggers -> SUBSET Drafts]
    BY SagaDeliveryAssumption DEF IInv, TypeOK
  <2> QED
    BY <2>1 DEF AnsweredIsSettled
<1> QED
  BY <1>1, <1>2, <1>3, Invariance, PTL DEF Spec
=============================================================================
