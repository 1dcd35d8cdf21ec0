------------------------- MODULE CommandRouterProofs -------------------------
(***************************************************************************)
(* Proofs about CommandRouter, for any handlers, domains, types, keys and  *)
(* numbers of them.  The argument: a router that dispatches is one that    *)
(* build() let pass (Accepted), so that a command has one owner at most;   *)
(* and what a loop has done when it reaches a factory is what the kind of  *)
(* request asks of the factories before it (ForCommand, ForRejection,      *)
(* ForFirst, Threaded).                                                    *)
(***************************************************************************)
EXTENDS CommandRouter, TLAPS, FiniteSetTheorems

\* The router that serves is the one that build() has checked.
Accepted ==
  /\ built # "building" => built = BuildResult(factories)
  /\ call # Idle => built = "CommandHandler"
  /\ call = Idle => reply = "none" /\ RunSlots = {}

Declared == {i \in DOMAIN factories : call.key \in factories[i].rejected}

\* A command runs the factory it matches and none before.
ForCommand ==
  call.kind = "command" =>
    /\ reply \in {"none", "no_handler", "handler_error", "wrong_kind", "events"}
    /\ reply \in {"none", "no_handler"} =>
         /\ RunSlots = {}
         /\ \A i \in DOMAIN factories : i < at => ~Matches(call, factories[i])
    /\ reply = "no_handler" => at = Len(factories) + 1
    /\ reply \in {"handler_error", "wrong_kind", "events"} =>
         at \in DOMAIN factories /\ RunSlots = {at} /\ Matches(call, factories[at])

\* A rejection runs the factories it matches, and the pages are theirs.
ForRejection ==
  call.kind = "notification" =>
    /\ reply \in {"none", "handler_error", "wrong_kind", "events"}
    /\ reply = "events" => at = Len(factories) + 1
    /\ reply \in {"none", "events"} =>
         /\ RunSlots = {i \in Declared : i < at}
         /\ \A k \in DOMAIN pages : pages[k] < at
         /\ \A k, l \in DOMAIN pages : k <= l => pages[k] <= pages[l]
    /\ reply \in {"handler_error", "wrong_kind"} =>
         /\ pages = <<>>
         /\ at \in Declared /\ RunSlots = {i \in Declared : i <= at}

\* A fact and a replay are taken by the first factory.
ForFirst ==
  /\ call.kind \in {"fact", "replay"} /\ reply = "none" => at = 1 /\ RunSlots = {}
  /\ call.kind = "fact" /\ reply = "fact_events" =>
       /\ 1 \in DOMAIN factories /\ RunSlots = {1}
       /\ call.type \notin factories[1].facts => pages = <<>>

\* running_seq is past the pages, as each handler found it.
Threaded ==
  call.kind = "notification" /\ call.hasBook /\ reply \in {"none", "events"} =>
    /\ \A i \in RunSlots : handed[i] = (call.seq + PagesBefore(i)) % SeqLimit
    /\ seq = (call.seq + Len(pages)) % SeqLimit

Loops == ForCommand /\ ForRejection /\ ForFirst

IInv == TypeOK /\ Accepted /\ Loops /\ Threaded

\* The numbers among the constants.
LEMMA Numbers ==
  /\ SeqLimit \in Nat \ {0} /\ MaxPages \in Nat /\ MaxHandlers \in Nat
  /\ FirstSeqs \subseteq 0 .. SeqLimit - 1
BY RouterAssumption, BuilderAssumption

-----------------------------------------------------------------------------
(* Arithmetic of a counter that wraps.                                     *)

LEMMA Distributes ==
  ASSUME NEW m \in Int, NEW a \in Int, NEW b \in Int
  PROVE  m * (a - b) = m * a - m * b /\ m * (a + b) = m * a + m * b
OBVIOUS

LEMMA Times ==
  ASSUME NEW m \in Nat \ {0}, NEW k \in Int, k >= 1
  PROVE  m * k >= m
OBVIOUS

\* A multiple of m that is less than m in size is none.
LEMMA SmallMultiple ==
  ASSUME NEW m \in Nat \ {0}, NEW k \in Int, m * k < m, -m < m * k
  PROVE  k = 0
<1>1. CASE k >= 1
  BY <1>1, Times
<1>2. CASE k <= -1
  <2>1. m * (-k) >= m
    BY <1>2, Times
  <2>2. m * (0 - k) = m * 0 - m * k
    BY Distributes
  <2> QED
    BY <2>1, <2>2
<1> QED
  BY <1>1, <1>2

\* There is one remainder.
LEMMA Remainder ==
  ASSUME NEW m \in Nat \ {0}, NEW p \in Int, NEW q \in Int,
         NEW r \in 0 .. m - 1, NEW s \in 0 .. m - 1, m * p + r = m * q + s
  PROVE  r = s
<1>1. m * (p - q) = s - r
  BY Distributes
<1>2. p - q = 0
  BY <1>1, SmallMultiple
<1> QED
  BY <1>2

LEMMA Division ==
  ASSUME NEW a \in Nat, NEW m \in Nat \ {0}
  PROVE  a % m \in 0 .. m - 1 /\ a \div m \in Int /\ a = m * (a \div m) + (a % m)
OBVIOUS

\* Wrapping on the way makes no difference.
LEMMA WrapOnce ==
  ASSUME NEW a \in Nat, NEW n \in Nat, NEW m \in Nat \ {0}
  PROVE  ((a % m) + n) % m = (a + n) % m
<1>1. PICK r \in 0 .. m - 1, u \in Int : r = a % m /\ a = m * u + r
  BY Division
<1>2. PICK s \in 0 .. m - 1, v \in Int : s = (r + n) % m /\ r + n = m * v + s
  <2>1. PICK x \in Nat : x = r + n
    OBVIOUS
  <2>2. x % m \in 0 .. m - 1 /\ x \div m \in Int /\ x = m * (x \div m) + (x % m)
    BY Division
  <2> QED
    BY <2>1, <2>2
<1>3. PICK t \in 0 .. m - 1, z \in Int : t = (a + n) % m /\ a + n = m * z + t
  <2>1. PICK x \in Nat : x = a + n
    OBVIOUS
  <2>2. x % m \in 0 .. m - 1 /\ x \div m \in Int /\ x = m * (x \div m) + (x % m)
    BY Division
  <2> QED
    BY <2>1, <2>2
<1>4. m * (u + v) = m * u + m * v
  BY Distributes
<1>5. m * (u + v) + s = m * z + t
  <2>1. PICK b \in Int, c \in Int, d \in Int, e \in Int :
          b = m * u /\ c = m * v /\ d = m * z /\ e = m * (u + v)
    OBVIOUS
  <2>2. e = b + c /\ a = b + r /\ r + n = c + s /\ a + n = d + t
    BY <1>1, <1>2, <1>3, <1>4, <2>1
  <2>3. e + s = d + t
    BY <2>2
  <2> QED
    BY <2>1, <2>3
<1>6. s = t
  BY <1>5, Remainder
<1> QED
  BY <1>1, <1>2, <1>3, <1>6

-----------------------------------------------------------------------------
(* Sequences and requests.                                                 *)

\* What one sequence after another consists of.
LEMMA Concatenated ==
  ASSUME NEW S, NEW s \in Seq(S), NEW t \in Seq(S)
  PROVE  /\ s \o t \in Seq(S) /\ Len(s \o t) = Len(s) + Len(t)
         /\ Len(s) \in Nat /\ Len(t) \in Nat
         /\ DOMAIN s = 1 .. Len(s) /\ DOMAIN t = 1 .. Len(t)
         /\ DOMAIN (s \o t) = 1 .. Len(s) + Len(t)
         /\ \A i \in 1 .. Len(s) : (s \o t)[i] = s[i]
         /\ \A i \in 1 .. Len(s) + Len(t) : i > Len(s) => (s \o t)[i] = t[i - Len(s)]
<1>1. Len(s) \in Nat /\ Len(t) \in Nat /\ DOMAIN s = 1 .. Len(s) /\ DOMAIN t = 1 .. Len(t)
  OBVIOUS
<1>2. s \o t \in Seq(S) /\ Len(s \o t) = Len(s) + Len(t)
  OBVIOUS
<1>3. DOMAIN (s \o t) = 1 .. Len(s) + Len(t)
  BY <1>2
<1>4. \A i \in 1 .. Len(s) : (s \o t)[i] = s[i]
  BY <1>1
<1>5. \A i \in 1 .. Len(s) + Len(t) : i > Len(s) => (s \o t)[i] = t[i - Len(s)]
  BY <1>1
<1> QED
  BY <1>1, <1>2, <1>3, <1>4, <1>5

\* A sequence has its entries in its set.
LEMMA EntryType ==
  ASSUME NEW S, NEW s \in Seq(S)
  PROVE  Len(s) \in Nat /\ DOMAIN s = 1 .. Len(s) /\ \A i \in 1 .. Len(s) : s[i] \in S
OBVIOUS

\* Pages are numbered by those who emitted them.
LEMMA PageType ==
  ASSUME NEW ps \in Seq(Slots)
  PROVE  \A k \in DOMAIN ps : ps[k] \in Slots /\ ps[k] \in Nat
<1>1. \A k \in DOMAIN ps : ps[k] \in Slots
  BY EntryType
<1> QED
  BY <1>1 DEF Slots

\* The pages that one handler emits.
LEMMA EmittedType ==
  ASSUME NEW i \in Slots, NEW n \in Nat
  PROVE  /\ Emitted(i, n) \in Seq(Slots) /\ Len(Emitted(i, n)) = n
         /\ \A k \in 1 .. n : Emitted(i, n)[k] = i
<1>1. Emitted(i, n) \in [1 .. n -> Slots]
  BY DEF Emitted
<1>2. Emitted(i, n) \in Seq(Slots) /\ Len(Emitted(i, n)) = n
  BY <1>1
<1> QED
  BY <1>2 DEF Emitted

\* The registration positions in use.
LEMMA FactoryType ==
  ASSUME TypeOK
  PROVE  /\ Len(factories) \in Nat /\ DOMAIN factories = 1 .. Len(factories)
         /\ DOMAIN factories \subseteq Slots
         /\ \A i \in DOMAIN factories : factories[i] \in Configs
         /\ at \in Nat \ {0} /\ at <= Len(factories) + 1
         /\ (at \in DOMAIN factories <=> at # Len(factories) + 1)
<1>1. Len(factories) \in Nat /\ DOMAIN factories = 1 .. Len(factories)
      /\ \A i \in DOMAIN factories : factories[i] \in Configs
  BY EntryType DEF TypeOK
<1>2. at \in 1 .. Len(factories) + 1 /\ Len(factories) <= MaxHandlers /\ MaxHandlers \in Nat
  BY Numbers DEF TypeOK
<1>3. DOMAIN factories \subseteq Slots
  BY <1>1, <1>2 DEF Slots
<1> QED
  BY <1>1, <1>2, <1>3

\* The sequences that requests come with.
LEMMA InitialSeqType ==
  ASSUME NEW r \in Requests
  PROVE  InitialSeq(r) \in 0 .. SeqLimit - 1
<1>1. 0 \in 0 .. SeqLimit - 1
  BY Numbers
<1>2. CASE r \in Commands \cup Notifications
  BY <1>1, <1>2, Numbers DEF InitialSeq, Commands, Notifications
<1>3. CASE r \in Facts \cup Replays \cup Malformed
  BY <1>1, <1>3 DEF InitialSeq, Facts, Replays, Malformed
<1> QED
  BY <1>2, <1>3 DEF Requests

\* What a handler is handed is a sequence, and not the mark of one not run.
LEMMA HandedSeqType ==
  ASSUME TypeOK
  PROVE  /\ HandedSeq(call) \in 0 .. SeqLimit - 1 /\ HandedSeq(call) # NotRun
         /\ 0 \in 0 .. SeqLimit - 1 /\ 0 # NotRun
BY Numbers DEF TypeOK, HandedSeq, NotRun

\* Handing a sequence to a handler adds it to those that have run.
LEMMA RunOneMore ==
  ASSUME TypeOK, NEW i \in Slots, NEW q \in 0 .. SeqLimit - 1,
         handed' = [handed EXCEPT ![i] = q]
  PROVE  /\ handed' \in [Slots -> {NotRun} \cup (0 .. SeqLimit - 1)]
         /\ RunSlots' = RunSlots \cup {i} /\ RunSlots \subseteq Slots
         /\ handed'[i] = q /\ \A j \in Slots \ {i} : handed'[j] = handed[j]
<1>1. handed \in [Slots -> {NotRun} \cup (0 .. SeqLimit - 1)] /\ q # NotRun
  BY DEF TypeOK, NotRun
<1>2. DOMAIN handed = Slots /\ DOMAIN handed' = Slots
  BY <1>1
<1>3. handed'[i] = q /\ \A j \in Slots \ {i} : handed'[j] = handed[j]
  BY <1>1
<1> QED
  BY <1>1, <1>2, <1>3 DEF RunSlots

\* What the loops test, by the kind of request.
LEMMA MatchesWhat ==
  ASSUME NEW r, NEW c
  PROVE  /\ r.kind = "command" =>
              (Matches(r, c) <=>
                 c.domain = r.domain /\ \E n \in DOMAIN c.handled : c.handled[n] = r.type)
         /\ r.kind = "notification" => (Matches(r, c) <=> r.key \in c.rejected)
         /\ r.kind \in {"fact", "replay"} => Matches(r, c)
<1>1. r.kind = "command" =>
        (Matches(r, c) <=>
           c.domain = r.domain /\ \E n \in DOMAIN c.handled : c.handled[n] = r.type)
  BY DEF Matches
<1>2. r.kind = "notification" => (Matches(r, c) <=> r.key \in c.rejected)
  BY DEF Matches
<1>3. r.kind \in {"fact", "replay"} => Matches(r, c)
  BY DEF Matches
<1> QED
  BY <1>1, <1>2, <1>3

-----------------------------------------------------------------------------
(* The steps before a dispatch.                                            *)

LEMMA InitIInv == Init => IInv
<1> SUFFICES ASSUME Init PROVE IInv
  OBVIOUS
<1>1. /\ factories = <<>> /\ built = "building" /\ call = Idle /\ at = 1 /\ seq = 0
      /\ pages = <<>> /\ reply = "none" /\ handed = [i \in Slots |-> NotRun] /\ revoked = {}
  BY DEF Init, BuilderInit
<1>2. RunSlots = {}
  BY <1>1 DEF RunSlots
<1>3. TypeOK
  BY <1>1, Numbers DEF TypeOK, Replies
<1>4. Accepted
  BY <1>1, <1>2 DEF Accepted
<1>5. Loops /\ Threaded
  BY <1>1 DEF Loops, ForCommand, ForRejection, ForFirst, Threaded, Idle
<1> QED
  BY <1>3, <1>4, <1>5 DEF IInv

LEMMA BuilderIInv ==
  ASSUME IInv, BuilderNext, UNCHANGED callVars
  PROVE  IInv'
<1>1. UNCHANGED <<call, at, seq, pages, reply, handed, revoked>>
  BY DEF callVars
<1>2. built = "building" /\ call = Idle
  BY DEF BuilderNext, WithHandler, Build, IInv, Accepted
<1>3. /\ Len(factories) \in Nat /\ at \in 1 .. Len(factories) + 1
      /\ \A i \in DOMAIN factories : factories[i] \in Configs
      /\ DOMAIN factories = 1 .. Len(factories)
  BY EntryType DEF IInv, TypeOK
<1>4. /\ factories' \in Seq(Configs) /\ Len(factories') <= MaxHandlers
      /\ at' \in 1 .. Len(factories') + 1
      /\ built' \in BuildErrors \cup {"building"} \cup {c.kind : c \in Configs}
  <2>1. CASE WithHandler
    <3>1. PICK c \in Configs : factories' = Append(factories, c)
      BY <2>1 DEF WithHandler
    <3>2. factories' \in Seq(Configs) /\ Len(factories') = Len(factories) + 1
      BY <3>1 DEF IInv, TypeOK
    <3> QED
      BY <1>1, <1>2, <1>3, <2>1, <3>2, Numbers DEF WithHandler, IInv, TypeOK
  <2>2. CASE Build
    <3>1. factories # <<>> => 1 \in DOMAIN factories
      BY <1>3 DEF IInv, TypeOK
    <3>2. BuildResult(factories) \in BuildErrors \cup {c.kind : c \in Configs}
      BY <1>3, <3>1 DEF BuildResult, BuildErrors
    <3> QED
      BY <1>1, <1>3, <2>2, <3>2 DEF Build, IInv, TypeOK
  <2> QED
    BY <2>1, <2>2 DEF BuilderNext
<1>5. TypeOK'
  BY <1>1, <1>4 DEF IInv, TypeOK
<1>6. Accepted'
  <2>1. built' # "building" => built' = BuildResult(factories')
    BY <1>2 DEF BuilderNext, WithHandler, Build
  <2>2. RunSlots' = RunSlots
    BY <1>1 DEF RunSlots
  <2> QED
    BY <1>1, <1>2, <2>1, <2>2 DEF IInv, Accepted, BuildResult
<1>7. Loops' /\ Threaded'
  BY <1>1, <1>2 DEF Loops, ForCommand, ForRejection, ForFirst, Threaded, Idle
<1> QED
  BY <1>5, <1>6, <1>7 DEF IInv

LEMMA ReceiveIInv ==
  ASSUME IInv, Receive
  PROVE  IInv'
<1>1. PICK r \in Requests :
        /\ call' = r
        /\ seq' = InitialSeq(r)
        /\ reply' = CASE r.kind = "malformed" -> "malformed"
                      [] r.kind = "fact" /\ ~SupportsFacts -> "unimplemented"
                      [] r.kind = "replay" /\ ~SupportsReplay -> "unimplemented"
                      [] OTHER -> "none"
  BY DEF Receive
<1>2. /\ built = "CommandHandler" /\ at' = 1 /\ pages' = <<>> /\ revoked' = {}
      /\ handed' = [i \in Slots |-> NotRun] /\ UNCHANGED <<factories, built>>
  BY DEF Receive, builderVars
<1>3. reply' \in {"malformed", "unimplemented", "none"}
  BY <1>1
<1>4. r.kind \in {"command", "notification"} => reply' = "none"
  BY <1>1
<1>5. r # Idle
  BY DEF Requests, Commands, Notifications, Facts, Replays, Malformed, Idle
<1>6. RunSlots' = {}
  BY <1>2 DEF RunSlots
<1>7. TypeOK'
  <2>1. seq' \in 0 .. SeqLimit - 1
    BY <1>1, InitialSeqType
  <2>2. pages' \in Seq(Slots) /\ at' \in 1 .. Len(factories') + 1
    BY <1>2, FactoryType DEF IInv
  <2>3. handed' \in [Slots -> {NotRun} \cup (0 .. SeqLimit - 1)]
    BY <1>2
  <2>4. reply' \in Replies
    BY <1>3 DEF Replies, ErrorReplies
  <2> QED
    BY <1>1, <1>2, <2>1, <2>2, <2>3, <2>4 DEF IInv, TypeOK
<1>8. Accepted'
  BY <1>1, <1>2, <1>5 DEF IInv, Accepted
<1>9. DOMAIN factories' = 1 .. Len(factories')
  BY <1>2, FactoryType DEF IInv
<1>10. ForCommand'
  BY <1>1, <1>2, <1>4, <1>6, <1>9 DEF ForCommand
<1>11. ForRejection'
  <2>1. {i \in Declared' : i < at'} = {}
    BY <1>2, <1>9 DEF Declared
  <2>2. DOMAIN pages' = {}
    BY <1>2
  <2> QED
    BY <1>1, <1>4, <1>6, <2>1, <2>2 DEF ForRejection
<1>12. ForFirst'
  BY <1>2, <1>3, <1>6 DEF ForFirst
<1>13. Threaded'
  <2> SUFFICES ASSUME call'.kind = "notification", call'.hasBook
               PROVE  seq' = (call'.seq + Len(pages')) % SeqLimit
    BY <1>6 DEF Threaded
  <2>1. seq' = r.seq /\ r.seq \in 0 .. SeqLimit - 1
    BY <1>1, InitialSeqType DEF InitialSeq
  <2>2. (r.seq + 0) % SeqLimit = r.seq
    BY <2>1, Numbers
  <2> QED
    BY <1>1, <1>2, <2>1, <2>2
<1> QED
  BY <1>7, <1>8, <1>10, <1>11, <1>12, <1>13 DEF IInv, Loops

-----------------------------------------------------------------------------
(* The steps of a dispatch.                                                *)

\* What is known of a request that is being dispatched.
LEMMA DispatchFacts ==
  ASSUME IInv, Dispatching
  PROVE  /\ TypeOK /\ call # Idle /\ reply = "none" /\ call \in Requests
         /\ built = "CommandHandler" /\ built = BuildResult(factories)
         /\ ForCommand /\ ForRejection /\ ForFirst /\ Threaded
         /\ Len(pages) \in Nat /\ DOMAIN pages = 1 .. Len(pages)
         /\ RunSlots \subseteq Slots
<1>1. pages \in Seq(Slots)
  BY DEF IInv, TypeOK
<1>2. RunSlots \subseteq Slots
  BY DEF IInv, TypeOK, RunSlots
<1> QED
  BY <1>1, <1>2, EntryType DEF IInv, Loops, Accepted, Dispatching, TypeOK

\* A dispatch leaves the router, and whose turn it is to answer, alone.
LEMMA StillAccepted ==
  ASSUME IInv, Dispatching, UNCHANGED <<builderVars, call>>
  PROVE  Accepted'
BY DispatchFacts DEF Accepted, builderVars, IInv

LEMMA SkipFactoryIInv ==
  ASSUME IInv, SkipFactory
  PROVE  IInv'
<1>1. /\ Dispatching /\ at \in DOMAIN factories /\ ~Matches(call, factories[at])
      /\ at' = at + 1
      /\ UNCHANGED <<factories, built, call, seq, pages, reply, handed, revoked>>
  BY DEF SkipFactory, builderVars
<1>2. TypeOK /\ ForCommand /\ ForRejection /\ ForFirst /\ Threaded /\ reply = "none"
  BY <1>1, DispatchFacts
<1>3. /\ at \in Nat \ {0} /\ at <= Len(factories) /\ Len(factories) \in Nat
      /\ DOMAIN factories = 1 .. Len(factories)
  BY <1>1, <1>2, FactoryType
<1>4. RunSlots' = RunSlots /\ Declared' = Declared
  BY <1>1 DEF RunSlots, Declared
<1>5. TypeOK'
  BY <1>1, <1>2, <1>3 DEF TypeOK
<1>6. ForCommand'
  <2>1. \A i \in DOMAIN factories : i < at + 1 => i < at \/ i = at
    BY <1>3
  <2> QED
    BY <1>1, <1>2, <1>4, <2>1 DEF ForCommand
<1>7. ForRejection'
  <2> SUFFICES ASSUME call.kind = "notification" PROVE ForRejection'
    BY <1>1 DEF ForRejection
  <2>1. at \notin Declared
    BY <1>1, MatchesWhat DEF Declared
  <2>2. {i \in Declared : i < at + 1} = {i \in Declared : i < at}
    BY <1>3, <2>1 DEF Declared
  <2>3. \A k \in DOMAIN pages : pages[k] < at + 1
    <3>1. \A k \in DOMAIN pages : pages[k] \in Nat /\ pages[k] < at
      BY <1>1, <1>2, PageType DEF TypeOK, ForRejection
    <3> QED
      BY <1>3, <3>1
  <2> QED
    BY <1>1, <1>2, <1>4, <2>2, <2>3 DEF ForRejection
<1>8. ForFirst'
  BY <1>1, <1>2, MatchesWhat DEF ForFirst
<1>9. Threaded'
  BY <1>1, <1>2, <1>4 DEF Threaded, PagesBefore
<1>10. Accepted'
  BY <1>1, StillAccepted DEF SkipFactory
<1> QED
  BY <1>5, <1>6, <1>7, <1>8, <1>9, <1>10 DEF IInv, Loops

\* A factory's handler runs: it is one more that has.
LEMMA HandlerRuns ==
  ASSUME IInv, AtMatch, NEW q \in 0 .. SeqLimit - 1,
         handed' = [handed EXCEPT ![at] = q]
  PROVE  /\ Dispatching /\ at \in DOMAIN factories /\ Matches(call, factories[at])
         /\ at \in Slots /\ at \in Nat \ {0} /\ at <= Len(factories)
         /\ at + 1 \in 1 .. Len(factories) + 1 /\ Len(factories) \in Nat
         /\ handed' \in [Slots -> {NotRun} \cup (0 .. SeqLimit - 1)]
         /\ RunSlots' = RunSlots \cup {at}
         /\ handed'[at] = q /\ \A j \in Slots \ {at} : handed'[j] = handed[j]
<1>1. Dispatching /\ at \in DOMAIN factories /\ Matches(call, factories[at]) /\ TypeOK
  BY DEF AtMatch, IInv
<1>2. /\ at \in Slots /\ at \in Nat \ {0} /\ at <= Len(factories)
      /\ at + 1 \in 1 .. Len(factories) + 1 /\ Len(factories) \in Nat
  BY <1>1, FactoryType
<1> QED
  BY <1>1, <1>2, RunOneMore

\* The first that runs answers, or fails, for the router.
LEMMA LastRunIInv ==
  ASSUME IInv, HandlerFails \/ RunCommand \/ RunFact \/ RunReplay
  PROVE  IInv'
<1>1. /\ AtMatch /\ UNCHANGED <<builderVars, call, at, seq, revoked>>
      /\ reply' \in {"handler_error", "wrong_kind", "events", "fact_events", "state"}
      /\ call.kind = "command" => reply' \in {"handler_error", "wrong_kind", "events"}
      /\ call.kind = "notification" =>
           reply' \in {"handler_error", "wrong_kind"} /\ pages' = <<>>
  BY DEF HandlerFails, RunCommand, RunFact, RunReplay
<1>2. PICK q \in 0 .. SeqLimit - 1 : handed' = [handed EXCEPT ![at] = q]
  BY HandedSeqType DEF HandlerFails, RunCommand, RunFact, RunReplay, IInv
<1>3. /\ Dispatching /\ at \in DOMAIN factories /\ Matches(call, factories[at])
      /\ at \in Slots /\ at \in Nat \ {0}
      /\ handed' \in [Slots -> {NotRun} \cup (0 .. SeqLimit - 1)]
      /\ RunSlots' = RunSlots \cup {at}
  BY <1>1, <1>2, HandlerRuns
<1>4. TypeOK /\ ForCommand /\ ForRejection /\ reply = "none" /\ pages \in Seq(Slots)
  BY <1>3, DispatchFacts DEF TypeOK
<1>5. pages' \in Seq(Slots)
  <2>1. CASE pages' = <<>>
    BY <2>1
  <2>2. CASE pages' = pages
    BY <1>4, <2>2
  <2>3. CASE \E n \in 0 .. MaxPages : pages' = Emitted(at, n)
    BY <1>3, <2>3, EmittedType, Numbers
  <2> QED
    BY <2>1, <2>2, <2>3 DEF HandlerFails, RunCommand, RunFact, RunReplay
<1>6. TypeOK'
  BY <1>1, <1>3, <1>4, <1>5 DEF TypeOK, builderVars, Replies, ErrorReplies, OkReplies
<1>7. ForCommand'
  BY <1>1, <1>3, <1>4 DEF ForCommand, builderVars
<1>8. ForRejection'
  <2> SUFFICES ASSUME call.kind = "notification" PROVE ForRejection'
    BY <1>1 DEF ForRejection
  <2>1. at \in Declared
    BY <1>3, MatchesWhat DEF Declared
  <2>2. RunSlots' = {i \in Declared : i <= at}
    <3>1. Declared \subseteq Nat
      BY <1>4, FactoryType DEF Declared
    <3>2. RunSlots = {i \in Declared : i < at}
      BY <1>4 DEF ForRejection
    <3> QED
      BY <1>3, <2>1, <3>1, <3>2
  <2>3. Declared' = Declared
    BY <1>1 DEF Declared, builderVars
  <2> QED
    BY <1>1, <2>1, <2>2, <2>3 DEF ForRejection
<1>9. ForFirst' /\ Threaded'
  <2>1. Threaded'
    BY <1>1 DEF Threaded
  <2> SUFFICES ASSUME call.kind = "fact", reply' = "fact_events" PROVE ForFirst'
    BY <1>1, <2>1 DEF ForFirst
  <2>2. RunFact
    BY DEF HandlerFails, RunCommand, RunFact, RunReplay
  <2>3. PICK n \in 0 .. MaxPages : /\ call.type \notin factories[at].facts => n = 0
                                  /\ pages' = Emitted(at, n)
    BY <2>2 DEF RunFact
  <2>4. at = 1 /\ RunSlots = {}
    BY <1>3, DispatchFacts DEF ForFirst
  <2>5. Emitted(at, 0) = <<>>
    BY DEF Emitted
  <2> QED
    BY <1>1, <1>3, <2>1, <2>3, <2>4, <2>5 DEF ForFirst, builderVars
<1>10. Accepted'
  BY <1>1, <1>3, StillAccepted
<1> QED
  BY <1>6, <1>7, <1>8, <1>9, <1>10 DEF IInv, Loops

\* How many pages come from handlers before one that follows them all.
LEMMA CountAll ==
  ASSUME NEW ps \in Seq(Slots), NEW i \in Slots, \A k \in DOMAIN ps : ps[k] < i
  PROVE  Cardinality({k \in DOMAIN ps : ps[k] < i}) = Len(ps)
<1>1. Len(ps) \in Nat /\ DOMAIN ps = 1 .. Len(ps)
  BY EntryType
<1>2. {k \in DOMAIN ps : ps[k] < i} = 1 .. Len(ps)
  BY <1>1
<1>3. Cardinality(1 .. Len(ps)) = IF 1 > Len(ps) THEN 0 ELSE Len(ps) - 1 + 1
  BY <1>1, FS_Interval
<1>4. Cardinality(1 .. Len(ps)) = Len(ps)
  BY <1>1, <1>3
<1> QED
  BY <1>2, <1>4

\* A rejection handler runs and the next one's turn comes, with n more pages.
LEMMA NextRejectionIInv ==
  ASSUME IInv, AtMatch, call.kind = "notification", NEW n \in Nat,
         handed' = [handed EXCEPT ![at] = HandedSeq(call)],
         pages' = pages \o Emitted(at, n), seq' = (seq + n) % SeqLimit,
         at' = at + 1, revoked' \subseteq Slots,
         UNCHANGED <<builderVars, call, reply>>
  PROVE  IInv'
<1>1. HandedSeq(call) \in 0 .. SeqLimit - 1
  BY HandedSeqType DEF IInv
<1>2. /\ Dispatching /\ at \in DOMAIN factories /\ Matches(call, factories[at])
      /\ at \in Slots /\ at \in Nat \ {0} /\ at + 1 \in 1 .. Len(factories) + 1
      /\ handed' \in [Slots -> {NotRun} \cup (0 .. SeqLimit - 1)]
      /\ RunSlots' = RunSlots \cup {at}
      /\ handed'[at] = HandedSeq(call) /\ \A j \in Slots \ {at} : handed'[j] = handed[j]
  BY <1>1, HandlerRuns
<1>3. /\ TypeOK /\ ForRejection /\ Threaded /\ reply = "none" /\ pages \in Seq(Slots)
      /\ RunSlots \subseteq Slots /\ call \in Requests
  BY <1>2, DispatchFacts DEF TypeOK
<1>4. /\ RunSlots = {i \in Declared : i < at}
      /\ \A k \in DOMAIN pages : pages[k] < at
      /\ \A k, l \in DOMAIN pages : k <= l => pages[k] <= pages[l]
  BY <1>3 DEF ForRejection
<1>5. /\ Emitted(at, n) \in Seq(Slots) /\ Len(Emitted(at, n)) = n
      /\ \A k \in 1 .. n : Emitted(at, n)[k] = at
  BY <1>2, EmittedType
<1>6. /\ pages' \in Seq(Slots) /\ Len(pages') = Len(pages) + n
      /\ Len(pages) \in Nat /\ DOMAIN pages = 1 .. Len(pages)
      /\ DOMAIN pages' = 1 .. Len(pages) + n
      /\ \A k \in 1 .. Len(pages) : pages'[k] = pages[k]
      /\ \A k \in 1 .. Len(pages) + n : k > Len(pages) => pages'[k] = at
  <2>1. PICK new \in Seq(Slots) : new = Emitted(at, n)
    BY <1>5
  <2>2. Len(new) = n /\ \A k \in 1 .. n : new[k] = at /\ pages' = pages \o new
    BY <1>5, <2>1
  <2>3. pages' = pages \o new
    BY <2>1
  <2>4. pages' \in Seq(Slots) /\ Len(pages') = Len(pages) + n
    BY <1>3, <2>2, <2>3, Concatenated
  <2>5. Len(pages) \in Nat /\ DOMAIN pages = 1 .. Len(pages) /\ DOMAIN pages' = 1 .. Len(pages')
    BY <1>3, <2>4, EntryType
  <2>6. \A k \in 1 .. Len(pages) : pages'[k] = pages[k]
    BY <1>3, <2>3, Concatenated
  <2>7. \A k \in 1 .. Len(pages) + n : k > Len(pages) => pages'[k] = new[k - Len(pages)]
    BY <1>3, <2>2, <2>3, Concatenated
  <2>8. \A k \in 1 .. Len(pages) + n : k > Len(pages) => k - Len(pages) \in 1 .. n
    BY <2>5
  <2> QED
    BY <2>2, <2>4, <2>5, <2>6, <2>7, <2>8
<1>7. seq' \in 0 .. SeqLimit - 1
  <2>1. seq \in 0 .. SeqLimit - 1
    BY <1>3 DEF TypeOK
  <2>2. seq + n \in Nat
    BY <2>1, Numbers
  <2> QED
    BY <2>2, Numbers, Division
<1>8. TypeOK'
  BY <1>2, <1>3, <1>6, <1>7 DEF TypeOK, builderVars
<1>9. Declared' = Declared /\ Declared \subseteq Nat /\ at \in Declared
  BY <1>2, <1>3, FactoryType, MatchesWhat DEF Declared, builderVars
<1>10. ForRejection'
  <2>1. RunSlots' = {i \in Declared' : i < at'}
    <3>1. \A i \in Declared : i < at + 1 <=> (i < at \/ i = at)
      BY <1>2, <1>9
    <3> QED
      BY <1>2, <1>4, <1>9, <3>1
  <2>2. \A k \in DOMAIN pages : pages[k] \in Nat
    BY <1>3, PageType
  <2>3. ASSUME NEW k \in DOMAIN pages' PROVE pages'[k] < at'
    <3>1. CASE k <= Len(pages)
      <4>1. k \in DOMAIN pages /\ pages'[k] = pages[k]
        BY <1>6, <3>1
      <4> QED
        BY <1>2, <1>4, <2>2, <4>1
    <3>2. CASE k > Len(pages)
      BY <1>2, <1>6, <3>2
    <3> QED
      BY <1>6, <3>1, <3>2
  <2>4. ASSUME NEW k \in DOMAIN pages', NEW l \in DOMAIN pages', k <= l
        PROVE  pages'[k] <= pages'[l]
    <3>1. CASE l <= Len(pages)
      <4>1. k \in DOMAIN pages /\ pages'[k] = pages[k] /\ l \in DOMAIN pages /\ pages'[l] = pages[l]
        BY <1>6, <2>4, <3>1
      <4> QED
        BY <1>4, <2>4, <4>1
    <3>2. CASE l > Len(pages)
      <4>1. pages'[l] = at /\ (pages'[k] = at \/ (k \in DOMAIN pages /\ pages'[k] = pages[k]))
        BY <1>6, <3>2
      <4> QED
        BY <1>2, <1>4, <2>2, <4>1
    <3> QED
      BY <1>6, <3>1, <3>2
  <2> QED
    BY <1>3, <2>1, <2>3, <2>4 DEF ForRejection
<1>11. Threaded'
  <2> SUFFICES ASSUME call.hasBook
               PROVE  /\ \A i \in RunSlots' : handed'[i] = (call.seq + PagesBefore(i)') % SeqLimit
                      /\ seq' = (call.seq + Len(pages')) % SeqLimit
    BY DEF Threaded
  <2>1. call.seq \in Nat
    <3>1. InitialSeq(call) \in 0 .. SeqLimit - 1 /\ InitialSeq(call) = call.seq
      BY <1>3, InitialSeqType DEF InitialSeq
    <3> QED
      BY <3>1, Numbers
  <2>2. /\ seq = (call.seq + Len(pages)) % SeqLimit
        /\ \A i \in RunSlots : handed[i] = (call.seq + PagesBefore(i)) % SeqLimit
    BY <1>3 DEF Threaded
  <2>3. seq' = (call.seq + Len(pages')) % SeqLimit
    <3>1. PICK a \in Nat : a = call.seq + Len(pages)
      BY <1>6, <2>1
    <3>2. ((a % SeqLimit) + n) % SeqLimit = (a + n) % SeqLimit
      BY WrapOnce, Numbers
    <3>3. a + n = call.seq + Len(pages')
      BY <1>6, <2>1, <3>1
    <3> QED
      BY <2>2, <3>1, <3>2, <3>3
  <2>4. ASSUME NEW i \in Slots, i <= at PROVE PagesBefore(i)' = PagesBefore(i)
    <3>1. {k \in DOMAIN pages' : pages'[k] < i} = {k \in DOMAIN pages : pages[k] < i}
      <4>1. ASSUME NEW k \in DOMAIN pages', pages'[k] < i
            PROVE  k \in DOMAIN pages /\ pages[k] < i
        <5>1. CASE k <= Len(pages)
          BY <1>6, <4>1, <5>1
        <5>2. CASE k > Len(pages)
          <6>1. i \in Nat /\ pages'[k] = at
            BY <1>6, <5>2 DEF Slots
          <6> QED
            BY <1>2, <2>4, <4>1, <6>1
        <5> QED
          BY <1>6, <5>1, <5>2
      <4>2. ASSUME NEW k \in DOMAIN pages, pages[k] < i
            PROVE  k \in DOMAIN pages' /\ pages'[k] < i
        BY <1>6, <4>2
      <4> QED
        BY <4>1, <4>2
    <3> QED
      BY <3>1 DEF PagesBefore
  <2>5. PICK here \in Slots : here = at
    BY <1>2
  <2>6. PagesBefore(here) = Len(pages)
    <3>1. Cardinality({k \in DOMAIN pages : pages[k] < at}) = Len(pages)
      BY <1>2, <1>3, <1>4, CountAll
    <3> QED
      BY <2>5, <3>1 DEF PagesBefore
  <2>7. handed'[here] = (call.seq + PagesBefore(here)') % SeqLimit
    <3>1. handed'[here] = seq
      BY <1>2, <2>5 DEF HandedSeq
    <3>2. PagesBefore(here)' = Len(pages)
      BY <1>2, <2>4, <2>5, <2>6
    <3> QED
      BY <2>2, <3>1, <3>2
  <2>8. ASSUME NEW i \in RunSlots PROVE handed'[i] = (call.seq + PagesBefore(i)') % SeqLimit
    <3>1. i \in Slots /\ i \in Nat /\ i < at
      BY <1>3, <1>4, <1>9
    <3>2. i # at /\ i <= at
      BY <1>2, <3>1
    <3>3. handed'[i] = handed[i] /\ PagesBefore(i)' = PagesBefore(i)
      BY <1>2, <2>4, <3>1, <3>2
    <3> QED
      BY <2>2, <3>3
  <2> QED
    BY <1>2, <2>3, <2>5, <2>7, <2>8
<1>12. ForCommand' /\ ForFirst'
  BY DEF ForCommand, ForFirst
<1>13. Accepted'
  BY <1>2, StillAccepted
<1> QED
  BY <1>8, <1>10, <1>11, <1>12, <1>13 DEF IInv, Loops

LEMMA RejectionIInv ==
  ASSUME IInv, RunRejection \/ RunRevocation
  PROVE  IInv'
<1>1. AtMatch /\ Dispatching /\ TypeOK /\ call.kind = "notification"
  BY DEF RunRejection, RunRevocation, AtMatch, IInv
<1>2. at \in Slots /\ revoked \subseteq Slots /\ seq \in 0 .. SeqLimit - 1 /\ pages \in Seq(Slots)
  BY <1>1, FactoryType DEF AtMatch, TypeOK
<1>3. CASE RunRejection
  <2>1. PICK n \in 0 .. MaxPages : pages' = pages \o Emitted(at, n) /\ seq' = (seq + n) % SeqLimit
    BY <1>3 DEF RunRejection
  <2>2. n \in Nat
    BY Numbers
  <2> QED
    BY <1>1, <1>2, <1>3, <2>1, <2>2, NextRejectionIInv DEF RunRejection
<1>4. CASE RunRevocation
  <2>1. (seq + 0) % SeqLimit = seq
    BY <1>2, Numbers
  <2>2. pages \o Emitted(at, 0) = pages
    <3>1. Emitted(at, 0) = <<>>
      BY <1>2, EmittedType DEF Emitted
    <3> QED
      BY <1>2, <3>1
  <2>3. revoked' \subseteq Slots
    BY <1>2, <1>4 DEF RunRevocation
  <2> QED
    BY <1>1, <1>4, <2>1, <2>2, <2>3, NextRejectionIInv DEF RunRevocation
<1> QED
  BY <1>3, <1>4

LEMMA FinishIInv ==
  ASSUME IInv, Finish
  PROVE  IInv'
<1>1. /\ Dispatching /\ at = Len(factories) + 1
      /\ reply' = IF call.kind = "command" THEN "no_handler" ELSE "events"
      /\ UNCHANGED <<factories, built, call, at, seq, pages, handed, revoked>>
  BY DEF Finish, builderVars
<1>2. /\ TypeOK /\ ForCommand /\ ForRejection /\ ForFirst /\ Threaded /\ reply = "none"
      /\ call # Idle
  BY <1>1, DispatchFacts
<1>3. RunSlots' = RunSlots /\ Declared' = Declared
  BY <1>1 DEF RunSlots, Declared
<1>4. TypeOK'
  BY <1>1, <1>2 DEF TypeOK, Replies, ErrorReplies, OkReplies
<1>5. ForCommand'
  BY <1>1, <1>2, <1>3 DEF ForCommand
<1>6. ForRejection'
  BY <1>1, <1>2, <1>3 DEF ForRejection
<1>7. ForFirst'
  BY <1>1, <1>2 DEF ForFirst
<1>8. Threaded'
  BY <1>1, <1>2, <1>3 DEF Threaded, PagesBefore
<1>9. Accepted'
  BY <1>1, StillAccepted DEF Finish
<1> QED
  BY <1>4, <1>5, <1>6, <1>7, <1>8, <1>9 DEF IInv, Loops

LEMMA NextIInv == IInv /\ [Next]_vars => IInv'
<1> SUFFICES ASSUME IInv, [Next]_vars PROVE IInv'
  OBVIOUS
<1>1. CASE DispatchStep
  BY <1>1, SkipFactoryIInv, LastRunIInv, RejectionIInv, FinishIInv DEF DispatchStep
<1>2. CASE Next
  BY <1>1, <1>2, BuilderIInv, ReceiveIInv DEF Next
<1>3. CASE UNCHANGED vars
  <2>1. UNCHANGED <<factories, built, call, at, seq, pages, reply, handed, revoked>>
    BY <1>3 DEF vars, builderVars, callVars
  <2>2. RunSlots' = RunSlots /\ Declared' = Declared
    BY <2>1 DEF RunSlots, Declared
  <2>3. TypeOK' /\ Accepted'
    BY <2>1, <2>2 DEF IInv, TypeOK, Accepted
  <2>4. Loops'
    BY <2>1, <2>2 DEF IInv, Loops, ForCommand, ForRejection, ForFirst
  <2>5. Threaded'
    BY <2>1, <2>2 DEF IInv, Threaded, PagesBefore
  <2> QED
    BY <2>3, <2>4, <2>5 DEF IInv
<1> QED
  BY <1>2, <1>3

LEMMA Invariance == Spec => []IInv
  BY InitIInv, NextIInv, PTL DEF Spec

-----------------------------------------------------------------------------
(* Theorems.                                                               *)

\* The router's variables keep their types.
THEOREM TypeCorrect == Spec => []TypeOK
<1>1. IInv => TypeOK
  BY DEF IInv
<1> QED
  BY <1>1, Invariance, PTL

\* Of the factories of a router that build() let pass, one at most matches a
\* command.
LEMMA OneOwner ==
  ASSUME IInv, call # Idle, call.kind = "command",
         NEW i \in DOMAIN factories, NEW j \in DOMAIN factories,
         Matches(call, factories[i]), Matches(call, factories[j])
  PROVE  i = j
<1>1. built = "CommandHandler" /\ built = BuildResult(factories)
  BY DEF IInv, Accepted
<1>2. \A k \in DOMAIN factories : ~Redeclares(factories, k)
  BY <1>1 DEF BuildResult
<1>3. i \in Nat /\ j \in Nat /\ i >= 1 /\ j >= 1
  BY FactoryType DEF IInv
<1>4. factories[i].domain = factories[j].domain
  BY MatchesWhat
<1>5. PICK n \in DOMAIN factories[i].handled, m \in DOMAIN factories[j].handled :
        factories[i].handled[n] = factories[j].handled[m]
  BY MatchesWhat
<1>6. ~(i < j)
  <2> SUFFICES ASSUME i < j PROVE FALSE
    OBVIOUS
  <2>1. i \in 1 .. j - 1
    BY <1>3
  <2>2. Redeclares(factories, j)
    BY <1>4, <1>5, <2>1 DEF Redeclares
  <2> QED
    BY <1>2, <2>2
<1>7. ~(j < i)
  <2> SUFFICES ASSUME j < i PROVE FALSE
    OBVIOUS
  <2>1. j \in 1 .. i - 1
    BY <1>3
  <2>2. Redeclares(factories, i)
    BY <1>4, <1>5, <2>1 DEF Redeclares
  <2> QED
    BY <1>2, <2>2
<1> QED
  BY <1>3, <1>6, <1>7

\* A command runs the one handler that declares it, whatever is registered
\* and in whatever order.
THEOREM OneOwnerRuns == Spec => []CommandHasOneOwner
<1>1. IInv => CommandHasOneOwner
  <2> SUFFICES ASSUME IInv, call.kind = "command", reply # "none"
               PROVE  /\ RunSlots = OwnersOf(factories, call.domain, call.type)
                      /\ \A i, j \in RunSlots : i = j
                      /\ reply = "no_handler" <=> RunSlots = {}
    BY DEF CommandHasOneOwner
  <2>1. OwnersOf(factories, call.domain, call.type)
          = {i \in DOMAIN factories : Matches(call, factories[i])}
    BY MatchesWhat DEF OwnersOf
  <2>2. ForCommand /\ call # Idle
    BY DEF IInv, Loops, Idle
  <2>3. CASE reply = "no_handler"
    <3>1. \A i \in DOMAIN factories : i < at
      BY <2>2, <2>3, FactoryType DEF ForCommand, IInv
    <3> QED
      BY <2>1, <2>2, <2>3, <3>1 DEF ForCommand
  <2>4. CASE reply # "no_handler"
    <3>1. at \in DOMAIN factories /\ RunSlots = {at} /\ Matches(call, factories[at])
      BY <2>2, <2>4 DEF ForCommand
    <3>2. \A i \in DOMAIN factories : Matches(call, factories[i]) => i = at
      BY <2>2, <3>1, OneOwner
    <3> QED
      BY <2>1, <2>4, <3>1, <3>2
  <2> QED
    BY <2>3, <2>4
<1> QED
  BY <1>1, Invariance, PTL

\* Two places of the router, in one handler or in two, declare one (domain,
\* type URL).
DeclaredTwice ==
  \E i, j \in DOMAIN factories :
    \E n \in DOMAIN factories[i].handled, m \in DOMAIN factories[j].handled :
      /\ <<i, n>> # <<j, m>>
      /\ factories[i].domain = factories[j].domain
      /\ factories[i].handled[n] = factories[j].handled[m]

\* build() refuses command handlers that declare something twice, in whatever
\* order they are registered and declare it, and no others.
BuildIsExact ==
  /\ built # "building" /\ factories # <<>>
  /\ \A i \in DOMAIN factories : factories[i].kind = "CommandHandler"
  => built = IF DeclaredTwice THEN "duplicate" ELSE "CommandHandler"

\* A second declaration is found from the later of its two places.
LEMMA RedeclaredTwice ==
  ASSUME TypeOK, \A i \in DOMAIN factories : factories[i].kind = "CommandHandler"
  PROVE  (\E i \in DOMAIN factories : Redeclares(factories, i)) <=> DeclaredTwice
<1>1. /\ DOMAIN factories = 1 .. Len(factories) /\ Len(factories) \in Nat
      /\ \A i \in DOMAIN factories : factories[i].handled \in Seq(Types)
  BY FactoryType, RouterAssumption
<1>2. \A i \in DOMAIN factories :
        /\ Len(factories[i].handled) \in Nat
        /\ DOMAIN factories[i].handled = 1 .. Len(factories[i].handled)
  BY <1>1, EntryType
<1>3. ASSUME NEW i \in DOMAIN factories, Redeclares(factories, i) PROVE DeclaredTwice
  <2>1. PICK n \in DOMAIN factories[i].handled :
          \/ \E m \in 1 .. n - 1 : factories[i].handled[m] = factories[i].handled[n]
          \/ \E j \in 1 .. i - 1 : \E m \in DOMAIN factories[j].handled :
               /\ factories[j].domain = factories[i].domain
               /\ factories[j].handled[m] = factories[i].handled[n]
    BY <1>3 DEF Redeclares
  <2>2. CASE \E m \in 1 .. n - 1 : factories[i].handled[m] = factories[i].handled[n]
    <3>1. PICK m \in 1 .. n - 1 : factories[i].handled[m] = factories[i].handled[n]
      BY <2>2
    <3>2. m \in DOMAIN factories[i].handled /\ m # n
      BY <1>2
    <3> QED
      BY <3>1, <3>2 DEF DeclaredTwice
  <2>3. CASE \E j \in 1 .. i - 1 : \E m \in DOMAIN factories[j].handled :
               /\ factories[j].domain = factories[i].domain
               /\ factories[j].handled[m] = factories[i].handled[n]
    <3>1. PICK j \in 1 .. i - 1 : \E m \in DOMAIN factories[j].handled :
               /\ factories[j].domain = factories[i].domain
               /\ factories[j].handled[m] = factories[i].handled[n]
      BY <2>3
    <3>2. j \in DOMAIN factories /\ j # i
      BY <1>1
    <3> QED
      BY <3>1, <3>2 DEF DeclaredTwice
  <2> QED
    BY <2>1, <2>2, <2>3
<1>4. ASSUME DeclaredTwice PROVE \E i \in DOMAIN factories : Redeclares(factories, i)
  <2> PICK i \in DOMAIN factories, j \in DOMAIN factories :
        \E n \in DOMAIN factories[i].handled, m \in DOMAIN factories[j].handled :
          /\ <<i, n>> # <<j, m>>
          /\ factories[i].domain = factories[j].domain
          /\ factories[i].handled[n] = factories[j].handled[m]
    BY <1>4 DEF DeclaredTwice
  <2>1. PICK n \in DOMAIN factories[i].handled, m \in DOMAIN factories[j].handled :
          /\ <<i, n>> # <<j, m>>
          /\ factories[i].domain = factories[j].domain
          /\ factories[i].handled[n] = factories[j].handled[m]
    OBVIOUS
  <2>2. i \in Nat /\ j \in Nat /\ i >= 1 /\ j >= 1 /\ n \in Nat /\ m \in Nat /\ n >= 1 /\ m >= 1
    BY <1>1, <1>2
  <2>3. CASE i < j
    <3>1. i \in 1 .. j - 1
      BY <2>2, <2>3
    <3> QED
      BY <2>1, <3>1 DEF Redeclares
  <2>4. CASE j < i
    <3>1. j \in 1 .. i - 1
      BY <2>2, <2>4
    <3> QED
      BY <2>1, <3>1 DEF Redeclares
  <2>5. CASE i = j
    <3>1. n \in 1 .. m - 1 \/ m \in 1 .. n - 1
      BY <2>1, <2>2, <2>5
    <3> QED
      BY <2>1, <2>5, <3>1 DEF Redeclares
  <2> QED
    BY <2>2, <2>3, <2>4, <2>5
<1> QED
  BY <1>3, <1>4

\* build() refuses what it should and nothing else.
THEOREM BuildsExactly == Spec => []BuildIsExact
<1>1. IInv => BuildIsExact
  <2> SUFFICES ASSUME IInv, built # "building", factories # <<>>,
                      \A i \in DOMAIN factories : factories[i].kind = "CommandHandler"
               PROVE  built = IF DeclaredTwice THEN "duplicate" ELSE "CommandHandler"
    BY DEF BuildIsExact
  <2>1. built = BuildResult(factories) /\ TypeOK
    BY DEF IInv, Accepted
  <2>2. 1 \in DOMAIN factories
    <3>1. Len(factories) # 0
      BY <2>1 DEF TypeOK
    <3> QED
      BY <2>1, <3>1, FactoryType
  <2>3. ~Mixed(factories) /\ factories[1].kind = "CommandHandler"
    BY <2>2 DEF Mixed
  <2> QED
    BY <2>1, <2>3, RedeclaredTwice DEF BuildResult
<1> QED
  BY <1>1, Invariance, PTL

\* What dispatch_fact does instead of routing a fact: the first factory answers
\* for the router, with no pages for a type that it has no method for.  So a
\* fact misses its handlers when there are some and the first is none of them,
\* and a router of one handler never misses.
FirstTakesFacts ==
  LET declaring == {i \in DOMAIN factories :
                      factories[i].domain = call.domain /\ call.type \in factories[i].facts}
  IN  call.kind = "fact" /\ reply = "fact_events" =>
        /\ RunSlots = {1}
        /\ call.type \notin factories[1].facts => pages = <<>>
        /\ FactReachesItsHandler <=> (declaring # {} => 1 \in declaring)
        /\ Len(factories) = 1 => FactReachesItsHandler

\* When FactReachesItsHandler fails, for every router that build() accepts.
THEOREM FactsMissExactly == Spec => []FirstTakesFacts
<1>1. IInv => FirstTakesFacts
  <2> SUFFICES ASSUME IInv, call.kind = "fact", reply = "fact_events" PROVE FirstTakesFacts
    BY DEF FirstTakesFacts
  <2> DEFINE declaring == {i \in DOMAIN factories :
                factories[i].domain = call.domain /\ call.type \in factories[i].facts}
  <2>1. /\ 1 \in DOMAIN factories /\ RunSlots = {1}
        /\ call.type \notin factories[1].facts => pages = <<>>
    BY DEF IInv, Loops, ForFirst
  <2>2. FactReachesItsHandler <=> (declaring # {} => 1 \in declaring)
    BY <2>1 DEF FactReachesItsHandler
  <2>3. Len(factories) = 1 => \A i \in declaring : i = 1
    BY FactoryType DEF IInv
  <2> QED
    BY <2>1, <2>2, <2>3 DEF FirstTakesFacts
<1> QED
  BY <1>1, Invariance, PTL

\* A rejection reaches every handler of its key, in order, or has no pages.
THEOREM RejectionReachesAll == Spec => []RejectionServesAll
<1>1. IInv => RejectionServesAll
  <2> SUFFICES ASSUME IInv PROVE RejectionServesAll
    OBVIOUS
  <2>1. ForRejection
    BY DEF IInv, Loops
  <2>2. call.kind = "notification" /\ reply = "events" => RunSlots = Declared
    <3>1. ASSUME at = Len(factories) + 1 PROVE \A i \in Declared : i < at
      BY <3>1, FactoryType DEF IInv, Declared
    <3> QED
      BY <2>1, <3>1 DEF ForRejection
  <2>3. ASSUME call.kind = "notification", reply \in {"handler_error", "wrong_kind"}
        PROVE  RunSlots = {i \in Declared : i <= at} /\ at \in RunSlots /\ pages = <<>>
    <3>1. at \in Nat
      BY FactoryType DEF IInv
    <3> QED
      BY <2>1, <2>3, <3>1 DEF ForRejection
  <2> QED
    BY <2>1, <2>2, <2>3 DEF RejectionServesAll, ForRejection, Declared
<1> QED
  BY <1>1, Invariance, PTL

\* running_seq threads through the handlers of a rejection, across the wrap.
THEOREM SequencesThread == Spec => []RejectionSequencesThread
<1>1. IInv => RejectionSequencesThread
  BY DEF IInv, Threaded, RejectionSequencesThread
<1> QED
  BY <1>1, Invariance, PTL

-----------------------------------------------------------------------------
(* The refinement of OrderedFanOut.                                        *)

\* The state of the fan-out, as FanOut substitutes it.
Phase ==
  IF call = Idle THEN "idle"
  ELSE IF reply = "none" THEN "running"
  ELSE IF reply \in OkReplies THEN "ok" ELSE "failed"

Todo ==
  {i \in DOMAIN factories :
     /\ Dispatching
     /\ i >= at
     /\ Matches(call, factories[i])
     /\ call.kind \in {"fact", "replay"} => i = 1}

Served == IF reply \in ErrorReplies THEN {} ELSE RunSlots

\* Nothing is to do unless a dispatch runs.
LEMMA NothingTodo ==
  /\ ~Dispatching => Todo = {}
  /\ ~Dispatching' => Todo' = {}
BY DEF Todo

\* The steps of the fan-out, in these terms.
LEMMA FanOutSteps ==
  /\ Phase = "idle" /\ Todo = {} /\ Served = {} => FanOut!Init
  /\ Phase # "running" /\ Phase' = "failed" /\ Todo' = {} /\ Served' = {} => FanOut!Next
  /\ Phase # "running" /\ Phase' = "running" /\ Todo' \subseteq Slots /\ Served' = {}
       => FanOut!Next
  /\ \A i \in Todo :
       /\ Phase = "running" /\ \A j \in Todo : i <= j
       /\ Todo' = Todo \ {i} /\ Served' = Served \cup {i}
       /\ Phase' = "running" \/ (Phase' = "ok" /\ Todo' = {})
       => FanOut!Next
  /\ Phase = "running" /\ Phase' = "failed" /\ Todo' = {} /\ Served' = {} => FanOut!Next
  /\ Phase = "running" /\ Todo = {} /\ Phase' = "ok" /\ UNCHANGED <<Todo, Served>> => FanOut!Next
  /\ UNCHANGED <<Phase, Todo, Served>> => UNCHANGED FanOut!fanVars
<1> USE DEF FanOut!Next, Phase, Todo, Served
<1>1. Phase = "idle" /\ Todo = {} /\ Served = {} => FanOut!Init
  BY DEF FanOut!Init
<1>2. Phase # "running" /\ Phase' = "failed" /\ Todo' = {} /\ Served' = {} => FanOut!Next
  BY DEF FanOut!Accept
<1>3. Phase # "running" /\ Phase' = "running" /\ Todo' \subseteq Slots /\ Served' = {}
        => FanOut!Next
  BY DEF FanOut!Accept
<1>4. ASSUME NEW i \in Todo,
             Phase = "running", \A j \in Todo : i <= j,
             Todo' = Todo \ {i}, Served' = Served \cup {i},
             Phase' = "running" \/ (Phase' = "ok" /\ Todo' = {})
      PROVE  FanOut!Next
  BY <1>4 DEF FanOut!Run
<1>5. Phase = "running" /\ Phase' = "failed" /\ Todo' = {} /\ Served' = {} => FanOut!Next
  BY DEF FanOut!Fail
<1>6. Phase = "running" /\ Todo = {} /\ Phase' = "ok" /\ UNCHANGED <<Todo, Served>> => FanOut!Next
  BY DEF FanOut!Reply
<1>7. UNCHANGED <<Phase, Todo, Served>> => UNCHANGED FanOut!fanVars
  BY DEF FanOut!fanVars
<1> HIDE DEF FanOut!Next, Phase, Todo, Served
<1> QED
  BY <1>1, <1>2, <1>3, <1>4, <1>5, <1>6, <1>7

\* What runs is the first of what is to do.
LEMMA FirstTodo ==
  ASSUME IInv, AtMatch
  PROVE  /\ at \in Todo /\ \A j \in Todo : at <= j
         /\ Phase = "running" /\ Served = RunSlots
         /\ call.kind \in {"command", "fact", "replay"} => Todo = {at}
<1>1. Dispatching /\ at \in DOMAIN factories /\ Matches(call, factories[at])
  BY DEF AtMatch
<1>2. TypeOK /\ ForFirst /\ call # Idle /\ reply = "none"
  BY <1>1, DispatchFacts
<1>3. at \in Nat /\ DOMAIN factories \subseteq Nat
  BY <1>2, FactoryType
<1>4. at \in Todo
  BY <1>1, <1>2, <1>3 DEF Todo, ForFirst
<1>5. \A j \in Todo : at <= j
  BY <1>3 DEF Todo
<1>6. Phase = "running" /\ Served = RunSlots
  BY <1>2 DEF Phase, Served, ErrorReplies
<1>7. ASSUME call.kind = "command", NEW j \in Todo PROVE j = at
  BY <1>1, <1>2, <1>7, OneOwner DEF Todo
<1>8. ASSUME call.kind \in {"fact", "replay"}, NEW j \in Todo PROVE j = at
  BY <1>2, <1>8 DEF Todo, ForFirst
<1> QED
  BY <1>4, <1>5, <1>6, <1>7, <1>8

LEMMA StepFansOut ==
  ASSUME IInv, DispatchStep
  PROVE  FanOut!Next \/ UNCHANGED FanOut!fanVars
<1>1. Dispatching /\ call # Idle /\ reply = "none" /\ TypeOK /\ UNCHANGED <<factories, built, call>>
  BY DispatchFacts DEF DispatchStep, SkipFactory, HandlerFails, RunCommand, RunRejection,
       RunRevocation, RunFact, RunReplay, Finish, AtMatch, builderVars
<1>2. Phase = "running" /\ Served = RunSlots
  BY <1>1 DEF Phase, Served, ErrorReplies
<1>3. ASSUME reply' \in ErrorReplies
      PROVE  FanOut!Next
  <2>1. Phase' = "failed" /\ Served' = {} /\ ~Dispatching'
    BY <1>1, <1>3 DEF Phase, Served, ErrorReplies, OkReplies, Dispatching
  <2> QED
    BY <1>2, <2>1, NothingTodo, FanOutSteps
<1>4. CASE SkipFactory
  <2>1. /\ at \in DOMAIN factories /\ ~Matches(call, factories[at]) /\ at' = at + 1
        /\ UNCHANGED <<reply, handed>>
    BY <1>4 DEF SkipFactory
  <2>2. at \in Nat /\ DOMAIN factories \subseteq Nat
    BY <1>1, FactoryType
  <2>3. \A i \in DOMAIN factories : Matches(call, factories[i]) => (i >= at + 1 <=> i >= at)
    BY <2>1, <2>2
  <2>4. Dispatching' = Dispatching /\ \A i : Matches(call, factories[i])' = Matches(call, factories[i])
    BY <1>1, <2>1 DEF Dispatching, Matches
  <2>5. Todo' = Todo
    BY <1>1, <2>1, <2>3, <2>4 DEF Todo
  <2>6. Phase' = Phase /\ Served' = Served
    BY <1>1, <2>1 DEF Phase, Served, RunSlots
  <2> QED
    BY <2>5, <2>6, FanOutSteps
<1>5. CASE HandlerFails
  BY <1>3, <1>5 DEF HandlerFails, ErrorReplies
<1>6. ASSUME RunCommand \/ RunFact \/ RunReplay, reply' \in OkReplies
      PROVE  FanOut!Next
  <2>1. AtMatch /\ call.kind \in {"command", "fact", "replay"}
    BY <1>6 DEF RunCommand, RunFact, RunReplay
  <2>2. at \in Todo /\ (\A j \in Todo : at <= j) /\ Todo = {at}
    BY <2>1, FirstTodo
  <2>3. Phase' = "ok" /\ ~Dispatching' /\ Served' = RunSlots'
    BY <1>1, <1>6 DEF Phase, Served, ErrorReplies, OkReplies, Dispatching
  <2>4. RunSlots' = RunSlots \cup {at}
    <3>1. PICK q \in 0 .. SeqLimit - 1 : handed' = [handed EXCEPT ![at] = q]
      BY <1>1, <1>6, HandedSeqType DEF RunCommand, RunFact, RunReplay
    <3> QED
      BY <2>1, <3>1, HandlerRuns
  <2>5. Todo' = {}
    BY <2>3, NothingTodo
  <2>6. Todo' = Todo \ {at} /\ Served' = Served \cup {at}
    BY <1>2, <2>2, <2>3, <2>4, <2>5
  <2> QED
    BY <1>2, <2>2, <2>3, <2>5, <2>6, FanOutSteps
<1>7. CASE RunCommand \/ RunFact \/ RunReplay
  <2>1. reply' \in OkReplies \/ reply' \in ErrorReplies
    BY <1>7 DEF RunCommand, RunFact, RunReplay, ErrorReplies, OkReplies
  <2> QED
    BY <1>3, <1>6, <1>7, <2>1
<1>8. CASE RunRejection \/ RunRevocation
  <2>1. /\ AtMatch /\ call.kind = "notification" /\ at' = at + 1 /\ reply' = reply
        /\ handed' = [handed EXCEPT ![at] = HandedSeq(call)]
    BY <1>8 DEF RunRejection, RunRevocation
  <2>2. at \in Todo /\ \A j \in Todo : at <= j
    BY <2>1, FirstTodo
  <2>3. at \in Nat /\ DOMAIN factories \subseteq Nat
    BY <1>1, FactoryType
  <2>4. RunSlots' = RunSlots \cup {at}
    BY <1>1, <2>1, HandedSeqType, HandlerRuns
  <2>5. \A i \in DOMAIN factories : i >= at + 1 <=> i >= at /\ i # at
    BY <2>3
  <2>6. Dispatching' = Dispatching /\ \A i : Matches(call, factories[i])' = Matches(call, factories[i])
    BY <1>1, <2>1 DEF Dispatching, Matches
  <2>7. Todo' = Todo \ {at}
    BY <1>1, <2>1, <2>5, <2>6 DEF Todo
  <2>8. Phase' = "running" /\ Served' = RunSlots'
    BY <1>1, <2>1 DEF Phase, Served, ErrorReplies
  <2> QED
    BY <1>2, <2>2, <2>4, <2>7, <2>8, FanOutSteps
<1>9. CASE Finish
  <2>1. at = Len(factories) + 1 /\ handed' = handed /\ reply' \in {"no_handler", "events"}
    BY <1>9 DEF Finish
  <2>2. CASE reply' = "no_handler"
    BY <1>3, <2>2 DEF ErrorReplies
  <2>3. CASE reply' = "events"
    <3>1. \A i \in DOMAIN factories : ~(i >= at)
      BY <1>1, <2>1, FactoryType
    <3>2. Todo = {}
      BY <3>1 DEF Todo
    <3>3. Phase' = "ok" /\ ~Dispatching' /\ Served' = RunSlots
      BY <1>1, <2>1, <2>3 DEF Phase, Served, ErrorReplies, OkReplies, Dispatching, RunSlots
    <3> QED
      BY <1>2, <3>2, <3>3, NothingTodo, FanOutSteps
  <2> QED
    BY <2>1, <2>2, <2>3
<1> QED
  BY <1>4, <1>5, <1>7, <1>8, <1>9 DEF DispatchStep

\* All four entry points of the router are an OrderedFanOut, whatever the
\* handlers are and whichever of them fails.
THEOREM ImplementsFanOut == Spec => FanOutSpec
<1>1. Init => FanOut!Init
  <2> SUFFICES ASSUME Init PROVE FanOut!Init
    OBVIOUS
  <2>1. call = Idle /\ reply = "none" /\ RunSlots = {}
    BY DEF Init, RunSlots
  <2>2. Phase = "idle" /\ Served = {} /\ ~Dispatching
    BY <2>1 DEF Phase, Served, ErrorReplies, Dispatching
  <2> QED
    BY <2>2, NothingTodo, FanOutSteps
<1>2. ASSUME IInv, [Next]_vars PROVE [FanOut!Next]_(FanOut!fanVars)
  <2>1. CASE BuilderNext /\ UNCHANGED callVars
    <3>1. call = Idle /\ UNCHANGED <<call, at, reply, handed>>
      BY <1>2, <2>1 DEF BuilderNext, WithHandler, Build, IInv, Accepted, callVars
    <3>2. ~Dispatching /\ ~Dispatching' /\ Phase' = Phase /\ Served' = Served
      BY <3>1 DEF Dispatching, Phase, Served, RunSlots
    <3> QED
      BY <3>2, NothingTodo, FanOutSteps
  <2>2. CASE Receive
    <3>1. Phase # "running"
      BY <2>2 DEF Receive, Phase, OkReplies
    <3>2. /\ call' \in Requests /\ reply' \in {"malformed", "unimplemented", "none"}
          /\ handed' = [i \in Slots |-> NotRun] /\ factories' = factories
      BY <2>2 DEF Receive, builderVars
    <3>3. call' # Idle
      BY <3>2 DEF Requests, Commands, Notifications, Facts, Replays, Malformed, Idle
    <3>4. Served' = {}
      BY <3>2 DEF Served, RunSlots
    <3>5. CASE reply' = "none"
      <4>1. Phase' = "running"
        BY <3>3, <3>5 DEF Phase
      <4>2. Todo' \subseteq Slots
        BY <1>2, <3>2, FactoryType DEF Todo, IInv
      <4> QED
        BY <3>1, <3>4, <4>1, <4>2, FanOutSteps
    <3>6. CASE reply' # "none"
      <4>1. Phase' = "failed" /\ ~Dispatching'
        BY <3>2, <3>3, <3>6 DEF Phase, OkReplies, Dispatching
      <4> QED
        BY <3>1, <3>4, <4>1, NothingTodo, FanOutSteps
    <3> QED
      BY <3>5, <3>6
  <2>3. CASE DispatchStep
    BY <1>2, <2>3, StepFansOut
  <2>4. CASE UNCHANGED vars
    <3>1. UNCHANGED <<factories, built, call, at, seq, pages, reply, handed, revoked>>
      BY <2>4 DEF vars, builderVars, callVars
    <3>2. Phase' = Phase /\ Todo' = Todo /\ Served' = Served
      BY <3>1 DEF Phase, Todo, Served, RunSlots, Dispatching, Matches
    <3> QED
      BY <3>2, FanOutSteps
  <2> QED
    BY <1>2, <2>1, <2>2, <2>3, <2>4 DEF Next
<1> QED
  BY <1>1, <1>2, Invariance, PTL DEF Spec, FanOutSpec, FanOut!Spec

===============================================================================
