------------------------ MODULE AggregateHandlerProofs ------------------------
(***************************************************************************)
(* Proofs about AggregateHandler, for any number of requests in flight,    *)
(* any event types, states and #[applies] methods.  The argument: the book *)
(* of a request is a window of the log, of which a prefix is rebuilt       *)
(* (OnLog); the state rebuilt so far is that of the events up to the end   *)
(* of this prefix (TrueState), as a snapshot's is (SnapshotIsTrue); none   *)
(* of these events failed to decode, nor does one that a snapshot covers.  *)
(***************************************************************************)
EXTENDS AggregateHandler, TLAPS, FiniteSetTheorems

Entries == [type : Types, by : {"command", "fact"}, seen : States \cup {NoState}]

Poison(t) == t \in Applied \cap Undecodable

\* The book of request x is a window of the log, its whole if no snapshots are
\* sent; what is rebuilt decodes.
OnLog(x) ==
  /\ ~SendsSnapshots /\ x.kind # "replay" => x.from = 0
  /\ x.from + Len(x.book) = x.next /\ x.next <= Len(log)
  /\ \A i \in 1 .. Len(x.book) : x.book[i] = log[x.from + i].type
  /\ x.reply \in {"events", "state"} => x.idx = Len(x.book) + 1
  /\ x.reply # "error" => \A i \in 1 .. x.from + x.idx - 1 : ~Poison(log[i].type)

InBounds(x) == x.idx <= Len(x.book) + 1 /\ x.fIdx <= Len(x.facts) + 1

\* Rebuilding starts where it should: at the first event, or, of a replay, at a
\* base snapshot that StartState does not mistake for none.
StartsRight(x) == x.from = 0 \/ (x.kind = "replay" /\ Initial = Default)

\* What request x has rebuilt is the state of the events it has passed.
TrueState(x) == StartsRight(x) /\ x.reply # "error" => x.state = truth[x.from + x.idx]

IInv ==
  /\ TypeOK
  /\ Aggregate!IsHistory(truth, log)
  /\ PoisonEndsCommands
  /\ \A i \in 1 .. snap.covers : ~Poison(log[i].type)
  /\ Initial = Default => SnapshotIsTrue
  /\ \A w \in Workers : calls[w] # Idle => OnLog(calls[w]) /\ TrueState(calls[w])

USE HandlerAssumption

-----------------------------------------------------------------------------
(* Sequences and requests.                                                 *)

\* What one sequence after another consists of.
LEMMA Concatenated ==
  ASSUME NEW S, NEW s \in Seq(S), NEW t \in Seq(S)
  PROVE  /\ s \o t \in Seq(S) /\ Len(s \o t) = Len(s) + Len(t)
         /\ Len(s) \in Nat /\ Len(t) \in Nat
         /\ DOMAIN s = 1 .. Len(s) /\ DOMAIN t = 1 .. Len(t)
         /\ DOMAIN (s \o t) = 1 .. Len(s) + Len(t)
         /\ \A i \in 1 .. Len(s) : (s \o t)[i] = s[i]
         /\ \A i \in 1 .. Len(t) : (s \o t)[Len(s) + i] = t[i]
<1>1. Len(s) \in Nat /\ Len(t) \in Nat /\ DOMAIN s = 1 .. Len(s) /\ DOMAIN t = 1 .. Len(t)
  OBVIOUS
<1>2. s \o t \in Seq(S) /\ Len(s \o t) = Len(s) + Len(t)
  OBVIOUS
<1>3. DOMAIN (s \o t) = 1 .. Len(s) + Len(t)
  BY <1>2
<1>4. \A i \in 1 .. Len(s) : (s \o t)[i] = s[i]
  BY <1>1
<1>5. \A i \in 1 .. Len(t) : (s \o t)[Len(s) + i] = t[i]
  BY <1>1
<1> QED
  BY <1>1, <1>2, <1>3, <1>4, <1>5

\* The sequences that inputs are drawn from.
LEMMA UpToType ==
  ASSUME NEW S, NEW n \in Nat, NEW s \in UpTo(S, n)
  PROVE  s \in Seq(S)
BY DEF UpTo

\* A function on an initial segment is a sequence.
LEMMA SegmentType ==
  ASSUME NEW S, NEW n \in Nat, NEW f \in [1 .. n -> S]
  PROVE  f \in Seq(S) /\ Len(f) = n
OBVIOUS

\* A sequence has its entries in its set.
LEMMA EntryType ==
  ASSUME NEW S, NEW s \in Seq(S)
  PROVE  Len(s) \in Nat /\ DOMAIN s = 1 .. Len(s) /\ \A i \in 1 .. Len(s) : s[i] \in S
OBVIOUS

\* A worker that serves has a request.
LEMMA ServingType ==
  ASSUME TypeOK, NEW w \in Workers, calls[w] # Idle
  PROVE  calls[w] \in CallRecords
BY DEF TypeOK

LEMMA IdleServesNot ==
  ASSUME NEW w, NEW kinds \in SUBSET Kinds, Serving(w, kinds)
  PROVE  calls[w] # Idle
BY DEF Serving, Kinds, Idle

\* Effect is a state transformer, and the identity without an #[applies] method.
LEMMA EffectType ==
  ASSUME NEW s \in States, NEW t \in Types
  PROVE  /\ Effect(s, t) \in States
         /\ t \in Applied \ Undecodable => Effect(s, t) = Apply(s, t)
         /\ t \notin Applied \ Undecodable => Effect(s, t) = s
BY DEF Effect

-----------------------------------------------------------------------------
\* At first there is no event, no request and no snapshot but of nothing.
LEMMA InitIInv == Init => IInv
<1> SUFFICES ASSUME Init PROVE IInv
  OBVIOUS
<1>1. log \in Seq(Entries) /\ Len(log) = 0 /\ DOMAIN log = {} /\ truth \in Seq(States)
  BY DEF Init
<1>2. TypeOK
  BY <1>1 DEF Init, TypeOK, Entries
<1>3. Aggregate!IsHistory(truth, log)
  BY <1>1 DEF Init, Aggregate!IsHistory
<1>4. PoisonEndsCommands
  BY <1>1 DEF PoisonEndsCommands
<1>5. snap.covers = 0 /\ SnapshotIsTrue
  BY DEF Init, SnapshotIsTrue
<1>6. \A w \in Workers : calls[w] = Idle
  BY DEF Init
<1> QED
  BY <1>2, <1>3, <1>4, <1>5, <1>6 DEF IInv

\* What one request has to keep of the invariant while only it moves.
LEMMA CallMoves ==
  ASSUME IInv, NEW w \in Workers, NEW x \in CallRecords,
         UNCHANGED <<log, truth, snap>>, calls' = [calls EXCEPT ![w] = x],
         InBounds(x), OnLog(x), TrueState(x)
  PROVE  IInv'
<1> USE DEF IInv
<1>1. calls'[w] = x /\ \A u \in Workers : u # w => calls'[u] = calls[u]
  BY DEF TypeOK
<1>2. TypeOK'
  BY <1>1 DEF TypeOK, InBounds
<1>3. \A u \in Workers : calls'[u] # Idle => OnLog(calls[u])'
  BY <1>1 DEF OnLog
<1>4. \A u \in Workers : calls'[u] # Idle => TrueState(calls[u])'
  BY <1>1 DEF TrueState, StartsRight
<1>5. Aggregate!IsHistory(truth, log)' /\ PoisonEndsCommands'
  BY DEF Aggregate!IsHistory, PoisonEndsCommands
<1>6. (\A i \in 1 .. snap.covers : ~Poison(log[i].type))'
  OBVIOUS
<1>7. (Initial = Default => SnapshotIsTrue)'
  BY DEF SnapshotIsTrue
<1> QED
  BY <1>2, <1>3, <1>4, <1>5, <1>6, <1>7

\* A request begins with a window of the log and the state before it.
LEMMA ReceiveIInv ==
  ASSUME IInv, NEW w \in Workers, Receive(w)
  PROVE  IInv'
<1> USE DEF IInv
<1>1. PICK kind \in Kinds, facts \in UpTo(Types, MaxFacts) :
        calls' = [calls EXCEPT ![w] =
            [kind  |-> kind,
             from  |-> FirstPage(kind),
             book  |-> Pages(FirstPage(kind)),
             next  |-> Len(log),
             idx   |-> 1,
             state |-> StartState(kind, FirstPage(kind)),
             facts |-> facts,
             fIdx  |-> 1,
             left  |-> <<>>,
             out   |-> <<>>,
             reply |-> "none"]]
  BY DEF Receive
<1> DEFINE from == FirstPage(kind)
           book == Pages(from)
           state == StartState(kind, from)
           x == [kind  |-> kind, from  |-> from, book  |-> book, next  |-> Len(log),
                 idx   |-> 1, state |-> state, facts |-> facts, fIdx  |-> 1,
                 left  |-> <<>>, out   |-> <<>>, reply |-> "none"]
<1>2. /\ log \in Seq(Entries) /\ Len(log) \in Nat
      /\ \A i \in 1 .. Len(log) : log[i] \in Entries
      /\ snap \in [state : States, covers : 0 .. Len(log)]
  BY EntryType DEF TypeOK, Entries
<1>3. from \in 0 .. Len(log) /\ from \in {0, snap.covers}
  BY <1>2 DEF FirstPage
<1>4. /\ book \in Seq(Types) /\ Len(book) = Len(log) - from
      /\ \A i \in 1 .. Len(book) : book[i] = log[from + i].type
  <2>1. \A i \in 1 .. Len(log) - from : log[from + i].type \in Types
    BY <1>2, <1>3 DEF Entries
  <2>2. book \in [1 .. Len(log) - from -> Types]
    BY <2>1 DEF Pages
  <2> QED
    <3>1. Len(log) - from \in Nat
      BY <1>2, <1>3
    <3>2. book \in Seq(Types) /\ Len(book) = Len(log) - from
      <4> HIDE DEF book
      <4> QED
        BY <3>1, <2>2, SegmentType
    <3> QED
      BY <3>1, <3>2 DEF Pages
<1>5. state \in States
  BY <1>2 DEF StartState
<1>6. facts \in Seq(Types) /\ Len(facts) \in Nat
  BY UpToType, EntryType
<1>7. (from = 0 \/ (kind = "replay" /\ Initial = Default)) => state = truth[from + 1]
  <2>1. truth[1] = Initial
    BY DEF Aggregate!IsHistory
  <2>2. CASE from = 0
    BY <2>1, <2>2 DEF StartState
  <2>3. CASE from # 0 /\ kind = "replay" /\ Initial = Default
    <3>1. from = snap.covers /\ from > 0 /\ snap.state = truth[from + 1]
      BY <1>3, <2>3 DEF SnapshotIsTrue
    <3> QED
      BY <2>3, <3>1 DEF StartState
  <2> QED
    BY <2>2, <2>3
<1>8. \A i \in 1 .. from : ~Poison(log[i].type)
  BY <1>2, <1>3
<1>12. ~SendsSnapshots /\ kind # "replay" => from = 0
  BY DEF FirstPage
<1> HIDE DEF from, book, state
<1>9. x \in CallRecords
  BY <1>2, <1>3, <1>4, <1>5, <1>6 DEF CallRecords
<1>10. InBounds(x) /\ OnLog(x) /\ TrueState(x)
  BY <1>2, <1>3, <1>4, <1>6, <1>7, <1>8, <1>12 DEF InBounds, OnLog, TrueState, StartsRight
<1>11. calls' = [calls EXCEPT ![w] = x] /\ UNCHANGED <<log, truth, snap>>
  BY <1>1 DEF Receive, from, book, state
<1> QED
  BY <1>9, <1>10, <1>11, CallMoves

-----------------------------------------------------------------------------
(* The steps of a request.                                                 *)

\* The fields of a request, one by one.
LEMMA FieldTypes ==
  ASSUME NEW c \in CallRecords
  PROVE  /\ c.kind \in Kinds /\ c.from \in Nat /\ c.next \in Nat
         /\ c.idx \in Nat \ {0} /\ c.fIdx \in Nat \ {0} /\ c.state \in States
         /\ c.book \in Seq(Types) /\ Len(c.book) \in Nat
         /\ \A i \in 1 .. Len(c.book) : c.book[i] \in Types
         /\ c.facts \in Seq(Types) /\ Len(c.facts) \in Nat
         /\ \A i \in 1 .. Len(c.facts) : c.facts[i] \in Types
         /\ c.left \in Seq(Types) /\ c.out \in Seq(Types \ Undecodable)
         /\ c.reply \in {"none", "error", "events", "state"}
<1>1. /\ c.kind \in Kinds /\ c.from \in Nat /\ c.next \in Nat
      /\ c.idx \in Nat \ {0} /\ c.fIdx \in Nat \ {0} /\ c.state \in States
      /\ c.book \in Seq(Types) /\ c.facts \in Seq(Types)
      /\ c.left \in Seq(Types) /\ c.out \in Seq(Types \ Undecodable)
      /\ c.reply \in {"none", "error", "events", "state"}
  BY DEF CallRecords
<1>2. Len(c.book) \in Nat /\ \A i \in 1 .. Len(c.book) : c.book[i] \in Types
  BY <1>1, EntryType
<1>3. Len(c.facts) \in Nat /\ \A i \in 1 .. Len(c.facts) : c.facts[i] \in Types
  BY <1>1, EntryType
<1> QED
  BY <1>1, <1>2, <1>3

\* What is known of a request, served or answered.
LEMMA RequestFacts ==
  ASSUME IInv, NEW w \in Workers, calls[w] # Idle
  PROVE  /\ calls[w] \in CallRecords /\ OnLog(calls[w]) /\ InBounds(calls[w])
         /\ TrueState(calls[w])
         /\ Len(log) \in Nat
<1>1. calls[w] \in CallRecords /\ InBounds(calls[w])
  BY ServingType DEF IInv, TypeOK, InBounds
<1>2. OnLog(calls[w]) /\ TrueState(calls[w])
  BY DEF IInv
<1>3. Len(log) \in Nat
  BY EntryType DEF IInv, TypeOK
<1> QED
  BY <1>1, <1>2, <1>3

\* Positions in a window of a log.
LEMMA Positions ==
  ASSUME NEW from \in Nat, NEW idx \in Nat \ {0}, NEW len \in Nat, NEW next \in Nat,
         NEW end \in Nat
  PROVE  /\ idx <= len => idx \in 1 .. len
         /\ idx <= len /\ from + len = next /\ next <= end => from + idx \in 1 .. end
         /\ from + (idx + 1) = from + idx + 1
         /\ \A i \in 1 .. from + (idx + 1) - 1 : i \in 1 .. from + idx - 1 \/ i = from + idx
OBVIOUS

\* A page that decodes, or that no #[applies] method is for, is passed.
LEMMA PassesPage ==
  ASSUME IInv, NEW w \in Workers, NEW x \in CallRecords, Rebuilding(w),
         UNCHANGED <<log, truth, snap>>, calls' = [calls EXCEPT ![w] = x],
         NEW c, c = calls[w],
         ~Poison(c.book[c.idx]),
         x.idx = c.idx + 1, x.state = Effect(c.state, c.book[c.idx]),
         x.kind = c.kind, x.from = c.from, x.book = c.book, x.next = c.next,
         x.facts = c.facts, x.fIdx = c.fIdx, x.reply = c.reply
  PROVE  IInv'
<1>1. c # Idle /\ c.reply = "none" /\ c.idx <= Len(c.book)
  BY IdleServesNot DEF Rebuilding, Serving
<1>2. /\ c \in CallRecords /\ OnLog(c) /\ InBounds(c) /\ TrueState(c)
      /\ Len(log) \in Nat
  BY <1>1, RequestFacts
<1>3. /\ c.idx \in Nat \ {0} /\ c.from \in Nat /\ c.next \in Nat
      /\ Len(c.book) \in Nat /\ c.fIdx \in Nat /\ Len(c.facts) \in Nat
  BY <1>2, FieldTypes
<1>4. c.from + Len(c.book) = c.next /\ c.next <= Len(log)
  BY <1>2 DEF OnLog
<1>5. /\ c.idx \in 1 .. Len(c.book) /\ c.from + c.idx \in 1 .. Len(log)
      /\ c.from + (c.idx + 1) = c.from + c.idx + 1
  BY <1>1, <1>2, <1>3, <1>4, Positions
<1>6. c.book[c.idx] = log[c.from + c.idx].type
  BY <1>2, <1>5 DEF OnLog
<1>7. InBounds(x)
  BY <1>1, <1>2, <1>3 DEF InBounds
<1>8. \A i \in 1 .. x.from + x.idx - 1 : ~Poison(log[i].type)
  <2> SUFFICES ASSUME NEW i \in 1 .. x.from + x.idx - 1 PROVE ~Poison(log[i].type)
    OBVIOUS
  <2>1. i \in 1 .. c.from + c.idx - 1 \/ i = c.from + c.idx
    BY <1>3, Positions
  <2>2. \A j \in 1 .. c.from + c.idx - 1 : ~Poison(log[j].type)
    BY <1>1, <1>2 DEF OnLog
  <2> QED
    BY <1>6, <2>1, <2>2
<1>9. OnLog(x)
  BY <1>1, <1>2, <1>8 DEF OnLog
<1>10. TrueState(x)
  <2> SUFFICES ASSUME StartsRight(c) PROVE x.state = truth[x.from + x.idx]
    BY DEF TrueState, StartsRight
  <2>1. truth[c.from + c.idx + 1] = Effect(truth[c.from + c.idx], log[c.from + c.idx].type)
    BY <1>5 DEF IInv, Aggregate!IsHistory
  <2>2. c.state = truth[c.from + c.idx] /\ x.from + x.idx = c.from + c.idx + 1
    BY <1>1, <1>2, <1>5 DEF TrueState
  <2> QED
    BY <1>6, <2>1, <2>2
<1> QED
  BY <1>7, <1>9, <1>10, CallMoves

\* A request that rebuilds nothing in the step keeps what it has rebuilt, and
\* is answered well only if that is everything.
LEMMA KeepsState ==
  ASSUME IInv, NEW w \in Workers, NEW x \in CallRecords, Serving(w, Kinds),
         UNCHANGED <<log, truth, snap>>, calls' = [calls EXCEPT ![w] = x],
         InBounds(x), NEW c, c = calls[w],
         x.idx = c.idx, x.state = c.state,
         x.kind = c.kind, x.from = c.from, x.book = c.book, x.next = c.next,
         x.reply \in {"events", "state"} => c.idx > Len(c.book)
  PROVE  IInv'
<1>1. c # Idle /\ c.reply = "none"
  BY IdleServesNot DEF Serving
<1>2. /\ c \in CallRecords /\ OnLog(c) /\ InBounds(c) /\ TrueState(c)
  BY <1>1, RequestFacts
<1>3. c.idx \in Nat \ {0} /\ Len(c.book) \in Nat
  BY <1>2, FieldTypes
<1>4. x.reply \in {"events", "state"} => x.idx = Len(x.book) + 1
  BY <1>2, <1>3 DEF InBounds
<1>5. OnLog(x) /\ TrueState(x)
  BY <1>1, <1>2, <1>4 DEF OnLog, TrueState, StartsRight
<1> QED
  BY <1>5, CallMoves

LEMMA PageIIInv ==
  ASSUME IInv, NEW w \in Workers,
         ApplyPage(w) \/ SkipPage(w) \/ PageDoesNotDecode(w)
  PROVE  IInv'
<1>1. PICK c : c = calls[w]
  OBVIOUS
<1>2. PICK t : t = c.book[c.idx]
  OBVIOUS
<1>3. Rebuilding(w) /\ Serving(w, Kinds) /\ UNCHANGED <<log, truth, snap>>
  BY DEF ApplyPage, SkipPage, PageDoesNotDecode, Rebuilding
<1>4. c \in CallRecords /\ InBounds(c) /\ c.idx <= Len(c.book)
  BY <1>1, <1>3, IdleServesNot, RequestFacts DEF Rebuilding
<1>5. c.idx \in Nat \ {0} /\ c.idx + 1 \in Nat \ {0} /\ c.state \in States /\ t \in Types
  BY <1>2, <1>4, FieldTypes
<1>6. CASE ApplyPage(w)
  <2> DEFINE x == [c EXCEPT !.state = Apply(c.state, t), !.idx = c.idx + 1]
  <2>1. t \in Applied \ Undecodable /\ calls' = [calls EXCEPT ![w] = x]
    BY <1>1, <1>2, <1>6 DEF ApplyPage
  <2>2. Effect(c.state, t) = Apply(c.state, t) /\ Apply(c.state, t) \in States
    BY <1>5, <2>1, EffectType
  <2>3. x \in CallRecords
    BY <1>4, <1>5, <2>2 DEF CallRecords
  <2>4. /\ x.idx = c.idx + 1 /\ x.state = Apply(c.state, t)
        /\ x.kind = c.kind /\ x.from = c.from /\ x.book = c.book /\ x.next = c.next
        /\ x.facts = c.facts /\ x.fIdx = c.fIdx /\ x.reply = c.reply
    BY <1>4 DEF CallRecords
  <2> HIDE DEF x
  <2> QED
    BY <1>1, <1>2, <1>3, <2>1, <2>2, <2>3, <2>4, PassesPage DEF Poison
<1>7. CASE SkipPage(w)
  <2> DEFINE x == [c EXCEPT !.idx = c.idx + 1]
  <2>1. t \notin Applied /\ calls' = [calls EXCEPT ![w] = x]
    BY <1>1, <1>2, <1>7 DEF SkipPage
  <2>2. Effect(c.state, t) = c.state
    BY <1>5, <2>1, EffectType
  <2>3. x \in CallRecords
    BY <1>4, <1>5 DEF CallRecords
  <2>4. /\ x.idx = c.idx + 1 /\ x.state = c.state
        /\ x.kind = c.kind /\ x.from = c.from /\ x.book = c.book /\ x.next = c.next
        /\ x.facts = c.facts /\ x.fIdx = c.fIdx /\ x.reply = c.reply
    BY <1>4 DEF CallRecords
  <2> HIDE DEF x
  <2> QED
    BY <1>1, <1>2, <1>3, <2>1, <2>2, <2>3, <2>4, PassesPage DEF Poison
<1>8. CASE PageDoesNotDecode(w)
  <2> DEFINE x == [c EXCEPT !.reply = "error"]
  <2>1. calls' = [calls EXCEPT ![w] = x]
    BY <1>1, <1>8 DEF PageDoesNotDecode
  <2>2. x \in CallRecords
    BY <1>4 DEF CallRecords
  <2>3. /\ x.idx = c.idx /\ x.state = c.state /\ x.reply = "error"
        /\ x.kind = c.kind /\ x.from = c.from /\ x.book = c.book /\ x.next = c.next
        /\ x.facts = c.facts /\ x.fIdx = c.fIdx
    BY <1>4 DEF CallRecords
  <2>4. InBounds(x)
    BY <1>4, <2>3 DEF InBounds
  <2> HIDE DEF x
  <2> QED
    BY <1>1, <1>3, <2>1, <2>2, <2>3, <2>4, KeepsState
<1> QED
  BY <1>6, <1>7, <1>8

\* The request after a method has run, or has failed to.
LEMMA MethodIIInv ==
  ASSUME IInv, NEW w \in Workers,
         \/ Decide(w) \/ HandleFact(w) \/ PassFact(w)
         \/ FactDoesNotDecode(w) \/ FactsDone(w) \/ ReplayDone(w)
  PROVE  IInv'
<1>1. PICK c : c = calls[w]
  OBVIOUS
<1>2. /\ Serving(w, Kinds) /\ c.idx > Len(c.book) /\ UNCHANGED <<log, truth, snap>>
      /\ c # Idle
  <2>1. \E kind \in Kinds : Rebuilt(w, kind)
    BY DEF Decide, HandleFact, PassFact, FactDoesNotDecode, FactsDone, ReplayDone,
           FactsLeft, Kinds
  <2>2. UNCHANGED <<log, truth, snap>>
    BY DEF Decide, HandleFact, PassFact, FactDoesNotDecode, FactsDone, ReplayDone
  <2> QED
    BY <1>1, <2>1, <2>2, IdleServesNot DEF Rebuilt, Serving
<1>3. c \in CallRecords /\ InBounds(c)
  BY <1>1, <1>2, RequestFacts
<1>4. /\ c.idx \in Nat \ {0} /\ c.fIdx \in Nat \ {0} /\ c.fIdx + 1 \in Nat \ {0}
      /\ Len(c.facts) \in Nat /\ \A i \in 1 .. Len(c.facts) : c.facts[i] \in Types
      /\ c.left \in Seq(Types) /\ c.out \in Seq(Types \ Undecodable)
  BY <1>3, FieldTypes
<1>5. MaxPages \in Nat /\ <<>> \in Seq(Types \ Undecodable)
  OBVIOUS
\* What each of the steps does to the request.
<1> DEFINE Moved(x) ==
       /\ x \in CallRecords /\ calls' = [calls EXCEPT ![w] = x]
       /\ x.idx = c.idx /\ x.state = c.state
       /\ x.kind = c.kind /\ x.from = c.from /\ x.book = c.book /\ x.next = c.next
       /\ x.facts = c.facts /\ x.fIdx <= Len(c.facts) + 1
<1>6. ASSUME NEW x, Moved(x) PROVE IInv'
  <2>1. InBounds(x)
    BY <1>3, <1>6 DEF InBounds
  <2> QED
    BY <1>1, <1>2, <1>6, <2>1, KeepsState
<1>7. CASE Decide(w)
  <2>1. CASE \E ts \in UpTo(Types \ Undecodable, MaxPages) :
               calls' = [calls EXCEPT ![w].out = ts, ![w].reply = "events"]
    <3>1. PICK ts \in UpTo(Types \ Undecodable, MaxPages) :
            calls' = [calls EXCEPT ![w].out = ts, ![w].reply = "events"]
      BY <2>1
    <3>2. ts \in Seq(Types \ Undecodable)
      BY <1>5, UpToType
    <3> DEFINE x == [c EXCEPT !.out = ts, !.reply = "events"]
    <3>3. Moved(x)
      BY <1>1, <1>3, <3>1, <3>2 DEF CallRecords, InBounds
    <3> QED
      BY <1>6, <3>3
  <2>2. CASE calls' = [calls EXCEPT ![w].reply = "error"]
    <3> DEFINE x == [c EXCEPT !.reply = "error"]
    <3>1. Moved(x)
      BY <1>1, <1>3, <2>2 DEF CallRecords, InBounds
    <3> QED
      BY <1>6, <3>1
  <2> QED
    BY <1>7, <2>1, <2>2 DEF Decide
<1>8. ASSUME FactsLeft(w) PROVE c.fIdx + 1 <= Len(c.facts) + 1 /\ Fact(w) \in Types
  BY <1>1, <1>4, <1>8 DEF FactsLeft, Fact
<1>9. CASE HandleFact(w)
  <2>1. CASE \E ts \in UpTo(Types \ Undecodable, MaxPages) :
               calls' = [calls EXCEPT ![w].out = @ \o ts, ![w].fIdx = @ + 1]
    <3>1. PICK ts \in UpTo(Types \ Undecodable, MaxPages) :
            calls' = [calls EXCEPT ![w].out = @ \o ts, ![w].fIdx = @ + 1]
      BY <2>1
    <3>2. c.out \o ts \in Seq(Types \ Undecodable)
      BY <1>4, <1>5, UpToType, Concatenated
    <3> DEFINE x == [c EXCEPT !.out = c.out \o ts, !.fIdx = c.fIdx + 1]
    <3>3. calls' = [calls EXCEPT ![w] = x]
      BY <1>1, <3>1
    <3>4. x \in CallRecords
      BY <1>3, <1>4, <3>2 DEF CallRecords
    <3>5. /\ x.idx = c.idx /\ x.state = c.state
          /\ x.kind = c.kind /\ x.from = c.from /\ x.book = c.book /\ x.next = c.next
          /\ x.facts = c.facts /\ x.fIdx = c.fIdx + 1
      BY <1>3 DEF CallRecords
    <3>6. Moved(x)
      BY <1>8, <1>9, <3>3, <3>4, <3>5 DEF HandleFact
    <3> QED
      BY <1>6, <3>6
  <2>2. CASE calls' = [calls EXCEPT ![w].out = <<>>, ![w].reply = "error"]
    <3> DEFINE x == [c EXCEPT !.out = <<>>, !.reply = "error"]
    <3>1. Moved(x)
      BY <1>1, <1>3, <1>5, <2>2 DEF CallRecords, InBounds
    <3> QED
      BY <1>6, <3>1
  <2> QED
    BY <1>9, <2>1, <2>2 DEF HandleFact
<1>10. CASE PassFact(w)
  <2> DEFINE x == [c EXCEPT !.left = Append(c.left, Fact(w)), !.fIdx = c.fIdx + 1]
  <2>1. calls' = [calls EXCEPT ![w] = x]
    BY <1>1, <1>10 DEF PassFact, Fact
  <2>2. Append(c.left, Fact(w)) \in Seq(Types)
    BY <1>4, <1>8, <1>10 DEF PassFact
  <2>3. x \in CallRecords
    BY <1>3, <1>4, <2>2 DEF CallRecords
  <2>4. /\ x.idx = c.idx /\ x.state = c.state
        /\ x.kind = c.kind /\ x.from = c.from /\ x.book = c.book /\ x.next = c.next
        /\ x.facts = c.facts /\ x.fIdx = c.fIdx + 1
    BY <1>3 DEF CallRecords
  <2>5. Moved(x)
    BY <1>8, <1>10, <2>1, <2>3, <2>4 DEF PassFact
  <2> QED
    BY <1>6, <2>5
<1>11. CASE FactDoesNotDecode(w)
  <2> DEFINE x == [c EXCEPT !.out = <<>>, !.reply = "error"]
  <2>1. Moved(x)
    BY <1>1, <1>3, <1>5, <1>11 DEF CallRecords, InBounds, FactDoesNotDecode
  <2> QED
    BY <1>6, <2>1
<1>12. CASE FactsDone(w)
  <2> DEFINE x == [c EXCEPT !.reply = "events"]
  <2>1. Moved(x)
    BY <1>1, <1>3, <1>12 DEF CallRecords, InBounds, FactsDone
  <2> QED
    BY <1>6, <2>1
<1>13. CASE ReplayDone(w)
  <2> DEFINE x == [c EXCEPT !.reply = "state"]
  <2>1. Moved(x)
    BY <1>1, <1>3, <1>13 DEF CallRecords, InBounds, ReplayDone
  <2> QED
    BY <1>6, <2>1
<1> QED
  BY <1>7, <1>9, <1>10, <1>11, <1>12, <1>13

-----------------------------------------------------------------------------
(* The steps of the coordinator.                                           *)

\* A worker whose request is over.
LEMMA Over ==
  ASSUME TypeOK, NEW w \in Workers, calls' = [calls EXCEPT ![w] = Idle]
  PROVE  /\ calls' \in [Workers -> {Idle} \cup CallRecords]
         /\ \A u \in Workers : calls'[u] # Idle => calls'[u] = calls[u] /\ calls[u] # Idle
         /\ \A u \in Workers : calls'[u] # Idle => InBounds(calls'[u])
<1>1. calls' \in [Workers -> {Idle} \cup CallRecords]
  BY DEF TypeOK
<1>2. \A u \in Workers : calls'[u] # Idle => calls'[u] = calls[u] /\ calls[u] # Idle
  BY DEF TypeOK
<1> QED
  BY <1>1, <1>2 DEF TypeOK, InBounds

LEMMA DiscardIInv ==
  ASSUME IInv, NEW w \in Workers, Discard(w)
  PROVE  IInv'
<1>1. calls' = [calls EXCEPT ![w] = Idle] /\ UNCHANGED <<log, truth, snap>>
  BY DEF Discard
<1>2. TypeOK'
  BY <1>1, Over DEF IInv, TypeOK, InBounds
<1>3. \A u \in Workers : calls'[u] # Idle => OnLog(calls[u])'
  BY <1>1, Over DEF IInv, OnLog
<1>4. \A u \in Workers : calls'[u] # Idle => TrueState(calls[u])'
  BY <1>1, Over DEF IInv, TrueState, StartsRight
<1>5. Aggregate!IsHistory(truth, log)' /\ PoisonEndsCommands'
  BY <1>1 DEF IInv, Aggregate!IsHistory, PoisonEndsCommands
<1>6. (\A i \in 1 .. snap.covers : ~Poison(log[i].type))'
  BY <1>1 DEF IInv
<1>7. (Initial = Default => SnapshotIsTrue)'
  BY <1>1 DEF IInv, SnapshotIsTrue
<1> QED
  BY <1>2, <1>3, <1>4, <1>5, <1>6, <1>7 DEF IInv

\* A replay that answered has passed the whole of its book.
LEMMA TakeSnapshotIInv ==
  ASSUME IInv, NEW w \in Workers, TakeSnapshot(w)
  PROVE  IInv'
<1>1. PICK c : c = calls[w]
  OBVIOUS
<1>2. /\ calls' = [calls EXCEPT ![w] = Idle] /\ UNCHANGED <<log, truth>>
      /\ snap' = [state |-> c.state, covers |-> c.next] /\ c.reply = "state"
  BY <1>1 DEF TakeSnapshot
<1>3. c # Idle
  BY <1>1 DEF TakeSnapshot, Idle
<1>4. c \in CallRecords /\ OnLog(c) /\ TrueState(c) /\ Len(log) \in Nat
  BY <1>1, <1>3, RequestFacts
<1>5. c.next \in Nat /\ c.state \in States /\ c.from \in Nat /\ Len(c.book) \in Nat
  BY <1>4, FieldTypes
<1>6. c.next <= Len(log) /\ c.from + Len(c.book) = c.next /\ c.idx = Len(c.book) + 1
  BY <1>2, <1>4 DEF OnLog
<1>7. c.from + c.idx = c.next + 1 /\ c.from + c.idx - 1 = c.next
  BY <1>5, <1>6
<1>8. TypeOK'
  BY <1>2, <1>4, <1>5, <1>6, Over DEF IInv, TypeOK, InBounds
<1>9. \A u \in Workers : calls'[u] # Idle => OnLog(calls[u])'
  BY <1>2, Over DEF IInv, OnLog
<1>10. (Initial = Default => SnapshotIsTrue)'
  <2>1. Initial = Default => StartsRight(c)
    BY <1>1 DEF TakeSnapshot, StartsRight
  <2> QED
    BY <1>2, <1>4, <1>7, <2>1 DEF TrueState, SnapshotIsTrue
<1>11. Aggregate!IsHistory(truth, log)' /\ PoisonEndsCommands'
  BY <1>2 DEF IInv, Aggregate!IsHistory, PoisonEndsCommands
<1>12. (\A i \in 1 .. snap.covers : ~Poison(log[i].type))'
  BY <1>2, <1>4, <1>7 DEF OnLog
<1>13. \A u \in Workers : calls'[u] # Idle => TrueState(calls[u])'
  BY <1>2, Over DEF IInv, TrueState, StartsRight
<1> QED
  BY <1>8, <1>9, <1>10, <1>11, <1>12, <1>13 DEF IInv

\* A window of a log, and what of it is rebuilt, lie within the log.
LEMMA Windows ==
  ASSUME NEW from \in Nat, NEW idx \in Nat \ {0}, NEW len \in Nat, NEW next \in Nat,
         NEW end \in Nat, NEW later \in Nat,
         from + len = next, next <= end, idx <= len + 1, end <= later
  PROVE  /\ from + idx \in 1 .. end + 1 /\ next <= later
         /\ \A i \in 1 .. len : from + i \in 1 .. end
         /\ \A i \in 1 .. from + idx - 1 : i \in 1 .. end
OBVIOUS

\* The log and its history after events ts have been persisted.
LEMMA Persisted ==
  ASSUME IInv, NEW ts \in Seq(Types), NEW by \in {"command", "fact"},
         NEW seen \in States \cup {NoState}, Persist(ts, by, seen)
  PROVE  /\ log' \in Seq(Entries) /\ Len(log') \in Nat /\ Len(log) \in Nat
         /\ DOMAIN log = 1 .. Len(log) /\ DOMAIN log' = 1 .. Len(log')
         /\ Len(log) <= Len(log')
         /\ \A i \in 1 .. Len(log) : log'[i] = log[i]
         /\ \A i \in 1 .. Len(log') : i > Len(log) =>
              \E k \in 1 .. Len(ts) : log'[i] = [type |-> ts[k], by |-> by, seen |-> seen]
         /\ truth' \in Seq(States) /\ snap' = snap
         /\ \A i \in 1 .. Len(log) + 1 : truth'[i] = truth[i]
         /\ Aggregate!IsHistory(truth', log')
<1> DEFINE new == [k \in DOMAIN ts |-> [type |-> ts[k], by |-> by, seen |-> seen]]
<1>1. Len(ts) \in Nat /\ DOMAIN ts = 1 .. Len(ts) /\ \A k \in 1 .. Len(ts) : ts[k] \in Types
  BY EntryType
<1>2. new \in [1 .. Len(ts) -> Entries]
  BY <1>1 DEF Entries
<1>3. new \in Seq(Entries) /\ Len(new) = Len(ts)
  <2> HIDE DEF new
  <2> QED
    BY <1>1, <1>2, SegmentType
<1>4. log \in Seq(Entries)
  BY DEF IInv, TypeOK, Entries
<1>5. log' = log \o new
  BY DEF Persist
<1>6. /\ log' \in Seq(Entries) /\ Len(log') = Len(log) + Len(ts) /\ Len(log) \in Nat
      /\ DOMAIN log = 1 .. Len(log) /\ DOMAIN log' = 1 .. Len(log) + Len(ts)
      /\ \A i \in 1 .. Len(log) : log'[i] = log[i]
      /\ \A k \in 1 .. Len(ts) : log'[Len(log) + k] = new[k]
  <2> HIDE DEF new
  <2>1. log' \in Seq(Entries) /\ Len(log') = Len(log) + Len(new)
    BY <1>3, <1>4, <1>5, Concatenated
  <2>2. Len(log) \in Nat /\ DOMAIN log = 1 .. Len(log) /\ DOMAIN log' = 1 .. Len(log')
    BY <1>4, <2>1, EntryType
  <2>3. \A i \in 1 .. Len(log) : log'[i] = log[i]
    BY <1>3, <1>4, <1>5, Concatenated
  <2>4. \A k \in 1 .. Len(new) : log'[Len(log) + k] = new[k]
    BY <1>3, <1>4, <1>5, Concatenated
  <2> QED
    BY <1>3, <2>1, <2>2, <2>3, <2>4
<1>7. \A i \in 1 .. Len(log') : i > Len(log) =>
        \E k \in 1 .. Len(ts) : log'[i] = [type |-> ts[k], by |-> by, seen |-> seen]
  <2> SUFFICES ASSUME NEW i \in 1 .. Len(log'), i > Len(log)
               PROVE  \E k \in 1 .. Len(ts) : log'[i] = [type |-> ts[k], by |-> by, seen |-> seen]
    OBVIOUS
  <2>1. i - Len(log) \in 1 .. Len(ts) /\ i = Len(log) + (i - Len(log))
    BY <1>1, <1>6
  <2>2. log'[i] = new[i - Len(log)]
    BY <1>6, <2>1
  <2> QED
    BY <1>1, <2>1, <2>2
<1>8. Len(log') + 1 \in Nat /\ Len(log) <= Len(log')
  BY <1>1, <1>6
<1>9. truth' \in Seq(States)
  BY <1>8, SegmentType DEF Persist
<1>10. \A i \in 1 .. Len(log) + 1 : truth'[i] = truth[i]
  BY DEF Persist, IInv, Aggregate!IsHistory
<1>11. snap' = snap /\ Aggregate!IsHistory(truth', log')
  BY DEF Persist
<1> QED
  BY <1>1, <1>6, <1>7, <1>8, <1>9, <1>10, <1>11

\* Persisting leaves every window of the log where it is; only a command needs
\* a log without an event that does not decode.
LEMMA PersistIInv ==
  ASSUME IInv, NEW w \in Workers, NEW ts \in Seq(Types), NEW by \in {"command", "fact"},
         NEW seen \in States \cup {NoState}, Persist(ts, by, seen),
         calls' = [calls EXCEPT ![w] = Idle],
         by = "command" => /\ \A i \in 1 .. Len(log) : ~Poison(log[i].type)
                           /\ \A k \in 1 .. Len(ts) : ~Poison(ts[k])
  PROVE  IInv'
<1>1. /\ log' \in Seq(Entries) /\ Len(log') \in Nat /\ Len(log) \in Nat
      /\ DOMAIN log = 1 .. Len(log) /\ DOMAIN log' = 1 .. Len(log')
      /\ Len(log) <= Len(log')
      /\ \A i \in 1 .. Len(log) : log'[i] = log[i]
      /\ \A i \in 1 .. Len(log') : i > Len(log) =>
           \E k \in 1 .. Len(ts) : log'[i] = [type |-> ts[k], by |-> by, seen |-> seen]
      /\ truth' \in Seq(States) /\ snap' = snap
      /\ \A i \in 1 .. Len(log) + 1 : truth'[i] = truth[i]
      /\ Aggregate!IsHistory(truth', log')
  BY Persisted
<1>2. snap \in [state : States, covers : 0 .. Len(log)]
  BY DEF IInv, TypeOK
<1>3. snap.covers \in 0 .. Len(log) /\ snap' \in [state : States, covers : 0 .. Len(log')]
  BY <1>1, <1>2
<1>4. TypeOK'
  BY <1>1, <1>3, Over DEF IInv, TypeOK, InBounds, Entries
<1>5. ASSUME NEW u \in Workers, calls'[u] # Idle
      PROVE  OnLog(calls[u])' /\ TrueState(calls[u])'
  <2>1. PICK c : c = calls[u] /\ c = calls'[u] /\ c # Idle
    BY <1>5, Over DEF IInv
  <2>2. c \in CallRecords /\ OnLog(c) /\ InBounds(c) /\ TrueState(c)
    BY <2>1, RequestFacts
  <2>3. /\ c.idx \in Nat \ {0} /\ c.from \in Nat /\ c.next \in Nat /\ Len(c.book) \in Nat
        /\ c.from + Len(c.book) = c.next /\ c.next <= Len(log) /\ c.idx <= Len(c.book) + 1
    BY <2>2, FieldTypes DEF OnLog, InBounds
  <2>4. /\ c.from + c.idx \in 1 .. Len(log) + 1 /\ c.next <= Len(log')
        /\ \A i \in 1 .. Len(c.book) : c.from + i \in 1 .. Len(log)
        /\ \A i \in 1 .. c.from + c.idx - 1 : i \in 1 .. Len(log)
    BY <1>1, <2>3, Windows
  <2>5. OnLog(calls[u])'
    BY <1>1, <2>1, <2>2, <2>4 DEF OnLog
  <2>6. TrueState(calls[u])'
    BY <1>1, <2>1, <2>2, <2>4 DEF TrueState, StartsRight
  <2> QED
    BY <2>5, <2>6
<1>6. (Initial = Default => SnapshotIsTrue)'
  <2>1. snap.covers + 1 \in 1 .. Len(log) + 1
    BY <1>1, <1>3
  <2> QED
    BY <1>1, <2>1 DEF IInv, SnapshotIsTrue
<1>7. PoisonEndsCommands'
  <2> SUFFICES ASSUME NEW i \in 1 .. Len(log'), NEW j \in 1 .. Len(log'), i < j,
                      Poison(log'[i].type)
               PROVE  log'[j].by = "fact"
    BY <1>1 DEF PoisonEndsCommands, Poison
  <2>1. CASE j <= Len(log)
    <3>1. i \in DOMAIN log /\ j \in DOMAIN log /\ log'[i] = log[i] /\ log'[j] = log[j]
      BY <1>1, <2>1
    <3> QED
      BY <3>1 DEF IInv, PoisonEndsCommands, Poison
  <2>2. CASE j > Len(log)
    <3>1. log'[j].by = by
      BY <1>1, <2>2
    <3>2. CASE by = "command"
      <4>1. CASE i <= Len(log)
        BY <1>1, <3>2, <4>1
      <4>2. CASE i > Len(log)
        <5>1. PICK k \in 1 .. Len(ts) : log'[i] = [type |-> ts[k], by |-> by, seen |-> seen]
          BY <1>1, <4>2
        <5> QED
          BY <3>2, <5>1
      <4> QED
        BY <1>1, <4>1, <4>2
    <3> QED
      BY <3>1, <3>2
  <2> QED
    BY <1>1, <2>1, <2>2
<1>8. (\A i \in 1 .. snap.covers : ~Poison(log[i].type))'
  <2>1. \A i \in 1 .. snap.covers : i \in 1 .. Len(log) /\ ~Poison(log[i].type)
    BY <1>1, <1>3 DEF IInv
  <2> QED
    BY <1>1, <2>1
<1> QED
  BY <1>1, <1>4, <1>5, <1>6, <1>7, <1>8 DEF IInv

\* A decision that passes the sequence check was taken on the whole log.
LEMMA DecidedOnTheWhole ==
  ASSUME IInv, NEW w \in Workers, CommitDecision(w)
  PROVE  /\ calls[w].out \in Seq(Types) /\ calls[w].state \in States
         /\ \A k \in 1 .. Len(calls[w].out) : ~Poison(calls[w].out[k])
         /\ \A i \in 1 .. Len(log) : ~Poison(log[i].type)
         /\ calls[w].from = 0 => calls[w].state = truth[Len(log) + 1]
         /\ ~SendsSnapshots => calls[w].from = 0
<1>1. PICK c : c = calls[w]
  OBVIOUS
<1>2. c # Idle /\ c.reply = "events" /\ c.next = Len(log)
  BY <1>1 DEF CommitDecision, Idle
<1>3. c \in CallRecords /\ OnLog(c) /\ TrueState(c) /\ Len(log) \in Nat
  BY <1>1, <1>2, RequestFacts
<1>4. /\ c.from \in Nat /\ Len(c.book) \in Nat /\ c.out \in Seq(Types \ Undecodable)
      /\ c.state \in States
  BY <1>3, FieldTypes
<1>5. c.from + Len(c.book) = Len(log) /\ c.idx = Len(c.book) + 1
  BY <1>2, <1>3 DEF OnLog
<1>6. c.from + c.idx = Len(log) + 1 /\ c.from + c.idx - 1 = Len(log)
  BY <1>3, <1>4, <1>5
<1>7. \A i \in 1 .. Len(log) : ~Poison(log[i].type)
  BY <1>2, <1>3, <1>6 DEF OnLog
<1>8. /\ c.from = 0 => c.state = truth[Len(log) + 1]
      /\ ~SendsSnapshots => c.from = 0
  BY <1>1, <1>2, <1>3, <1>6 DEF TrueState, StartsRight, OnLog, CommitDecision
<1>9. c.out \in Seq(Types)
  BY <1>4
<1>10. \A k \in 1 .. Len(c.out) : ~Poison(c.out[k])
  BY <1>4, EntryType DEF Poison
<1> QED
  BY <1>1, <1>4, <1>7, <1>8, <1>9, <1>10

\* What a request with facts was answered with has the types of events.
LEMMA FactsType ==
  ASSUME IInv, NEW w \in Workers, CommitFacts(w)
  PROVE  calls[w].out \o calls[w].left \in Seq(Types)
<1>1. calls[w] # Idle
  BY DEF CommitFacts, Idle
<1>2. calls[w].out \in Seq(Types) /\ calls[w].left \in Seq(Types)
  BY <1>1, RequestFacts, FieldTypes
<1> QED
  BY <1>2, Concatenated

LEMMA CommitIInv ==
  ASSUME IInv, NEW w \in Workers, CommitDecision(w) \/ CommitFacts(w)
  PROVE  IInv'
<1>1. CASE CommitDecision(w)
  BY <1>1, DecidedOnTheWhole, PersistIInv DEF CommitDecision
<1>2. CASE CommitFacts(w)
  BY <1>2, FactsType, PersistIInv DEF CommitFacts
<1> QED
  BY <1>1, <1>2

-----------------------------------------------------------------------------
(* Theorems.                                                               *)

LEMMA NextIInv == IInv /\ [Next]_vars => IInv'
<1> SUFFICES ASSUME IInv, [Next]_vars PROVE IInv'
  OBVIOUS
<1>1. ASSUME NEW w \in Workers, HandlerStep(w) PROVE IInv'
  BY <1>1, PageIIInv, MethodIIInv DEF HandlerStep
<1>2. CASE Next
  BY <1>1, <1>2, ReceiveIInv, CommitIInv, TakeSnapshotIInv, DiscardIInv DEF Next
<1>3. CASE UNCHANGED vars
  <2>1. UNCHANGED <<log, truth, snap, calls>>
    BY <1>3 DEF vars
  <2>2. TypeOK'
    BY <2>1 DEF IInv, TypeOK
  <2>3. Aggregate!IsHistory(truth, log)' /\ PoisonEndsCommands'
    BY <2>1 DEF IInv, Aggregate!IsHistory, PoisonEndsCommands
  <2>4. \A w \in Workers : calls'[w] # Idle => OnLog(calls[w])' /\ TrueState(calls[w])'
    BY <2>1 DEF IInv, OnLog, TrueState, StartsRight
  <2>5. (Initial = Default => SnapshotIsTrue)'
    BY <2>1 DEF IInv, SnapshotIsTrue
  <2>6. (\A i \in 1 .. snap.covers : ~Poison(log[i].type))'
    BY <2>1 DEF IInv
  <2> QED
    BY <2>2, <2>3, <2>4, <2>5, <2>6 DEF IInv
<1> QED
  BY <1>2, <1>3

LEMMA Invariance == Spec => []IInv
  BY InitIInv, NextIInv, PTL DEF Spec

\* The variables keep their types, and no request runs past its book or facts.
THEOREM TypeCorrect == Spec => []TypeOK
<1>1. IInv => TypeOK
  BY DEF IInv
<1> QED
  BY <1>1, Invariance, PTL

\* A persisted event that #[applies] cannot decode ends the aggregate's
\* commands, whatever else is in flight and wherever books start.
THEOREM PoisonEnds == Spec => []PoisonEndsCommands
<1>1. IInv => PoisonEndsCommands
  BY DEF IInv
<1> QED
  BY <1>1, Invariance, PTL

\* What a request is to decide on when it has rebuilt its book.
LEMMA RebuiltState ==
  ASSUME IInv, NEW w \in Workers, NEW kind \in Kinds, Rebuilt(w, kind),
         StartsRight(calls[w])
  PROVE  calls[w].state = truth[calls[w].next + 1]
<1>1. PICK c : c = calls[w]
  OBVIOUS
<1>2. c # Idle /\ c.reply = "none" /\ c.idx > Len(c.book)
  BY <1>1, IdleServesNot DEF Rebuilt, Serving
<1>3. c \in CallRecords /\ OnLog(c) /\ InBounds(c) /\ TrueState(c)
  BY <1>1, <1>2, RequestFacts
<1>4. c.from \in Nat /\ c.idx \in Nat \ {0} /\ Len(c.book) \in Nat /\ c.next \in Nat
  BY <1>3, FieldTypes
<1>5. c.from + Len(c.book) = c.next /\ c.idx <= Len(c.book) + 1
  BY <1>3 DEF OnLog, InBounds
<1>6. c.from + c.idx = c.next + 1
  BY <1>2, <1>4, <1>5
<1> QED
  BY <1>1, <1>2, <1>3, <1>6 DEF TrueState

\* A request whose book begins with the first event is served on the state that
\* its history adds up to, whatever snapshots there are and whatever the state
\* starts from.
THEOREM WholeBookSeen ==
  Spec => [](\A w \in Workers : \A kind \in Kinds :
               Rebuilt(w, kind) /\ calls[w].from = 0 =>
                 calls[w].state = truth[calls[w].next + 1])
<1> DEFINE Seen == \A w \in Workers : \A kind \in Kinds :
                     Rebuilt(w, kind) /\ calls[w].from = 0 =>
                       calls[w].state = truth[calls[w].next + 1]
<1>1. IInv => Seen
  BY RebuiltState DEF StartsRight
<1> HIDE DEF Seen
<1>2. Spec => []Seen
  BY <1>1, Invariance, PTL
<1> QED
  BY <1>2 DEF Seen

\* All handler methods run on the state their history adds up to, if no command
\* book starts from a snapshot (dispatch looks at none) and the initial state is
\* that of no bytes (a replay takes a snapshot without bytes for none).
THEOREM HistorySeen ==
  ~SendsSnapshots /\ Initial = Default => (Spec => []MethodsSeeTheirHistory)
<1> SUFFICES ASSUME ~SendsSnapshots, Initial = Default
             PROVE  Spec => []MethodsSeeTheirHistory
  OBVIOUS
<1>1. IInv => MethodsSeeTheirHistory
  <2> SUFFICES ASSUME IInv, NEW w \in Workers, NEW kind \in Kinds, Rebuilt(w, kind)
               PROVE  calls[w].state = truth[calls[w].next + 1]
    BY DEF MethodsSeeTheirHistory
  <2>1. OnLog(calls[w])
    BY IdleServesNot, RequestFacts DEF Rebuilt
  <2>2. StartsRight(calls[w])
    BY <2>1 DEF OnLog, StartsRight
  <2> QED
    BY <2>2, RebuiltState
<1> QED
  BY <1>1, Invariance, PTL

\* A snapshot stores the state of the events it covers, also where command
\* books start from it, if the initial state is that of no bytes.
THEOREM SnapshotsAreTrue == Initial = Default => (Spec => []SnapshotIsTrue)
<1> SUFFICES ASSUME Initial = Default PROVE Spec => []SnapshotIsTrue
  OBVIOUS
<1>1. IInv => SnapshotIsTrue
  BY DEF IInv
<1> QED
  BY <1>1, Invariance, PTL

\* What is persisted only adds to the log, events that came by one request.
LEMMA PersistGrows ==
  ASSUME IInv, NEW ts \in Seq(Types), NEW by \in {"command", "fact"},
         NEW seen \in States \cup {NoState}, Persist(ts, by, seen)
  PROVE  Aggregate!Grows(by, seen)
<1>1. /\ log' \in Seq(Entries) /\ Len(log') \in Nat /\ Len(log) \in Nat
      /\ DOMAIN log = 1 .. Len(log) /\ DOMAIN log' = 1 .. Len(log')
      /\ Len(log) <= Len(log')
      /\ \A i \in 1 .. Len(log) : log'[i] = log[i]
      /\ \A i \in 1 .. Len(log') : i > Len(log) =>
           \E k \in 1 .. Len(ts) : log'[i] = [type |-> ts[k], by |-> by, seen |-> seen]
      /\ Aggregate!IsHistory(truth', log')
  BY Persisted
<1>2. \A i \in DOMAIN log : i \in DOMAIN log' /\ log'[i] = log[i]
  BY <1>1
<1>3. ASSUME NEW i \in DOMAIN log' \ DOMAIN log
      PROVE  log'[i].type \in Types /\ log'[i].by = by /\ log'[i].seen = seen
  <2>1. i \in 1 .. Len(log') /\ i > Len(log)
    BY <1>1
  <2>2. PICK k \in 1 .. Len(ts) : log'[i] = [type |-> ts[k], by |-> by, seen |-> seen]
    BY <1>1, <2>1
  <2>3. ts[k] \in Types
    BY EntryType
  <2> QED
    BY <2>2, <2>3
<1> QED
  BY <1>1, <1>2, <1>3 DEF Aggregate!Grows

\* With command books that are whole, requests in flight together have the
\* effect of requests served one after the other, whatever the initial state:
\* AggregateHandler implements AtomicAggregate.
THEOREM ImplementsAtomicAggregate == ~SendsSnapshots => (Spec => AggregateSpec)
<1> SUFFICES ASSUME ~SendsSnapshots PROVE Spec => AggregateSpec
  OBVIOUS
<1>1. Init => Aggregate!Init
  BY DEF Init, Aggregate!Init
<1>2. ASSUME IInv, [Next]_vars PROVE [Aggregate!Next]_(Aggregate!aggregateVars)
  <2>1. ASSUME NEW w \in Workers, CommitDecision(w) PROVE Aggregate!Decide
    <3>1. calls[w].out \in Seq(Types) /\ calls[w].state \in States /\ calls[w].state = truth[Len(log) + 1]
      BY <1>2, <2>1, DecidedOnTheWhole
    <3>2. Persist(calls[w].out, "command", calls[w].state)
      BY <2>1 DEF CommitDecision
    <3>3. Aggregate!Grows("command", calls[w].state)
      BY <1>2, <3>1, <3>2, PersistGrows
    <3> QED
      BY <3>1, <3>3 DEF Aggregate!Decide
  <2>2. ASSUME NEW w \in Workers, CommitFacts(w) PROVE Aggregate!Record
    <3>1. calls[w].out \o calls[w].left \in Seq(Types)
      BY <1>2, <2>2, FactsType
    <3>2. Aggregate!Grows("fact", NoState)
      BY <1>2, <2>2, <3>1, PersistGrows DEF CommitFacts
    <3> QED
      BY <3>2 DEF Aggregate!Record
  <2>3. ASSUME NEW w \in Workers,
               Receive(w) \/ HandlerStep(w) \/ TakeSnapshot(w) \/ Discard(w)
        PROVE  UNCHANGED <<log, truth>>
    BY <2>3 DEF Receive, HandlerStep, ApplyPage, SkipPage, PageDoesNotDecode, Decide, HandleFact,
                PassFact, FactDoesNotDecode, FactsDone, ReplayDone, TakeSnapshot, Discard
  <2>4. CASE Next
    BY <2>1, <2>2, <2>3, <2>4 DEF Next, Aggregate!Next, Aggregate!aggregateVars
  <2>5. CASE UNCHANGED vars
    BY <2>5 DEF vars, Aggregate!aggregateVars
  <2> QED
    BY <1>2, <2>4, <2>5
<1> QED
  BY <1>1, <1>2, Invariance, PTL DEF Spec, AggregateSpec, Aggregate!Spec

-----------------------------------------------------------------------------
(* truth is a history variable.                                            *)

\* Induction over the naturals, for a set: were n missing from S, then x -> x + 1
\* would map what S has up to n into itself, and miss 0.
LEMMA SetInduction ==
  ASSUME NEW S, 0 \in S, \A n \in Nat : n \in S => n + 1 \in S
  PROVE  \A n \in Nat : n \in S
<1> SUFFICES ASSUME NEW n \in Nat, n \notin S PROVE FALSE
  OBVIOUS
<1> DEFINE T == S \cap (0 .. n)
           f == [x \in T |-> x + 1]
<1>1. IsFiniteSet(T)
  <2>1. IsFiniteSet(0 .. n)
    BY FS_Interval
  <2> QED
    BY <2>1, FS_Subset
<1>2. 0 \in T
  OBVIOUS
<1>3. f \in Injection(T, T \ {0})
  <2>1. \A x \in T : x + 1 \in T \ {0}
    OBVIOUS
  <2> QED
    BY <2>1 DEF Injection, IsInjective
<1> HIDE DEF T
<1>4. IsFiniteSet(T \ {0}) /\ Cardinality(T \ {0}) = Cardinality(T) - 1
  BY <1>1, <1>2, FS_RemoveElement
<1>5. Cardinality(T) <= Cardinality(T \ {0})
  BY <1>3, <1>4, FS_Injection
<1>6. Cardinality(T) \in Nat
  BY <1>1, FS_CardinalityType
<1> QED
  BY <1>4, <1>5, <1>6

\* A history has one entry for each prefix of its log, and each of them is the
\* effect of the events in it: two histories of a log are equal.
LEMMA HistoryIsUnique ==
  ASSUME NEW m \in Seq(Entries), NEW u, NEW v, NEW V, NEW W,
         u \in [1 .. Len(m) + 1 -> V], Aggregate!IsHistory(u, m),
         v \in [1 .. Len(m) + 1 -> W], Aggregate!IsHistory(v, m)
  PROVE  u = v
<1> DEFINE S == {k \in Nat : k <= Len(m) => u[k + 1] = v[k + 1]}
<1>1. 0 \in S
  BY DEF Aggregate!IsHistory
<1>2. ASSUME NEW k \in Nat, k \in S PROVE k + 1 \in S
  <2> SUFFICES ASSUME k + 1 <= Len(m) PROVE u[k + 2] = v[k + 2]
    OBVIOUS
  <2>1. Len(m) \in Nat
    BY EntryType
  <2>2. k + 1 \in 1 .. Len(m) /\ u[k + 1] = v[k + 1] /\ (k + 1) + 1 = k + 2
    BY <1>2, <2>1
  <2> QED
    BY <2>2 DEF Aggregate!IsHistory
<1> HIDE DEF S
<1>3. \A k \in Nat : k \in S
  BY <1>1, <1>2, SetInduction
<1>4. Len(m) \in Nat
  BY EntryType
<1>5. ASSUME NEW i \in 1 .. Len(m) + 1 PROVE u[i] = v[i]
  <2>1. i - 1 \in Nat /\ i - 1 <= Len(m) /\ (i - 1) + 1 = i
    BY <1>4
  <2> QED
    BY <1>3, <2>1 DEF S
<1> QED
  BY <1>5

\* Log m is log l with events after it.
Prolongs(m, l) == Len(l) <= Len(m) /\ \A i \in 1 .. Len(l) : m[i] = l[i]

\* u is a history of m that goes on from t.
GoesOn(u, t, m) ==
  /\ u \in [1 .. Len(m) + 1 -> States] /\ Aggregate!IsHistory(u, m)
  /\ \A i \in DOMAIN t : u[i] = t[i]

\* The history of a log goes on with the events that are appended to it.
LEMMA HistoryGoesOn ==
  ASSUME NEW l \in Seq(Entries), NEW m \in Seq(Entries), NEW t \in Seq(States),
         Prolongs(m, l), Aggregate!IsHistory(t, l)
  PROVE  \E u : GoesOn(u, t, m)
<1> DEFINE Upto(u, k) ==
             /\ u \in [1 .. k + 1 -> States]
             /\ \A i \in 1 .. Len(l) + 1 : i <= k + 1 => u[i] = t[i]
             /\ \A i \in 1 .. k : u[i + 1] = Effect(u[i], m[i].type)
           S == {k \in Nat : k <= Len(m) => \E u : Upto(u, k)}
<1>1. /\ Len(l) \in Nat /\ Len(m) \in Nat /\ \A i \in 1 .. Len(m) : m[i] \in Entries
      /\ Len(l) <= Len(m) /\ \A i \in 1 .. Len(l) : m[i] = l[i]
  BY EntryType DEF Prolongs
<1>2. /\ DOMAIN t = 1 .. Len(l) + 1 /\ t[1] = Initial /\ t[1] \in States
      /\ \A i \in 1 .. Len(l) : t[i + 1] = Effect(t[i], l[i].type)
  BY DEF Aggregate!IsHistory
<1>3. 0 \in S
  <2>1. Upto([i \in 1 .. 1 |-> t[1]], 0)
    BY <1>2
  <2> QED
    BY <2>1
<1>4. ASSUME NEW k \in Nat, k \in S PROVE k + 1 \in S
  <2> SUFFICES ASSUME k + 1 <= Len(m) PROVE \E e : Upto(e, k + 1)
    <3> HIDE DEF Upto
    <3> QED
      BY DEF S
  <2>1. PICK u : Upto(u, k)
    BY <1>1, <1>4
  <2> DEFINE s == Effect(u[k + 1], m[k + 1].type)
             e == [i \in 1 .. k + 2 |-> IF i = k + 2 THEN s ELSE u[i]]
  <2>2. u[k + 1] \in States /\ m[k + 1] \in Entries /\ k + 1 \in 1 .. Len(m)
    BY <1>1, <2>1
  <2>3. s \in States
    BY <2>2, EffectType DEF Entries
  <2>4. e \in [1 .. (k + 1) + 1 -> States]
    BY <2>1, <2>3
  <2>5. ASSUME NEW i \in 1 .. Len(l) + 1, i <= (k + 1) + 1 PROVE e[i] = t[i]
    <3>1. CASE i <= k + 1
      <4>1. i \in 1 .. k + 2 /\ i # k + 2 /\ u[i] = t[i]
        BY <1>1, <2>1, <3>1
      <4>2. e[i] = u[i]
        BY <4>1
      <4> QED
        BY <4>1, <4>2
    <3>2. CASE i = k + 2
      <4>1. k + 1 \in 1 .. Len(l) /\ u[k + 1] = t[k + 1]
        BY <1>1, <2>1, <2>5, <3>2
      <4>3. m[k + 1] = l[k + 1]
        BY <1>1, <4>1
      <4>2. t[(k + 1) + 1] = Effect(t[k + 1], l[k + 1].type) /\ (k + 1) + 1 = k + 2
        BY <1>2, <4>1
      <4> QED
        BY <3>2, <4>1, <4>2, <4>3
    <3> QED
      BY <1>1, <2>5, <3>1, <3>2
  <2>6. ASSUME NEW i \in 1 .. k + 1 PROVE e[i + 1] = Effect(e[i], m[i].type)
    <3>1. i \in 1 .. k + 2 /\ i + 1 \in 1 .. k + 2 /\ e[i] = u[i]
      OBVIOUS
    <3>2. CASE i = k + 1
      BY <3>1, <3>2
    <3>3. CASE i # k + 1
      <4>1. i \in 1 .. k /\ e[i + 1] = u[i + 1]
        BY <3>3
      <4> QED
        BY <2>1, <3>1, <4>1
    <3> QED
      BY <3>2, <3>3
  <2> HIDE DEF e, s
  <2> QED
    BY <2>4, <2>5, <2>6
<1> HIDE DEF S
<1>5. \A k \in Nat : k \in S
  BY <1>3, <1>4, SetInduction
<1>6. PICK u : Upto(u, Len(m))
  <2>1. Len(m) \in S /\ Len(m) <= Len(m)
    BY <1>1, <1>5
  <2> HIDE DEF Upto
  <2>2. \E u : Upto(u, Len(m))
    BY <2>1 DEF S
  <2> QED
    BY <2>2
<1>7. \A i \in DOMAIN t : u[i] = t[i]
  BY <1>1, <1>2, <1>6
<1>8. u[1] = Initial
  BY <1>1, <1>2, <1>7
<1>9. DOMAIN u = 1 .. Len(m) + 1
  BY <1>6
<1> QED
  BY <1>6, <1>7, <1>8, <1>9 DEF Aggregate!IsHistory, GoesOn

\* The coordinator's bookkeeping restricts nothing: whatever is appended to a
\* log, its history goes on in exactly one way.  So truth holds no commit back,
\* and what is shown about it is shown about the log.
THEOREM TruthIsHistory ==
  ASSUME NEW l \in Seq(Entries), NEW m \in Seq(Entries), NEW t \in Seq(States),
         Prolongs(m, l), Aggregate!IsHistory(t, l)
  PROVE  \E u : GoesOn(u, t, m) /\ \A v : GoesOn(v, t, m) => v = u
<1>1. PICK u : GoesOn(u, t, m)
  BY HistoryGoesOn
<1>2. ASSUME NEW v, GoesOn(v, t, m) PROVE v = u
  BY <1>1, <1>2, HistoryIsUnique DEF GoesOn
<1> QED
  BY <1>1, <1>2
===============================================================================
