-------------------------- MODULE CommandClientProofs --------------------------
(***************************************************************************)
(* Proofs about CommandClient, for any number of programs, attempts and    *)
(* rounds and any chains of builder calls.  The argument: a request that   *)
(* is on its way, or an event that is written, either is what the program  *)
(* is waiting for or knows of, or has left the program in doubt (InFlight, *)
(* Written); a program in doubt does not start over, so all its requests   *)
(* are one book, and its sequence is the next one only once                *)
(* (AppliedAtMostOnce).                                                    *)
(***************************************************************************)
EXTENDS CommandClient, TLAPS, FiniteSetTheorems

Sent == {"sending", "waiting", "answered", "done"}

\* A program that has yet to build its command has not tried it.
Fresh ==
  \A c \in Callers : call[c].pc \notin Sent => call[c].attempt = 0 /\ ~call[c].doubt

\* One that is trying has attempts left, and the strategy it drafted.
Trying ==
  \A c \in Callers : call[c].pc \in Sent \ {"done"} =>
    /\ call[c].attempt < MaxAttempts
    /\ call[c].book.strategy = Strategy(call[c].draft)

\* The connection broke, and the next step of execute is to notice it.
Broken(c) ==
  At(c, "answered") /\ ~call[c].result.ok /\ IsConnectionError(call[c].result)

\* A request is the program's last attempt, or the program knows of a break.
InFlight ==
  \A r \in reqs :
    LET c == r.caller IN
    /\ r.book = call[c].book /\ r.dry = call[c].draft.dry
    /\ r.book.strategy = Strategy(call[c].draft)
    /\ call[c].doubt \/ Broken(c) \/ (At(c, "waiting") /\ r = Request(c))

\* So it is with an event: the program was told, or knows of a break.
Told(c) == (At(c, "answered") \/ At(c, "done")) /\ call[c].result.ok
Written ==
  \A i \in DOMAIN log :
    call[log[i].by].doubt \/ Broken(log[i].by) \/ Told(log[i].by)

\* Whoever is told of a success finds its event.
OkIsWritten ==
  \A c \in Callers : Told(c) /\ ~call[c].draft.dry => \E i \in DOMAIN log : log[i].by = c

\* What a program saw when it began to read is still there.
SeenIsPast == \A c \in Callers : call[c].seen <= Len(log)

IInv ==
  /\ TypeOK
  /\ Fresh
  /\ Trying
  /\ InFlight
  /\ Written
  /\ AppliedAtMostOnce
  /\ OkIsWritten
  /\ SeenIsPast
  /\ ReadsAreWhole

USE CommandClientAssumption

-----------------------------------------------------------------------------
(* What the operators return.                                              *)

\* A query selects events that are there.
LEMMA SelectedType ==
  ASSUME TypeOK, NEW q
  PROVE  Selected(q) \in Reads
BY DEF TypeOK, Selected, Reads

\* A book has a strategy, whatever is drafted.
LEMMA BookType ==
  ASSUME NEW c \in Callers, NEW d \in Drafts[c], NEW n \in 1 .. MaxRounds, NEW got \in Reads
  PROVE  Book(c, d, n, After(got)) \in Books
<1>1. Strategy(d) \in Strategies
  BY DEF Strategy, Strategies
<1>2. (IF d.id = <<>> THEN <<"new", c, n>> ELSE d.id) \in Ids
  BY DEF Ids
<1> QED
  BY <1>1, <1>2 DEF Book, Books

\* The errors of the crate are results of a call.
LEMMA ErrorTypes ==
  /\ \A code \in Codes : Grpc(code) \in Results /\ Err("InvalidArgument", code) \in Results
  /\ Err("InvalidTimestamp", "INVALID") \in Results /\ Ok \in Results
  /\ \A d : BuildError(d) # "none" => BuildError(d) \in Codes
  /\ \A s : StatusOf(s) \in Codes
  /\ {"UNAVAILABLE", "ABORTED", "FAILED_PRECONDITION"} \subseteq Codes
BY DEF Grpc, Err, Results, Codes, Ok, BuildError, StatusOf

\* A sequence has its entries in its set.
LEMMA EntryType ==
  ASSUME NEW S, NEW s \in Seq(S)
  PROVE  \A i \in DOMAIN s : s[i] \in S
OBVIOUS

\* Who wrote an event is a program.
LEMMA WritersType ==
  ASSUME TypeOK
  PROVE  \A i \in DOMAIN log : log[i].by \in Callers
<1>1. \A i \in DOMAIN log : log[i] \in [by : Callers, id : Ids]
  BY EntryType DEF TypeOK
<1> QED
  BY <1>1

\* A result is a success or not.
LEMMA ResultType ==
  ASSUME NEW x \in Results
  PROVE  x.ok \in BOOLEAN
<1>1. CASE x = Ok
  BY <1>1 DEF Ok
<1>2. CASE x \in [ok : {FALSE}, variant : {"Grpc", "InvalidArgument", "InvalidTimestamp"},
                  code : Codes]
  BY <1>2
<1> QED
  BY <1>1, <1>2 DEF Results

-----------------------------------------------------------------------------
(* What the steps of one program do, whatever they read and send.          *)

\* A step of program c leaves the others alone, and c its draft.
Others(c) ==
  /\ call' \in [Callers -> CallStates]
  /\ \A u \in Callers : u # c => call'[u] = call[u]
  /\ call'[c].draft = call[c].draft

\* A read sends nothing, and it does not end with an Ok of execute.
LEMMA ReadingStep ==
  ASSUME TypeOK, NEW c \in Callers,
         Read(c) \/ GetEventBook(c) \/ StreamNext(c) \/ StreamEnd(c) \/ ReadFails(c)
  PROVE  /\ UNCHANGED <<log, reqs>> /\ Others(c)
         /\ call'[c].attempt = call[c].attempt /\ call'[c].doubt = call[c].doubt
         /\ call[c].pc \in {"start", "asking", "streaming"}
         /\ \/ call'[c].pc \in {"asking", "streaming", "read"}
            \/ call'[c].pc = "done" /\ call'[c].result.ok = FALSE
         /\ call'[c].seen \in {call[c].seen, Len(log), 0}
         /\ call'[c].pc = "read" => GetEventBook(c) \/ StreamEnd(c)
<1>0. call[c] \in CallStates /\ call \in [Callers -> CallStates] /\ Len(log) \in Nat
  BY DEF TypeOK
<1>1. CASE Read(c)
  <2>0. call[c].pc = "start" /\ UNCHANGED <<log, reqs>>
    BY <1>1 DEF Read, At
  <2>1. PICK chain \in Chains :
          \/ call' = [call EXCEPT ![c].pc = "done",
                                  ![c].result = Err("InvalidTimestamp", "INVALID")]
          \/ \E pc \in {"asking", "streaming"} :
               call' = [call EXCEPT ![c].pc = pc, ![c].query = QueryOf(chain), ![c].got = {},
                                 ![c].seen = Len(log)]
    BY <1>1 DEF Read
  <2>2. QueryOf(chain) \in {NewQuery} \cup {QueryOf(ch) : ch \in Chains} /\ {} \in Reads
    BY DEF Reads
  <2>3. CASE call' = [call EXCEPT ![c].pc = "done",
                                 ![c].result = Err("InvalidTimestamp", "INVALID")]
    <3>1. /\ Err("InvalidTimestamp", "INVALID") \in Results
          /\ Err("InvalidTimestamp", "INVALID").ok = FALSE
      BY ErrorTypes DEF Err
    <3> QED
      BY <1>0, <2>0, <2>3, <3>1 DEF CallStates, Others
  <2>4. CASE \E pc \in {"asking", "streaming"} :
               call' = [call EXCEPT ![c].pc = pc, ![c].query = QueryOf(chain), ![c].got = {},
                                 ![c].seen = Len(log)]
    <3>1. PICK pc \in {"asking", "streaming"} :
            call' = [call EXCEPT ![c].pc = pc, ![c].query = QueryOf(chain), ![c].got = {},
                              ![c].seen = Len(log)]
      BY <2>4
    <3> DEFINE next == [call[c] EXCEPT !.pc = pc, !.query = QueryOf(chain), !.got = {},
                                       !.seen = Len(log)]
    <3>2. next \in CallStates
      BY <1>0, <2>2 DEF CallStates
    <3>3. /\ next.draft = call[c].draft /\ next.attempt = call[c].attempt
          /\ next.doubt = call[c].doubt /\ next.pc = pc /\ next.seen = Len(log)
      BY <1>0 DEF CallStates
    <3>4. call' = [call EXCEPT ![c] = next]
      BY <1>0, <3>1
    <3> HIDE DEF next
    <3> QED
      BY <1>0, <2>0, <3>2, <3>3, <3>4 DEF Others
  <2> QED
    BY <2>1, <2>3, <2>4
<1>2. CASE GetEventBook(c)
  <2>1. Selected(call[c].query) \in Reads
    BY SelectedType
  <2> QED
    BY <1>0, <1>2, <2>1 DEF GetEventBook, At, CallStates, Others
<1>3. CASE StreamNext(c)
  <2>1. PICK n \in Selected(call[c].query) : call' = [call EXCEPT ![c].got = @ \cup {n}]
    BY <1>3 DEF StreamNext
  <2>2. call[c].got \cup {n} \in Reads
    BY <1>0, SelectedType DEF CallStates, Reads
  <2> QED
    BY <1>0, <1>3, <2>1, <2>2 DEF StreamNext, At, CallStates, Others
<1>4. CASE StreamEnd(c)
  BY <1>0, <1>4 DEF StreamEnd, At, CallStates, Others
<1>5. CASE ReadFails(c)
  <2>1. {} \in Reads /\ Grpc("UNAVAILABLE") \in Results /\ Grpc("UNAVAILABLE").ok = FALSE
    BY ErrorTypes DEF Reads, Grpc, Err
  <2> QED
    BY <1>0, <1>5, <2>1 DEF ReadFails, Forgot, At, CallStates, Others
<1> QED
  BY <1>1, <1>2, <1>3, <1>4, <1>5

\* CommandBuilder::build sends nothing, and fails or makes a book as drafted.
LEMMA BuildStep ==
  ASSUME TypeOK, NEW c \in Callers, Build(c)
  PROVE  /\ UNCHANGED <<log, reqs>> /\ Others(c)
         /\ call'[c].attempt = call[c].attempt /\ call'[c].doubt = call[c].doubt
         /\ call[c].pc = "read" /\ call'[c].seen = 0
         /\ \/ call'[c].pc = "done" /\ call'[c].result.ok = FALSE
            \/ call'[c].pc = "sending" /\ call'[c].book.strategy = Strategy(call[c].draft)
<1> DEFINE d == call[c].draft
           book == Book(c, d, call[c].round, After(call[c].got))
<1>0. /\ call[c] \in CallStates /\ call \in [Callers -> CallStates] /\ d \in Drafts[c]
      /\ {} \in Reads
  BY DEF TypeOK, Reads
<1>1. book \in Books /\ book.strategy = Strategy(d)
  <2>1. book \in Books
    BY <1>0, BookType DEF CallStates
  <2> QED
    BY <2>1 DEF Book
<1>2. CASE BuildError(d) # "none"
  <2>1. /\ Err("InvalidArgument", BuildError(d)) \in Results
        /\ Err("InvalidArgument", BuildError(d)).ok = FALSE
    BY <1>2, ErrorTypes DEF Err
  <2>2. call' = [call EXCEPT ![c] = [Forgot(c) EXCEPT
            !.pc = "done", !.result = Err("InvalidArgument", BuildError(d))]]
    BY <1>2 DEF Build
  <2> QED
    BY <1>0, <2>1, <2>2 DEF Build, Forgot, At, CallStates, Others
<1>3. CASE BuildError(d) = "none"
  <2>1. call' = [call EXCEPT ![c] = [Forgot(c) EXCEPT !.pc = "sending", !.book = book]]
    BY <1>3 DEF Build
  <2> HIDE DEF book
  <2> QED
    BY <1>0, <1>1, <2>1 DEF Build, Forgot, At, CallStates, Others
<1> QED
  BY <1>2, <1>3

-----------------------------------------------------------------------------
\* Before anything is read the parts of the invariant hold.
LEMMA InitIInv == Init => IInv
<1> SUFFICES ASSUME Init PROVE IInv
  OBVIOUS
<1>1. PICK draft \in {f \in [Callers -> UNION {Drafts[c] : c \in Callers}] :
                        \A c \in Callers : f[c] \in Drafts[c]} :
        call = [c \in Callers |->
          [pc |-> "start", draft |-> draft[c], query |-> NewQuery, got |-> {}, seen |-> 0,
           book |-> [seq |-> 0, strategy |-> "commutative", id |-> <<>>],
           attempt |-> 0, doubt |-> FALSE, result |-> Ok, round |-> 1]]
  BY DEF Init
<1>2. log = <<>> /\ reqs = {}
  BY DEF Init
<1>3. [seq |-> 0, strategy |-> "commutative", id |-> <<>>] \in Books
  <2>1. {} \in Reads /\ After({}) = 0
    BY DEF Reads, After
  <2> QED
    BY <2>1 DEF Books, Strategies, Ids
<1>4. TypeOK
  <2>1. call \in [Callers -> CallStates]
    BY <1>1, <1>3, ErrorTypes DEF Reads, CallStates
  <2>2. log \in Seq([by : Callers, id : Ids]) /\ Len(log) <= MaxLog
    BY <1>2
  <2>3. \A c \in Callers : call[c].draft = draft[c]
    BY <1>1
  <2> QED
    BY <1>1, <1>2, <2>1, <2>2, <2>3 DEF TypeOK
<1>5. \A c \in Callers :
        /\ call[c].pc = "start" /\ call[c].attempt = 0 /\ call[c].doubt = FALSE
        /\ call[c].seen = 0
  BY <1>1
<1>6. Fresh /\ Trying /\ OkIsWritten /\ ReadsAreWhole
  BY <1>5 DEF Fresh, Trying, OkIsWritten, Told, ReadsAreWhole, At, Sent
<1>7. InFlight /\ Written /\ AppliedAtMostOnce /\ SeenIsPast
  BY <1>2, <1>5 DEF InFlight, Written, AppliedAtMostOnce, SeenIsPast
<1> QED
  BY <1>4, <1>6, <1>7 DEF IInv

-----------------------------------------------------------------------------
(* The invariant is inductive: one lemma for each kind of step.            *)

\* A program whose read is whole finds it whole after a step of another.
LEMMA StillWhole ==
  ASSUME IInv, NEW u \in Callers, call'[u] = call[u],
         log' = log \/ \E x \in [by : Callers, id : Ids] : log' = Append(log, x),
         At(u, "read")
  PROVE  \A n \in Selected(call[u].query)' : n \notin call'[u].got => n >= call'[u].seen
<1> USE DEF IInv
<1>1. Len(log) \in Nat /\ call[u].seen \in Nat /\ call[u].seen <= Len(log)
  BY DEF TypeOK, CallStates, SeenIsPast
<1>2. CASE log' = log
  BY <1>2 DEF ReadsAreWhole, Selected
<1>3. CASE \E x \in [by : Callers, id : Ids] : log' = Append(log, x)
  <2>1. PICK x \in [by : Callers, id : Ids] : log' = Append(log, x)
    BY <1>3
  <2>2. /\ Len(log') = Len(log) + 1
        /\ \A n \in 0 .. Len(log) - 1 : log'[n + 1] = log[n + 1]
    <3>1. log \in Seq([by : Callers, id : Ids])
      BY DEF TypeOK
    <3> QED
      BY <2>1, <3>1
  <2>3. ASSUME NEW n \in Selected(call[u].query)', n < Len(log)
        PROVE  n \in Selected(call[u].query)
    BY <1>1, <2>2, <2>3 DEF Selected
  <2>4. \A n \in Selected(call[u].query)' : n \in Nat
    BY <1>1, <2>2 DEF Selected
  <2> QED
    BY <1>1, <2>3, <2>4 DEF ReadsAreWhole
<1> QED
  BY <1>2, <1>3

\* A program has no request and no event while it reads.
LEMMA NothingYet ==
  ASSUME IInv, NEW c \in Callers, call[c].pc \notin Sent
  PROVE  (\A r \in reqs : r.caller # c) /\ (\A i \in DOMAIN log : log[i].by # c)
<1>1. ~call[c].doubt /\ ~Broken(c) /\ ~At(c, "waiting") /\ ~Told(c)
  BY DEF IInv, Fresh, Broken, Told, At, Sent
<1> QED
  BY <1>1 DEF IInv, InFlight, Written

\* Reading and building keep the invariant: the program has sent nothing yet.
LEMMA PrepareIInv ==
  ASSUME IInv, NEW c \in Callers,
         Read(c) \/ GetEventBook(c) \/ StreamNext(c) \/ StreamEnd(c) \/ ReadFails(c) \/ Build(c)
  PROVE  IInv'
<1> USE DEF IInv
<1>1. /\ UNCHANGED <<log, reqs>> /\ Others(c)
      /\ call'[c].attempt = call[c].attempt /\ call'[c].doubt = call[c].doubt
      /\ call[c].pc \in {"start", "asking", "streaming", "read"}
      /\ \/ call'[c].pc \in {"asking", "streaming", "read"}
         \/ call'[c].pc = "done" /\ call'[c].result.ok = FALSE
         \/ call'[c].pc = "sending" /\ call'[c].book.strategy = Strategy(call[c].draft)
      /\ call'[c].seen \in {call[c].seen, Len(log), 0}
  BY ReadingStep, BuildStep
<1>2. call[c].pc \notin Sent
  BY <1>1 DEF Sent
<1>3. (\A r \in reqs : r.caller # c) /\ (\A i \in DOMAIN log : log[i].by # c)
  BY <1>2, NothingYet
<1>4. TypeOK'
  BY <1>1 DEF TypeOK, Others
<1>5. Fresh' /\ Trying'
  <2>1. call[c].attempt = 0 /\ ~call[c].doubt /\ 0 < MaxAttempts
    BY <1>2 DEF Fresh
  <2> QED
    BY <1>1, <2>1 DEF Fresh, Trying, Sent, Others
<1>6. InFlight'
  BY <1>1, <1>3 DEF InFlight, Others, TypeOK, Broken, At, Request
<1>7. Written' /\ AppliedAtMostOnce'
  <2>1. \A i \in DOMAIN log : log[i].by \in Callers
    BY WritersType
  <2> QED
    BY <1>1, <1>3, <2>1 DEF Written, AppliedAtMostOnce, Others, Broken, Told, At
<1>8. OkIsWritten'
  BY <1>1 DEF OkIsWritten, Told, At, Others
<1>9. SeenIsPast'
  BY <1>1 DEF SeenIsPast, Others, TypeOK
<1>10. ReadsAreWhole'
  <2> SUFFICES ASSUME NEW u \in Callers, At(u, "read")'
               PROVE  \A n \in Selected(call[u].query)' :
                        n \notin call'[u].got => n >= call'[u].seen
    BY DEF ReadsAreWhole
  <2>1. CASE u # c
    BY <1>1, <2>1, StillWhole DEF Others, At
  <2>2. CASE u = c
    <3>1. Selected(call[c].query)' = Selected(call'[c].query)
      BY <1>1 DEF Selected
    <3>2. call[c] \in CallStates /\ call'[c].pc = "read" /\ call \in [Callers -> CallStates]
      BY <2>2 DEF At, TypeOK
    <3>3. GetEventBook(c) \/ StreamEnd(c)
      BY <3>2, ReadingStep, BuildStep
    <3>6. CASE GetEventBook(c)
      <4>1. call'[c].got = Selected(call[c].query) /\ call'[c].query = call[c].query
        BY <3>2, <3>6 DEF GetEventBook, CallStates
      <4> QED
        BY <2>2, <3>1, <4>1
    <3>7. CASE StreamEnd(c)
      <4>1. call'[c].got = call[c].got /\ call'[c].query = call[c].query
        BY <3>2, <3>7 DEF StreamEnd, CallStates
      <4> QED
        BY <2>2, <3>1, <3>7, <4>1 DEF StreamEnd
    <3> QED
      BY <3>3, <3>6, <3>7
  <2> QED
    BY <2>1, <2>2
<1> QED
  BY <1>4, <1>5, <1>6, <1>7, <1>8, <1>9, <1>10

\* What one program has to keep of the invariant when only it moves.
LEMMA Moves ==
  ASSUME IInv, NEW c \in Callers, log' = log, Others(c),
         call'[c].book = call[c].book, call'[c].seen = call[c].seen,
         call'[c].pc \in {"start"} \cup Sent,
         call'[c].pc = "start" => call'[c].attempt = 0 /\ ~call'[c].doubt,
         call'[c].pc \in Sent \ {"done"} =>
           call'[c].attempt < MaxAttempts /\ call[c].book.strategy = Strategy(call[c].draft),
         \A r \in reqs' : r \in reqs \/ (r = Request(c)' /\ r = Request(c) /\ At(c, "sending")),
         \A r \in reqs' : r.caller = c =>
           call'[c].doubt \/ Broken(c)' \/ (At(c, "waiting")' /\ r = Request(c)'),
         (\E i \in DOMAIN log : log[i].by = c) => call'[c].doubt \/ Broken(c)' \/ Told(c)',
         Told(c)' /\ ~call[c].draft.dry => \E i \in DOMAIN log : log[i].by = c
  PROVE  IInv'
<1> USE DEF IInv
<1>1. call \in [Callers -> CallStates] /\ call[c] \in CallStates
  BY DEF TypeOK
<1>2. At(c, "sending") =>
        /\ Request(c) \in [caller : Callers, round : 1 .. MaxRounds,
                           attempt : 0 .. MaxAttempts - 1, book : Books, dry : BOOLEAN]
        /\ Request(c).caller = c /\ Request(c).book = call[c].book
        /\ Request(c).dry = call[c].draft.dry
        /\ call[c].book.strategy = Strategy(call[c].draft)
  <2> SUFFICES ASSUME At(c, "sending")
               PROVE  /\ Request(c) \in [caller : Callers, round : 1 .. MaxRounds,
                           attempt : 0 .. MaxAttempts - 1, book : Books, dry : BOOLEAN]
                      /\ Request(c).caller = c /\ Request(c).book = call[c].book
                      /\ Request(c).dry = call[c].draft.dry
                      /\ call[c].book.strategy = Strategy(call[c].draft)
    OBVIOUS
  <2>1. call[c].attempt < MaxAttempts /\ call[c].book.strategy = Strategy(call[c].draft)
    BY DEF Trying, At, Sent
  <2>2. call[c].draft.dry \in BOOLEAN
    BY DEF TypeOK
  <2> QED
    BY <1>1, <2>1, <2>2 DEF Request, CallStates
<1>3. TypeOK'
  <2>1. reqs' \subseteq [caller : Callers, round : 1 .. MaxRounds, attempt : 0 .. MaxAttempts - 1,
                       book : Books, dry : BOOLEAN]
    BY <1>2 DEF TypeOK
  <2>2. \A u \in Callers : call'[u].draft \in Drafts[u]
    BY DEF TypeOK, Others
  <2> QED
    BY <2>1, <2>2 DEF TypeOK, Others
<1>4. Fresh' /\ Trying'
  BY DEF Fresh, Trying, Sent, Others
<1>5. InFlight'
  <2> SUFFICES ASSUME NEW r \in reqs'
               PROVE  LET u == r.caller IN
                      /\ r.book = call'[u].book /\ r.dry = call'[u].draft.dry
                      /\ r.book.strategy = Strategy(call'[u].draft)
                      /\ call'[u].doubt \/ Broken(u)' \/ (At(u, "waiting")' /\ r = Request(u)')
    BY DEF InFlight
  <2>1. CASE r.caller = c
    <3>1. /\ r.book = call[c].book /\ r.dry = call[c].draft.dry
          /\ r.book.strategy = Strategy(call[c].draft)
      BY <1>2, <2>1 DEF InFlight
    <3> QED
      BY <2>1, <3>1 DEF Others
  <2>2. CASE r.caller # c
    <3>1. r \in reqs /\ r.caller \in Callers
      BY <1>2, <2>2 DEF TypeOK
    <3>2. call'[r.caller] = call[r.caller]
      BY <2>2, <3>1 DEF Others
    <3> QED
      BY <3>1, <3>2 DEF InFlight, Broken, At, Request
  <2> QED
    BY <2>1, <2>2
<1>6. Written' /\ AppliedAtMostOnce' /\ OkIsWritten'
  <2>1. \A u \in Callers : u # c => (Broken(u)' = Broken(u) /\ Told(u)' = Told(u))
    BY DEF Others, Broken, Told, At
  <2>2. Written'
    BY <2>1, WritersType DEF Written, Others
  <2>3. AppliedAtMostOnce'
    BY DEF AppliedAtMostOnce, Others
  <2>4. OkIsWritten'
    BY <2>1 DEF OkIsWritten, Others
  <2> QED
    BY <2>2, <2>3, <2>4
<1>7. SeenIsPast'
  BY DEF SeenIsPast, Others
<1>8. ReadsAreWhole'
  <2> SUFFICES ASSUME NEW u \in Callers, At(u, "read")'
               PROVE  \A n \in Selected(call[u].query)' :
                        n \notin call'[u].got => n >= call'[u].seen
    BY DEF ReadsAreWhole
  <2>1. u # c
    BY DEF At, Sent
  <2> QED
    BY <2>1, StillWhole DEF Others, At
<1> QED
  BY <1>3, <1>4, <1>5, <1>6, <1>7, <1>8

\* Trying, ending and starting over keep the invariant: only a program without
\* requests and events starts over.
LEMMA TryIInv ==
  ASSUME IInv, NEW c \in Callers,
         Send(c) \/ Succeed(c) \/ Retry(c) \/ StartOver(c) \/ Break(c)
  PROVE  IInv'
<1> USE DEF IInv
<1>1. call \in [Callers -> CallStates] /\ call[c] \in CallStates
  BY DEF TypeOK
<1>2. call[c].attempt \in Nat /\ call[c].doubt \in BOOLEAN /\ call[c].result.ok \in BOOLEAN
  BY <1>1, ResultType DEF CallStates
<1>3. \A r \in reqs : r.caller = c =>
        call[c].doubt \/ Broken(c) \/ (At(c, "waiting") /\ r = Request(c))
  BY DEF InFlight
<1>4. (\E i \in DOMAIN log : log[i].by = c) => call[c].doubt \/ Broken(c) \/ Told(c)
  BY DEF Written
<1>5. call[c].pc \in Sent \ {"done"} =>
        call[c].attempt < MaxAttempts /\ call[c].book.strategy = Strategy(call[c].draft)
  BY DEF Trying
<1>6. CASE Send(c)
  <2>1. /\ call[c].pc = "sending" /\ log' = log /\ reqs' = reqs \cup {Request(c)}
        /\ Others(c) /\ call'[c] = [call[c] EXCEPT !.pc = "waiting"]
    BY <1>1, <1>6 DEF Send, At, Others, CallStates
  <2>2. /\ call'[c].book = call[c].book /\ call'[c].seen = call[c].seen
        /\ call'[c].pc = "waiting" /\ call'[c].attempt = call[c].attempt
        /\ call'[c].doubt = call[c].doubt /\ call'[c].round = call[c].round
        /\ call'[c].draft = call[c].draft
    BY <1>1, <2>1 DEF CallStates
  <2>3. Request(c)' = Request(c)
    BY <2>2 DEF Request
  <2>4. ~Broken(c) /\ ~Told(c) /\ ~Told(c)' /\ At(c, "sending") /\ At(c, "waiting")'
    BY <2>1, <2>2 DEF Broken, Told, At
  <2> QED
    BY <1>3, <1>4, <1>5, <2>1, <2>2, <2>3, <2>4, Moves DEF Sent, At
<1>7. CASE Succeed(c)
  <2>1. /\ call[c].pc = "answered" /\ call[c].result.ok /\ log' = log /\ reqs' = reqs
        /\ call' = [call EXCEPT ![c] = [call[c] EXCEPT !.pc = "done", !.attempt = @ + 1]]
    BY <1>1, <1>7 DEF Succeed, At
  <2>2. call[c].attempt + 1 \in 0 .. MaxAttempts
    BY <1>2, <1>5, <2>1 DEF Sent
  <2>3. /\ Others(c) /\ call'[c].book = call[c].book /\ call'[c].seen = call[c].seen
        /\ call'[c].pc = "done" /\ call'[c].doubt = call[c].doubt
        /\ call'[c].result = call[c].result
    BY <1>1, <2>1, <2>2 DEF CallStates, Others
  <2>4. ~Broken(c) /\ Told(c) /\ Told(c)' /\ ~At(c, "waiting")
    BY <2>1, <2>3 DEF Broken, Told, At
  <2>5. Told(c)' /\ ~call[c].draft.dry => \E i \in DOMAIN log : log[i].by = c
    BY <2>4 DEF OkIsWritten
  <2> QED
    BY <1>3, <1>4, <2>1, <2>3, <2>4, <2>5, Moves DEF Sent, At
<1>8. CASE Retry(c)
  <2> DEFINE pc == IF call[c].attempt + 1 >= MaxAttempts THEN "done" ELSE "sending"
             doubt == call[c].doubt \/ IsConnectionError(call[c].result)
  <2>1. /\ call[c].pc = "answered" /\ ~call[c].result.ok /\ log' = log /\ reqs' = reqs
        /\ call' = [call EXCEPT ![c] = [call[c] EXCEPT !.pc = pc, !.attempt = @ + 1,
                                                      !.doubt = doubt]]
    BY <1>1, <1>8 DEF Retry, At
  <2>2. call[c].attempt + 1 \in 0 .. MaxAttempts
    BY <1>2, <1>5, <2>1 DEF Sent
  <2>3. doubt \in BOOLEAN /\ pc \in {"done", "sending"}
    BY DEF IsConnectionError
  <2>4. pc = "sending" => call[c].attempt + 1 < MaxAttempts
    BY <1>2
  <2>5. Broken(c) => doubt
    BY DEF Broken
  <2>6. call[c].doubt => doubt
    OBVIOUS
  <2> HIDE DEF pc, doubt
  <2>7. /\ Others(c) /\ call'[c].book = call[c].book /\ call'[c].seen = call[c].seen
        /\ call'[c].pc = pc /\ call'[c].doubt = doubt
        /\ call'[c].result = call[c].result /\ call'[c].attempt = call[c].attempt + 1
    BY <1>1, <2>1, <2>2, <2>3 DEF CallStates, Others
  <2>8. ~Told(c) /\ ~Told(c)' /\ ~At(c, "waiting")
    BY <2>1, <2>7 DEF Told, At
  <2> QED
    BY <1>3, <1>4, <1>5, <2>1, <2>3, <2>4, <2>5, <2>6, <2>7, <2>8, Moves DEF Sent, At
<1>9. CASE StartOver(c)
  <2>1. /\ call[c].pc = "done" /\ ~call[c].result.ok /\ ~call[c].doubt /\ log' = log
        /\ reqs' = reqs /\ call[c].round + 1 \in 1 .. MaxRounds
        /\ call' = [call EXCEPT ![c] = [call[c] EXCEPT !.pc = "start", !.round = @ + 1,
                                                      !.attempt = 0]]
    BY <1>1, <1>9 DEF StartOver, At, CallStates
  <2>4. [call[c] EXCEPT !.pc = "start", !.round = @ + 1, !.attempt = 0] \in CallStates
    <3>1. 0 \in 0 .. MaxAttempts
      OBVIOUS
    <3> QED
      BY <1>1, <2>1, <3>1 DEF CallStates
  <2>2. /\ Others(c) /\ call'[c].book = call[c].book /\ call'[c].seen = call[c].seen
        /\ call'[c].pc = "start" /\ call'[c].doubt = call[c].doubt /\ call'[c].attempt = 0
    <3>1. call'[c] = [call[c] EXCEPT !.pc = "start", !.round = @ + 1, !.attempt = 0]
      BY <1>1, <2>1
    <3> QED
      BY <1>1, <2>1, <2>4, <3>1 DEF CallStates, Others
  <2>3. ~Broken(c) /\ ~Told(c) /\ ~Told(c)' /\ ~At(c, "waiting")
    BY <2>1, <2>2 DEF Broken, Told, At
  <2> QED
    BY <1>3, <1>4, <2>1, <2>2, <2>3, Moves DEF Sent, At
<1>10. CASE Break(c)
  <2>1. /\ call[c].pc \in {"waiting", "answered"} /\ log' = log /\ reqs' \subseteq reqs
        /\ call' = [call EXCEPT ![c] = [call[c] EXCEPT !.pc = "answered",
                                                      !.result = Grpc("UNAVAILABLE")]]
    BY <1>1, <1>10 DEF Break, At
  <2>2. /\ Grpc("UNAVAILABLE") \in Results /\ Grpc("UNAVAILABLE").ok = FALSE
        /\ IsConnectionError(Grpc("UNAVAILABLE"))
    BY ErrorTypes DEF Grpc, Err, IsConnectionError
  <2>3. /\ Others(c) /\ call'[c].book = call[c].book /\ call'[c].seen = call[c].seen
        /\ call'[c].pc = "answered" /\ call'[c].doubt = call[c].doubt
        /\ call'[c].attempt = call[c].attempt /\ call'[c].result = Grpc("UNAVAILABLE")
    BY <1>1, <2>1, <2>2 DEF CallStates, Others
  <2>4. Broken(c)' /\ ~Told(c)'
    BY <2>2, <2>3 DEF Broken, Told, At
  <2> QED
    BY <1>5, <2>1, <2>3, <2>4, Moves DEF Sent
<1> QED
  BY <1>6, <1>7, <1>8, <1>9, <1>10

\* An answer reaches the program that waits for it, or one that knows of a break.
LEMMA AnswerStep ==
  ASSUME IInv, NEW r \in reqs, NEW answer \in Results, call' = Answered(r, answer)
  PROVE  LET c == r.caller IN
         /\ c \in Callers /\ Others(c) /\ c = r.caller
         /\ call'[c].book = call[c].book /\ call'[c].seen = call[c].seen
         /\ call'[c].attempt = call[c].attempt /\ call'[c].doubt = call[c].doubt
         /\ \/ /\ call[c].pc = "waiting" /\ r = Request(c)
               /\ call'[c].pc = "answered" /\ call'[c].result = answer
            \/ call' = call /\ (call[c].doubt \/ Broken(c))
         /\ call'[c].pc \in Sent
<1> USE DEF IInv
<1> DEFINE c == r.caller
<1>1. call \in [Callers -> CallStates] /\ c \in Callers /\ call[c] \in CallStates
  BY DEF TypeOK
<1>2. call[c].doubt \/ Broken(c) \/ (At(c, "waiting") /\ r = Request(c))
  BY DEF InFlight
<1> HIDE DEF c
<1>3. CASE At(c, "waiting") /\ call[c].round = r.round /\ call[c].attempt = r.attempt
  <2>1. call' = [call EXCEPT ![c].pc = "answered", ![c].result = answer]
    BY <1>3 DEF Answered, c
  <2>2. call'[c] = [call[c] EXCEPT !.pc = "answered", !.result = answer]
    BY <1>1, <2>1
  <2>3. /\ Others(c) /\ call'[c].book = call[c].book /\ call'[c].seen = call[c].seen
        /\ call'[c].attempt = call[c].attempt /\ call'[c].doubt = call[c].doubt
        /\ call'[c].pc = "answered" /\ call'[c].result = answer
    <3> DEFINE next == [call[c] EXCEPT !.pc = "answered", !.result = answer]
    <3>1. next \in CallStates
      BY <1>1 DEF CallStates
    <3>2. /\ next.book = call[c].book /\ next.seen = call[c].seen
          /\ next.attempt = call[c].attempt /\ next.doubt = call[c].doubt
          /\ next.draft = call[c].draft /\ next.pc = "answered" /\ next.result = answer
      BY <1>1 DEF CallStates
    <3>3. call' = [call EXCEPT ![c] = next]
      BY <1>1, <2>1
    <3> HIDE DEF next
    <3> QED
      BY <1>1, <3>1, <3>2, <3>3 DEF Others
  <2>4. /\ r.book = call[c].book /\ r.dry = call[c].draft.dry
        /\ r.round = call[c].round /\ r.attempt = call[c].attempt /\ r.caller = c
    BY <1>3 DEF InFlight, c
  <2>5. r = [caller |-> r.caller, round |-> r.round, attempt |-> r.attempt, book |-> r.book,
             dry |-> r.dry]
    <3>1. r \in [caller : Callers, round : 1 .. MaxRounds, attempt : 0 .. MaxAttempts - 1,
                book : Books, dry : BOOLEAN]
      BY DEF TypeOK
    <3> QED
      BY <3>1
  <2>6. r = Request(c)
    BY <2>4, <2>5 DEF Request
  <2> QED
    BY <1>1, <1>3, <2>3, <2>6 DEF At, Sent, c
<1>4. CASE ~(At(c, "waiting") /\ call[c].round = r.round /\ call[c].attempt = r.attempt)
  <2>1. call' = call
    BY <1>4 DEF Answered, c
  <2>2. r = Request(c) => call[c].round = r.round /\ call[c].attempt = r.attempt
    BY DEF Request
  <2>3. call[c].doubt \/ Broken(c)
    BY <1>2, <1>4, <2>2
  <2>4. call[c].pc \in Sent
    BY <1>1, <2>3 DEF Fresh, Broken, At, Sent
  <2> QED
    BY <1>1, <2>1, <2>3, <2>4 DEF Others, c
<1> QED
  BY <1>3, <1>4

\* What is left of the program's requests after an answer, and its events.
LEMMA AfterAnswer ==
  ASSUME IInv, NEW r \in reqs, NEW answer \in Results, call' = Answered(r, answer),
         reqs' = reqs \ {r}
  PROVE  LET c == r.caller IN
         /\ \A q \in reqs' : q.caller = c =>
              call'[c].doubt \/ Broken(c)' \/ (At(c, "waiting")' /\ q = Request(c)')
         /\ (\E i \in DOMAIN log : log[i].by = c) => call'[c].doubt \/ Broken(c)' \/ Told(c)'
<1> USE DEF IInv
<1> DEFINE c == r.caller
<1>1. /\ c \in Callers /\ call'[c].doubt = call[c].doubt
      /\ \/ /\ call[c].pc = "waiting" /\ r = Request(c)
            /\ call'[c].pc = "answered" /\ call'[c].result = answer
         \/ call' = call /\ (call[c].doubt \/ Broken(c))
  BY AnswerStep
<1>2. /\ \A q \in reqs : q.caller = c =>
           call[c].doubt \/ Broken(c) \/ (At(c, "waiting") /\ q = Request(c))
      /\ (\E i \in DOMAIN log : log[i].by = c) => call[c].doubt \/ Broken(c) \/ Told(c)
  BY DEF InFlight, Written
<1> HIDE DEF c
<1>3. CASE call[c].pc = "waiting" /\ r = Request(c)
  <2>1. ~Broken(c) /\ ~Told(c)
    BY <1>3 DEF Broken, Told, At
  <2>2. (\E i \in DOMAIN log : log[i].by = c) => call'[c].doubt
    BY <1>1, <1>2, <2>1
  <2>3. \A q \in reqs' : q.caller = c => call'[c].doubt
    BY <1>1, <1>2, <1>3, <2>1
  <2> QED
    BY <2>2, <2>3 DEF c
<1>4. CASE call' = call /\ (call[c].doubt \/ Broken(c))
  <2>1. call'[c].doubt \/ Broken(c)'
    BY <1>4 DEF Broken, At
  <2> QED
    BY <2>1 DEF c
<1> QED
  BY <1>1, <1>3, <1>4

\* An answer that writes nothing keeps the invariant.
LEMMA AnswerIInv ==
  ASSUME IInv, NEW r \in reqs, NEW answer \in Results, call' = Answered(r, answer),
         reqs' = reqs \ {r}, log' = log, answer.ok => r.dry
  PROVE  IInv'
<1> USE DEF IInv
<1> DEFINE c == r.caller
<1>1. /\ c \in Callers /\ Others(c)
      /\ call'[c].book = call[c].book /\ call'[c].seen = call[c].seen
      /\ call'[c].attempt = call[c].attempt /\ call'[c].doubt = call[c].doubt
      /\ \/ /\ call[c].pc = "waiting" /\ r = Request(c)
            /\ call'[c].pc = "answered" /\ call'[c].result = answer
         \/ call' = call /\ (call[c].doubt \/ Broken(c))
      /\ call'[c].pc \in Sent
  BY AnswerStep
<1>2. /\ \A q \in reqs' : q.caller = c =>
           call'[c].doubt \/ Broken(c)' \/ (At(c, "waiting")' /\ q = Request(c)')
      /\ (\E i \in DOMAIN log : log[i].by = c) => call'[c].doubt \/ Broken(c)' \/ Told(c)'
  BY AfterAnswer
<1>3. r.dry = call[c].draft.dry
  BY DEF InFlight
<1> HIDE DEF c
<1>4. Told(c)' /\ ~call[c].draft.dry => \E i \in DOMAIN log : log[i].by = c
  <2>1. CASE call'[c].pc = "answered" /\ call'[c].result = answer
    BY <1>3, <2>1 DEF Told, At
  <2>2. CASE call' = call
    BY <1>1, <2>2 DEF OkIsWritten, Told, At
  <2> QED
    BY <1>1, <2>1, <2>2
<1>5. call'[c].pc \in Sent \ {"done"} =>
        call'[c].attempt < MaxAttempts /\ call[c].book.strategy = Strategy(call[c].draft)
  <2>1. call'[c].pc \in Sent \ {"done"} => call[c].pc \in Sent \ {"done"}
    BY <1>1 DEF Sent
  <2> QED
    BY <1>1, <2>1 DEF Trying
<1>6. call'[c].pc # "start"
  BY <1>1 DEF Sent
<1> QED
  BY <1>1, <1>2, <1>4, <1>5, <1>6, Moves

\* What Append adds to the history.
LEMMA Appended ==
  ASSUME NEW S, NEW s \in Seq(S), NEW x \in S
  PROVE  /\ Append(s, x) \in Seq(S) /\ Len(s) \in Nat /\ Len(Append(s, x)) = Len(s) + 1
         /\ DOMAIN s = 1 .. Len(s) /\ DOMAIN Append(s, x) = 1 .. Len(s) + 1
         /\ Append(s, x)[Len(s) + 1] = x
         /\ \A i \in DOMAIN s : Append(s, x)[i] = s[i]
<1>1. Len(s) \in Nat /\ DOMAIN s = 1 .. Len(s)
  OBVIOUS
<1>2. Append(s, x) \in Seq(S) /\ Len(Append(s, x)) = Len(s) + 1
  OBVIOUS
<1>3. DOMAIN Append(s, x) = 1 .. Len(s) + 1
  BY <1>2
<1>4. Append(s, x)[Len(s) + 1] = x
  OBVIOUS
<1>5. \A i \in DOMAIN s : Append(s, x)[i] = s[i]
  OBVIOUS
<1> QED
  BY <1>1, <1>2, <1>3, <1>4, <1>5

\* A command that is written keeps the invariant: its sequence was the next
\* one, so no command of this book was written before.
LEMMA WriteIInv ==
  ASSUME IInv, NEW r \in reqs, Accept(r), ~r.dry
  PROVE  IInv'
<1> USE DEF IInv
<1> DEFINE c == r.caller
           x == [by |-> r.caller, id |-> r.book.id]
           Entry == [by : Callers, id : Ids]
<1>1. /\ call' = Answered(r, Ok) /\ Ok \in Results /\ Ok.ok = TRUE /\ reqs' = reqs \ {r}
      /\ InSequence(r) /\ Len(log) < MaxLog /\ log' = Append(log, x)
  BY ErrorTypes DEF Accept, Ok
<1>2. /\ c \in Callers /\ Others(c)
      /\ call'[c].book = call[c].book /\ call'[c].seen = call[c].seen
      /\ call'[c].attempt = call[c].attempt /\ call'[c].doubt = call[c].doubt
      /\ \/ /\ call[c].pc = "waiting" /\ r = Request(c)
            /\ call'[c].pc = "answered" /\ call'[c].result = Ok
         \/ call' = call /\ (call[c].doubt \/ Broken(c))
      /\ call'[c].pc \in Sent
  BY <1>1, AnswerStep
<1>3. /\ \A q \in reqs' : q.caller = c =>
           call'[c].doubt \/ Broken(c)' \/ (At(c, "waiting")' /\ q = Request(c)')
      /\ (\E i \in DOMAIN log : log[i].by = c) => call'[c].doubt \/ Broken(c)' \/ Told(c)'
  BY <1>1, AfterAnswer
<1>4. /\ r.book = call[c].book /\ r.book.strategy = Strategy(call[c].draft)
      /\ r.dry = call[c].draft.dry
  BY DEF InFlight
<1>5. x \in Entry /\ log \in Seq(Entry) /\ Len(log) <= MaxLog /\ x.by = c
  <2>1. r.book \in Books /\ r.caller \in Callers
    BY DEF TypeOK
  <2> QED
    BY <2>1 DEF TypeOK, Books
<1> HIDE DEF c, x, Entry
<1>6. /\ log' \in Seq(Entry) /\ Len(log) \in Nat /\ Len(log') = Len(log) + 1
      /\ DOMAIN log = 1 .. Len(log) /\ DOMAIN log' = 1 .. Len(log) + 1
      /\ log'[Len(log) + 1] = x
      /\ \A i \in DOMAIN log : log'[i] = log[i]
  BY <1>1, <1>5, Appended
<1>7. \A i \in DOMAIN log' : log'[i].by = c \/ (i \in DOMAIN log /\ log'[i].by = log[i].by)
  BY <1>5, <1>6
<1>8. \A u \in Callers : u # c =>
        /\ call'[u] = call[u] /\ Broken(u)' = Broken(u) /\ Told(u)' = Told(u)
  BY <1>2 DEF Others, Broken, Told, At
<1>9. TypeOK'
  <2>1. log' \in Seq([by : Callers, id : Ids]) /\ Len(log') <= MaxLog
    BY <1>1, <1>5, <1>6 DEF Entry, TypeOK
  <2>2. \A u \in Callers : call'[u].draft \in Drafts[u]
    BY <1>2 DEF TypeOK, Others
  <2> QED
    BY <1>1, <1>2, <2>1, <2>2 DEF TypeOK, Others
<1>10. Fresh' /\ Trying'
  <2>1. call'[c].pc \in Sent \ {"done"} => call[c].pc \in Sent \ {"done"}
    BY <1>2 DEF Sent
  <2>2. call'[c].pc \in Sent \ {"done"} =>
          call'[c].attempt < MaxAttempts /\ call'[c].book.strategy = Strategy(call'[c].draft)
    BY <1>2, <2>1 DEF Trying, Others
  <2> QED
    BY <1>2, <1>8, <2>2 DEF Fresh, Trying
<1>11. InFlight'
  <2> SUFFICES ASSUME NEW q \in reqs'
               PROVE  LET u == q.caller IN
                      /\ q.book = call'[u].book /\ q.dry = call'[u].draft.dry
                      /\ q.book.strategy = Strategy(call'[u].draft)
                      /\ call'[u].doubt \/ Broken(u)' \/ (At(u, "waiting")' /\ q = Request(u)')
    BY DEF InFlight
  <2>1. q \in reqs /\ q.caller \in Callers
    BY <1>1 DEF TypeOK
  <2>2. CASE q.caller = c
    <3>1. /\ q.book = call[c].book /\ q.dry = call[c].draft.dry
          /\ q.book.strategy = Strategy(call[c].draft)
      BY <2>1, <2>2 DEF InFlight
    <3> QED
      BY <1>2, <1>3, <2>2, <3>1 DEF Others
  <2>3. CASE q.caller # c
    <3>1. call'[q.caller] = call[q.caller] /\ Broken(q.caller)' = Broken(q.caller)
      BY <1>8, <2>1, <2>3
    <3> QED
      BY <2>1, <3>1 DEF InFlight, At, Request
  <2> QED
    BY <2>2, <2>3
<1>12. Written'
  <2>1. call'[c].doubt \/ Broken(c)' \/ Told(c)'
    BY <1>1, <1>2 DEF Broken, Told, At
  <2>2. \A i \in DOMAIN log : log[i].by \in Callers
    BY WritersType
  <2> QED
    BY <1>7, <1>8, <2>1, <2>2 DEF Written
<1>13. AppliedAtMostOnce'
  <2> SUFFICES ASSUME NEW u \in Callers, call'[u].draft.strategy # "aggregate_handles"
               PROVE  \A i \in DOMAIN log' : log'[i].by = u => i = call'[u].book.seq + 1
    BY DEF AppliedAtMostOnce
  <2>1. CASE u # c
    <3>1. call[u].draft.strategy # "aggregate_handles" /\ call'[u] = call[u]
      BY <1>8, <2>1
    <3>2. \A i \in DOMAIN log' : log'[i].by = u => i \in DOMAIN log /\ log[i].by = u
      BY <1>7, <2>1
    <3> QED
      BY <1>6, <3>1, <3>2 DEF AppliedAtMostOnce
  <2>2. CASE u = c
    <3>1. call[c].draft.strategy # "aggregate_handles"
      BY <1>2, <2>2 DEF Others
    <3>2. call[c].book.seq = Len(log)
      BY <1>1, <1>4, <3>1 DEF InSequence, Strategy
    <3>3. \A i \in DOMAIN log : log[i].by # c
      BY <1>2, <1>6, <3>1, <3>2 DEF AppliedAtMostOnce
    <3>4. \A i \in DOMAIN log' : log'[i].by = c => i = Len(log) + 1
      BY <1>6, <3>3
    <3> QED
      BY <1>2, <1>6, <2>2, <3>2, <3>4
  <2> QED
    BY <2>1, <2>2
<1>14. OkIsWritten'
  <2> SUFFICES ASSUME NEW u \in Callers, Told(u)', ~call'[u].draft.dry
               PROVE  \E i \in DOMAIN log' : log'[i].by = u
    BY DEF OkIsWritten
  <2>1. CASE u = c
    BY <1>5, <1>6, <2>1
  <2>2. CASE u # c
    <3>1. \E i \in DOMAIN log : log[i].by = u
      BY <1>8, <2>2 DEF OkIsWritten
    <3> QED
      BY <1>6, <3>1
  <2> QED
    BY <2>1, <2>2
<1>15. SeenIsPast'
  <2>1. \A u \in Callers : call[u].seen \in Nat /\ call[u].seen <= Len(log)
    BY DEF TypeOK, CallStates, SeenIsPast
  <2>2. \A u \in Callers : call'[u].seen = call[u].seen
    BY <1>2, <1>8
  <2> QED
    BY <1>6, <2>1, <2>2 DEF SeenIsPast
<1>16. ReadsAreWhole'
  <2> SUFFICES ASSUME NEW u \in Callers, At(u, "read")'
               PROVE  \A n \in Selected(call[u].query)' :
                        n \notin call'[u].got => n >= call'[u].seen
    BY DEF ReadsAreWhole
  <2>1. u # c
    BY <1>2 DEF At, Sent
  <2>2. \E e \in [by : Callers, id : Ids] : log' = Append(log, e)
    BY <1>1, <1>5 DEF Entry
  <2> QED
    BY <1>8, <2>1, <2>2, StillWhole DEF At
<1> QED
  BY <1>9, <1>10, <1>11, <1>12, <1>13, <1>14, <1>15, <1>16

\* Whatever the coordinator answers keeps the invariant.
LEMMA ServeIInv ==
  ASSUME IInv, NEW r \in reqs, Serve(r)
  PROVE  IInv'
<1> USE DEF IInv
<1>1. CASE Accept(r)
  <2>1. CASE ~r.dry
    BY <1>1, <2>1, WriteIInv
  <2>2. CASE r.dry
    BY <1>1, <2>2, ErrorTypes, AnswerIInv DEF Accept
  <2> QED
    BY <2>1, <2>2
<1>2. CASE Conflict(r)
  <2>1. PICK code \in Codes : call' = Answered(r, Grpc(code))
    BY <1>2, ErrorTypes DEF Conflict
  <2> QED
    BY <1>2, <2>1, ErrorTypes, AnswerIInv DEF Conflict, Grpc, Err
<1>3. CASE Reject(r)
  <2>1. PICK code \in Codes : call' = Answered(r, Grpc(code))
    BY <1>3, ErrorTypes DEF Reject
  <2> QED
    BY <1>3, <2>1, ErrorTypes, AnswerIInv DEF Reject, Grpc, Err
<1> QED
  BY <1>1, <1>2, <1>3 DEF Serve

\* Every step keeps the invariant.
LEMMA NextIInv == IInv /\ [Next]_vars => IInv'
<1> SUFFICES ASSUME IInv, [Next]_vars PROVE IInv'
  OBVIOUS
<1>1. CASE \E c \in Callers : Step(c) \/ ReadFails(c) \/ Break(c)
  BY <1>1, PrepareIInv, TryIInv DEF Step
<1>2. CASE \E r \in reqs : Serve(r)
  BY <1>2, ServeIInv
<1>3. CASE UNCHANGED vars
  <2>1. log' = log /\ reqs' = reqs /\ call' = call
    BY <1>3 DEF vars
  <2>2. TypeOK'
    <3>1. TypeOK
      BY DEF IInv
    <3> QED
      BY <2>1, <3>1, Zenon DEF TypeOK
  <2>5. Fresh' /\ Trying' /\ AppliedAtMostOnce' /\ SeenIsPast'
    BY <2>1 DEF IInv, Fresh, Trying, AppliedAtMostOnce, SeenIsPast
  <2>3. InFlight' /\ Written' /\ OkIsWritten'
    BY <2>1 DEF IInv, InFlight, Written, OkIsWritten, Broken, Told, At, Request
  <2>4. ReadsAreWhole'
    BY <2>1 DEF IInv, ReadsAreWhole, At, Selected
  <2> QED
    BY <2>2, <2>3, <2>4, <2>5 DEF IInv
<1> QED
  BY <1>1, <1>2, <1>3 DEF Next

LEMMA Invariance == Spec => []IInv
<1>1. Init => IInv
  BY InitIInv
<1>2. IInv /\ [Next]_vars => IInv'
  BY NextIInv
<1> QED
  BY <1>1, <1>2, PTL DEF Spec

-----------------------------------------------------------------------------
\* Builders, books, requests and results keep their types.
THEOREM TypeCorrect == Spec => []TypeOK
<1>1. IInv => TypeOK
  BY DEF IInv
<1> QED
  BY <1>1, Invariance, PTL

\* However many attempts RetryPolicy::execute makes and whatever the network
\* does to them, a command with a sequence takes effect at most once, and only
\* right after the events it was built on.
THEOREM AppliedOnce == Spec => []AppliedAtMostOnce
<1>1. IInv => AppliedAtMostOnce
  BY DEF IInv
<1> QED
  BY <1>1, Invariance, PTL

\* What execute returns is what happened, for any number of attempts: an Ok is
\* written, an error whose attempts were all answered never will be.
THEOREM AnswersHold == Spec => []AnswersAreTrue
<1>1. ASSUME IInv PROVE AnswersAreTrue
  <2> SUFFICES ASSUME NEW c \in Callers, Executed(c), ~call[c].draft.dry
               PROVE  /\ call[c].result.ok => \E i \in DOMAIN log : log[i].by = c
                      /\ ~call[c].result.ok /\ ~call[c].doubt =>
                           /\ \A i \in DOMAIN log : log[i].by # c
                           /\ \A r \in reqs : r.caller # c
    BY DEF AnswersAreTrue
  <2>1. At(c, "done") /\ ~At(c, "waiting") /\ ~Broken(c)
    BY DEF Executed, At, Broken
  <2>2. call[c].result.ok => Told(c)
    BY <2>1 DEF Told
  <2>3. ~call[c].result.ok => ~Told(c)
    BY DEF Told
  <2> QED
    BY <1>1, <2>1, <2>2, <2>3 DEF IInv, OkIsWritten, Written, InFlight
<1> QED
  BY <1>1, Invariance, PTL

\* A read that succeeds has every event that was selected when it began.
THEOREM WholeReads == Spec => []ReadsAreWhole
<1>1. IInv => ReadsAreWhole
  BY DEF IInv
<1> QED
  BY <1>1, Invariance, PTL

-----------------------------------------------------------------------------
\* A step of execute is a try or the next call, and nobody else's step is.
LEMMA RetryStep ==
  ASSUME IInv, [Next]_vars, NEW c \in Callers
  PROVE  [Retried(c)!Next]_(Retried(c)!vars)
<1> USE DEF IInv
<1>1. call \in [Callers -> CallStates] /\ call[c] \in CallStates /\ MaxAttempts \in Nat
  BY DEF TypeOK
<1>2. call[c].attempt \in Nat
  BY <1>1 DEF CallStates
<1>3. CASE call'[c] = call[c]
  BY <1>3 DEF Retried!vars, Executed, At
<1>4. CASE Read(c) \/ GetEventBook(c) \/ StreamNext(c) \/ StreamEnd(c) \/ ReadFails(c) \/ Build(c)
  <2>1. /\ call[c].pc \notin Sent /\ call'[c].attempt = call[c].attempt
    BY <1>4, ReadingStep, BuildStep DEF Sent
  <2>2. call[c].attempt = 0
    BY <2>1 DEF Fresh
  <2> QED
    BY <2>1, <2>2 DEF Retried!vars, Executed, At
<1>5. CASE Send(c) \/ Break(c)
  <2>1. /\ call[c].pc # "done" /\ call'[c].pc # "done" /\ call'[c].attempt = call[c].attempt
    BY <1>1, <1>5 DEF Send, Break, At, CallStates
  <2> QED
    BY <2>1 DEF Retried!vars, Executed, At
<1>6. CASE Succeed(c)
  <2>1. /\ call[c].pc = "answered" /\ call'[c].pc = "done" /\ call[c].result.ok
        /\ call'[c].result = call[c].result /\ call'[c].attempt = call[c].attempt + 1
    BY <1>1, <1>6 DEF Succeed, At, CallStates
  <2>2. call[c].attempt < MaxAttempts
    BY <2>1 DEF Trying, Sent
  <2>3. Retried(c)!Succeed
    BY <1>2, <2>1, <2>2 DEF Retried!Succeed, Executed, At
  <2> QED
    BY <2>3 DEF Retried!Next
<1>7. CASE Retry(c)
  <2>1. /\ call[c].pc = "answered" /\ ~call[c].result.ok
        /\ call'[c].pc = IF call[c].attempt + 1 >= MaxAttempts THEN "done" ELSE "sending"
        /\ call'[c].result = call[c].result /\ call'[c].attempt = call[c].attempt + 1
    BY <1>1, <1>7 DEF Retry, At, CallStates
  <2>2. call[c].attempt < MaxAttempts
    BY <2>1 DEF Trying, Sent
  <2>3. Retried(c)!Fail
    BY <1>1, <1>2, <2>1, <2>2 DEF Retried!Fail, Executed, At
  <2> QED
    BY <2>3 DEF Retried!Next
<1>8. CASE StartOver(c)
  <2>1. /\ call[c].pc = "done" /\ call'[c].pc = "start" /\ ~call[c].result.ok
        /\ call'[c].attempt = 0
    BY <1>1, <1>8 DEF StartOver, At, CallStates
  <2>2. CASE call[c].attempt = 0
    BY <2>1, <2>2 DEF Retried!vars, Executed, At
  <2>3. CASE call[c].attempt # 0
    <3>1. Retried(c)!Again
      BY <1>1, <1>2, <2>1, <2>3 DEF Retried!Again, Executed, At
    <3> QED
      BY <3>1 DEF Retried!Next
  <2> QED
    BY <2>2, <2>3
<1>9. CASE \E r \in reqs : Serve(r)
  <2>1. PICK r \in reqs, answer \in Results : call' = Answered(r, answer)
    BY <1>9, ErrorTypes DEF Serve, Accept, Conflict, Reject
  <2>2. CASE r.caller # c
    <3>1. call'[c] = call[c]
      BY <2>1, <2>2, AnswerStep DEF Others
    <3> QED
      BY <1>3, <3>1
  <2>3. CASE r.caller = c
    <3>1. \/ call' = call
          \/ /\ call[c].pc = "waiting" /\ call'[c].pc = "answered"
             /\ call'[c].attempt = call[c].attempt
      BY <2>1, <2>3, AnswerStep
    <3> QED
      BY <3>1 DEF Retried!vars, Executed, At
  <2> QED
    BY <2>2, <2>3
<1>10. CASE \E u \in Callers : u # c /\ (Step(u) \/ ReadFails(u) \/ Break(u))
  <2>1. PICK u \in Callers : u # c /\ (Step(u) \/ ReadFails(u) \/ Break(u))
    BY <1>10
  <2>2. Read(u) \/ GetEventBook(u) \/ StreamNext(u) \/ StreamEnd(u) \/ ReadFails(u) => Others(u)
    BY ReadingStep
  <2>3. Build(u) => Others(u)
    BY BuildStep
  <2>4. Send(u) \/ Succeed(u) \/ Retry(u) \/ StartOver(u) \/ Break(u) => call'[c] = call[c]
    BY <1>1, <2>1 DEF Send, Succeed, Retry, StartOver, Break
  <2>5. call'[c] = call[c]
    BY <2>1, <2>2, <2>3, <2>4 DEF Step, Others
  <2> QED
    BY <1>3, <2>5
<1>11. CASE UNCHANGED vars
  BY <1>3, <1>11 DEF vars
<1> QED
  BY <1>4, <1>5, <1>6, <1>7, <1>8, <1>9, <1>10, <1>11 DEF Next, Step

\* RetryPolicy::execute, as it is seen by each program among the others, is a
\* bounded retry: this is the property RetrySpec.
THEOREM ImplementsBoundedRetry == Spec => RetrySpec
<1>1. Init => \A c \in Callers : Retried(c)!Init
  <2> SUFFICES ASSUME Init, NEW c \in Callers PROVE Retried(c)!Init
    OBVIOUS
  <2>1. call[c].pc = "start" /\ call[c].attempt = 0 /\ MaxAttempts \in Nat
    BY DEF Init
  <2> QED
    BY <2>1 DEF Retried!Init, Executed, At
<1>2. IInv /\ [Next]_vars => \A c \in Callers : [Retried(c)!Next]_(Retried(c)!vars)
  BY RetryStep
<1> QED
  BY <1>1, <1>2, Invariance, PTL DEF Spec, RetrySpec

-----------------------------------------------------------------------------
(* Termination.                                                            *)

\* The stages of a round.
Stage ==
  [start |-> 0, asking |-> 1, streaming |-> 1, read |-> 2, sending |-> 3, waiting |-> 4,
   answered |-> 5, done |-> 6]

\* A program gets further: to another round, attempt or stage of it, or by an
\* event of the stream.  All of these are bounded (TypeOK).
SameAttempt(c) ==
  call'[c].round = call[c].round /\ call'[c].attempt = call[c].attempt
Forward(c) ==
  \/ call'[c].round > call[c].round
  \/ call'[c].round = call[c].round /\ call'[c].attempt > call[c].attempt
  \/ SameAttempt(c) /\ Stage[call'[c].pc] > Stage[call[c].pc]
  \/ /\ SameAttempt(c) /\ call'[c].pc = call[c].pc
     /\ call[c].got \subseteq call'[c].got /\ call'[c].got # call[c].got

StandsStill(c) ==
  SameAttempt(c) /\ call'[c].pc = call[c].pc /\ call'[c].got = call[c].got

\* The coordinator has what a program waits for the answer to.
Pending == \A c \in Callers : At(c, "waiting") => Request(c) \in reqs

\* The steps of a program take it further.
LEMMA StepsForward ==
  ASSUME TypeOK, NEW c \in Callers, Step(c) \/ ReadFails(c)
  PROVE  Forward(c)
<1>1. /\ call[c] \in CallStates /\ call \in [Callers -> CallStates]
  BY DEF TypeOK
<1>0. call[c].round \in Nat /\ call[c].attempt \in Nat
  <2>1. call[c].round \in 1 .. MaxRounds /\ call[c].attempt \in 0 .. MaxAttempts
    BY <1>1 DEF CallStates
  <2> QED
    BY <2>1
<1>2. CASE Read(c) \/ GetEventBook(c) \/ StreamEnd(c) \/ ReadFails(c)
  <2>1. CASE Read(c)
    <3>1. \/ call' = [call EXCEPT ![c].pc = "done",
                                  ![c].result = Err("InvalidTimestamp", "INVALID")]
          \/ \E q, pc : /\ pc \in {"asking", "streaming"}
                        /\ call' = [call EXCEPT ![c].pc = pc, ![c].query = q, ![c].got = {},
                                              ![c].seen = Len(log)]
      BY <2>1 DEF Read
    <3>2. SameAttempt(c) /\ call'[c].pc \in {"asking", "streaming", "done"}
      <4>1. CASE call' = [call EXCEPT ![c].pc = "done",
                                    ![c].result = Err("InvalidTimestamp", "INVALID")]
        BY <1>1, <4>1 DEF SameAttempt, CallStates
      <4>2. ASSUME NEW q, NEW pc \in {"asking", "streaming"},
                   call' = [call EXCEPT ![c].pc = pc, ![c].query = q, ![c].got = {},
                                      ![c].seen = Len(log)]
            PROVE  SameAttempt(c) /\ call'[c].pc = pc
        <5>1. call'[c] = [call[c] EXCEPT !.pc = pc, !.query = q, !.got = {}, !.seen = Len(log)]
          BY <1>1, <4>2
        <5> QED
          BY <1>1, <5>1 DEF SameAttempt, CallStates
      <4> QED
        BY <3>1, <4>1, <4>2
    <3> QED
      BY <2>1, <3>2 DEF Read, At, Forward, Stage
  <2>2. CASE GetEventBook(c) \/ StreamEnd(c)
    <3>1. SameAttempt(c) /\ call[c].pc \in {"asking", "streaming"} /\ call'[c].pc = "read"
      BY <1>1, <2>2 DEF GetEventBook, StreamEnd, At, SameAttempt, CallStates
    <3> QED
      BY <3>1 DEF Forward, Stage
  <2>3. CASE ReadFails(c)
    <3>1. SameAttempt(c) /\ call[c].pc \in {"asking", "streaming"} /\ call'[c].pc = "done"
      BY <1>1, <2>3 DEF ReadFails, Forgot, At, SameAttempt, CallStates
    <3> QED
      BY <3>1 DEF Forward, Stage
  <2> QED
    BY <1>2, <2>1, <2>2, <2>3
<1>3. CASE StreamNext(c)
  <2>1. PICK n : n \notin call[c].got /\ call' = [call EXCEPT ![c].got = @ \cup {n}]
    BY <1>3 DEF StreamNext
  <2>2. SameAttempt(c) /\ call'[c].pc = call[c].pc /\ call'[c].got = call[c].got \cup {n}
    BY <1>1, <2>1 DEF SameAttempt, CallStates
  <2> QED
    BY <2>1, <2>2 DEF Forward
<1>4. CASE Build(c)
  <2>1. PICK fields : /\ fields.pc \in {"sending", "done"}
                      /\ fields.round = call[c].round /\ fields.attempt = call[c].attempt
                      /\ call' = [call EXCEPT ![c] = fields]
    <3> DEFINE failed == [Forgot(c) EXCEPT
                 !.pc = "done", !.result = Err("InvalidArgument", BuildError(call[c].draft))]
               built == [Forgot(c) EXCEPT
                 !.pc = "sending",
                 !.book = Book(c, call[c].draft, call[c].round, After(call[c].got))]
    <3>1. call' = [call EXCEPT ![c] = failed] \/ call' = [call EXCEPT ![c] = built]
      BY <1>4 DEF Build
    <3>2. /\ failed.pc = "done" /\ built.pc = "sending"
          /\ failed.round = call[c].round /\ failed.attempt = call[c].attempt
          /\ built.round = call[c].round /\ built.attempt = call[c].attempt
      BY <1>1 DEF Forgot, CallStates
    <3> HIDE DEF failed, built
    <3> QED
      BY <3>1, <3>2
  <2>2. SameAttempt(c) /\ call[c].pc = "read" /\ call'[c].pc \in {"sending", "done"}
    BY <1>1, <1>4, <2>1 DEF Build, At, SameAttempt
  <2> QED
    BY <2>2 DEF Forward, Stage
<1>5. CASE Send(c)
  <2>1. SameAttempt(c) /\ call[c].pc = "sending" /\ call'[c].pc = "waiting"
    BY <1>1, <1>5 DEF Send, At, SameAttempt, CallStates
  <2> QED
    BY <2>1 DEF Forward, Stage
<1>6. CASE Succeed(c) \/ Retry(c)
  <2>1. call'[c].round = call[c].round /\ call'[c].attempt = call[c].attempt + 1
    BY <1>1, <1>6 DEF Succeed, Retry, CallStates
  <2> QED
    BY <1>0, <2>1 DEF Forward
<1>7. CASE StartOver(c)
  <2>1. call'[c].round = call[c].round + 1
    BY <1>1, <1>7 DEF StartOver, CallStates
  <2> QED
    BY <1>0, <2>1 DEF Forward
<1> QED
  BY <1>2, <1>3, <1>4, <1>5, <1>6, <1>7 DEF Step

\* Nothing that the network, the coordinator or another program does throws a
\* program back.
LEMMA NeverBack ==
  ASSUME IInv, Next, NEW c \in Callers
  PROVE  Forward(c) \/ (StandsStill(c) /\ ~Step(c))
<1>1. /\ TypeOK /\ call[c] \in CallStates /\ call \in [Callers -> CallStates]
  BY DEF IInv, TypeOK
<1>2. CASE Step(c) \/ ReadFails(c)
  BY <1>1, <1>2, StepsForward
<1> SUFFICES ASSUME ~Step(c), ~ReadFails(c) PROVE Forward(c) \/ StandsStill(c)
  BY <1>2
<1>3. CASE call'[c] = call[c]
  BY <1>3 DEF StandsStill, SameAttempt
<1>4. CASE Break(c)
  <2>1. /\ SameAttempt(c) /\ call'[c].got = call[c].got
        /\ call[c].pc \in {"waiting", "answered"} /\ call'[c].pc = "answered"
    BY <1>1, <1>4 DEF Break, At, SameAttempt, CallStates
  <2> QED
    BY <2>1 DEF Forward, StandsStill, Stage
<1>5. CASE \E r \in reqs : Serve(r)
  <2>1. PICK r, answer : r \in reqs /\ call' = Answered(r, answer)
    BY <1>5 DEF Serve, Accept, Conflict, Reject
  <2>2. CASE r.caller = c /\ call' # call
    <3>1. At(c, "waiting") /\ call' = [call EXCEPT ![c].pc = "answered", ![c].result = answer]
      BY <2>1, <2>2 DEF Answered
    <3>2. SameAttempt(c) /\ call[c].pc = "waiting" /\ call'[c].pc = "answered"
      BY <1>1, <3>1 DEF At, SameAttempt, CallStates
    <3> QED
      BY <3>2 DEF Forward, Stage
  <2>3. CASE r.caller # c \/ call' = call
    <3>1. call'[c] = call[c]
      BY <1>1, <2>1, <2>3 DEF Answered
    <3> QED
      BY <1>3, <3>1
  <2> QED
    BY <2>2, <2>3
<1>6. CASE \E u \in Callers : u # c /\ (Step(u) \/ ReadFails(u) \/ Break(u))
  <2>1. PICK u \in Callers : u # c /\ (Step(u) \/ ReadFails(u) \/ Break(u))
    BY <1>6
  <2>2. Others(u) \/ Send(u) \/ Succeed(u) \/ Retry(u) \/ StartOver(u) \/ Break(u)
    BY <1>1, <2>1, ReadingStep, BuildStep DEF Step
  <2>3. call'[c] = call[c]
    BY <1>1, <2>1, <2>2 DEF Send, Succeed, Retry, StartOver, Break, Others
  <2> QED
    BY <1>3, <2>3
<1> QED
  BY <1>4, <1>5, <1>6 DEF Next

\* A request that is waited for is lost only with the connection.
LEMMA StillPending ==
  ASSUME IInv, Pending, Next
  PROVE  Pending'
<1> SUFFICES ASSUME NEW c \in Callers, At(c, "waiting")' PROVE Request(c)' \in reqs'
  BY DEF Pending
<1>1. /\ TypeOK /\ call[c] \in CallStates /\ call \in [Callers -> CallStates]
  BY DEF IInv, TypeOK
<1>2. CASE Send(c)
  <2>1. Request(c)' = Request(c) /\ reqs' = reqs \cup {Request(c)}
    BY <1>1, <1>2 DEF Send, Request, CallStates
  <2> QED
    BY <2>1
<1>3. CASE (Step(c) /\ ~Send(c)) \/ ReadFails(c) \/ Break(c)
  <2>1. \/ call'[c].pc \in {"asking", "streaming", "read", "done", "sending"}
        \/ Succeed(c) \/ Retry(c) \/ StartOver(c) \/ Break(c)
    BY <1>1, <1>3, ReadingStep, BuildStep DEF Step
  <2>2. call'[c].pc # "waiting"
    BY <1>1, <2>1 DEF Succeed, Retry, StartOver, Break, CallStates
  <2> QED
    BY <2>2 DEF At
<1>4. CASE \E r \in reqs : Serve(r)
  <2>1. PICK r \in reqs : Serve(r)
    BY <1>4
  <2>2. PICK answer \in Results : call' = Answered(r, answer) /\ reqs' = reqs \ {r}
    BY <2>1, ErrorTypes DEF Serve, Accept, Conflict, Reject
  <2>3. CASE r.caller = c
    <3>1. call' = call
      BY <2>2, <2>3, AnswerStep DEF At
    <3>2. r # Request(c)
      BY <1>1, <2>2, <2>3, <3>1 DEF Answered, Request, At
    <3> QED
      BY <2>2, <3>1, <3>2 DEF Pending, At, Request
  <2>4. CASE r.caller # c
    <3>1. call'[c] = call[c]
      BY <1>1, <2>2, <2>4 DEF Answered
    <3>2. r # Request(c)
      BY <2>4 DEF Request
    <3> QED
      BY <2>2, <3>1, <3>2 DEF Pending, At, Request
  <2> QED
    BY <2>3, <2>4
<1>5. CASE \E u \in Callers : u # c /\ (Step(u) \/ ReadFails(u) \/ Break(u))
  <2>1. PICK u \in Callers : u # c /\ (Step(u) \/ ReadFails(u) \/ Break(u))
    BY <1>5
  <2>2. (Others(u) /\ reqs' = reqs) \/ Send(u) \/ Succeed(u) \/ Retry(u) \/ StartOver(u) \/ Break(u)
    BY <1>1, <2>1, ReadingStep, BuildStep DEF Step
  <2>3. call'[c] = call[c]
    BY <1>1, <2>1, <2>2 DEF Send, Succeed, Retry, StartOver, Break, Others
  <2>4. \A r \in reqs : r.caller = c => r \in reqs'
    BY <2>1, <2>2 DEF Send, Succeed, Retry, StartOver, Break
  <2> QED
    BY <2>3, <2>4 DEF Pending, At, Request
<1> QED
  BY <1>2, <1>3, <1>4, <1>5 DEF Next

\* No program is left waiting for an answer that nobody can give, and each of
\* its steps takes it further, whatever the others do: the safety behind
\* EveryCallReturns, for any number of programs, attempts and rounds.
THEOREM CallsMoveForward ==
  Spec => /\ []Pending
          /\ [][\A c \in Callers : Forward(c) \/ (StandsStill(c) /\ ~Step(c))]_vars
<1> DEFINE Moved == \A c \in Callers : Forward(c) \/ (StandsStill(c) /\ ~Step(c))
<1>1. Init => Pending
  BY DEF Init, Pending, At
<1>2. IInv /\ Pending /\ [Next]_vars => Pending'
  <2>1. UNCHANGED vars /\ Pending => Pending'
    BY DEF vars, Pending, At, Request
  <2> QED
    BY <2>1, StillPending
<1>3. IInv /\ [Next]_vars => [Moved]_vars
  BY NeverBack
<1> HIDE DEF Moved
<1>4. Spec => []Pending /\ [][Moved]_vars
  BY <1>1, <1>2, <1>3, Invariance, PTL DEF Spec
<1> QED
  BY <1>4 DEF Moved

-----------------------------------------------------------------------------
(* Chains of QueryBuilder calls of any length.                             *)

\* Induction over the naturals, for a set: were n missing from S, then x -> x + 1
\* would map what S has up to n into itself, and miss 0.
LEMMA SetInduction ==
  ASSUME NEW S, 0 \in S, \A n \in Nat : n \in S => n + 1 \in S
  PROVE  \A n \in Nat : n \in S
<1> SUFFICES ASSUME NEW n \in Nat, n \notin S PROVE FALSE
  OBVIOUS
<1> DEFINE T == S \cap (0 .. n)
           f == [x \in T |-> x + 1]
<1>1. IsFiniteSet(T)
  <2>1. IsFiniteSet(0 .. n)
    BY FS_Interval
  <2> QED
    BY <2>1, FS_Subset
<1>2. 0 \in T
  OBVIOUS
<1>3. f \in Injection(T, T \ {0})
  <2>1. \A x \in T : x + 1 \in T \ {0}
    OBVIOUS
  <2> QED
    BY <2>1 DEF Injection, IsInjective
<1> HIDE DEF T
<1>4. IsFiniteSet(T \ {0}) /\ Cardinality(T \ {0}) = Cardinality(T) - 1
  BY <1>1, <1>2, FS_RemoveElement
<1>5. Cardinality(T) <= Cardinality(T \ {0})
  BY <1>3, <1>4, FS_Injection
<1>6. Cardinality(T) \in Nat
  BY <1>1, FS_CardinalityType
<1> QED
  BY <1>4, <1>5, <1>6

\* The queries of a chain, one after each of its calls.
LEMMA QueriesUnfold ==
  ASSUME NEW chain, Len(chain) \in Nat
  PROVE  \E g : /\ QueryOf(chain) = g[Len(chain)] /\ g[0] = NewQuery
                /\ \A k \in 1 .. Len(chain) : g[k] = Selecting(g[k - 1], chain[k])
<1> DEFINE Unfolds(g, n) ==
             g = [k \in 0 .. n |-> IF k = 0 THEN NewQuery ELSE Selecting(g[k - 1], chain[k])]
           S == {n \in Nat : \E g : Unfolds(g, n)}
<1>1. 0 \in S
  <2> DEFINE g == [k \in 0 .. 0 |-> NewQuery]
  <2>1. Unfolds(g, 0)
    OBVIOUS
  <2> QED
    BY <2>1
<1>2. ASSUME NEW n \in Nat, n \in S PROVE n + 1 \in S
  <2>1. PICK g : Unfolds(g, n)
    BY <1>2
  <2> DEFINE e == [k \in 0 .. n + 1 |-> IF k = n + 1 THEN Selecting(g[n], chain[n + 1]) ELSE g[k]]
  <2>2. \A k \in 0 .. n : e[k] = g[k]
    OBVIOUS
  <2>3. ASSUME NEW k \in 0 .. n + 1
        PROVE  e[k] = IF k = 0 THEN NewQuery ELSE Selecting(e[k - 1], chain[k])
    <3>1. CASE k = n + 1
      <4>1. e[k] = Selecting(g[n], chain[k]) /\ e[k - 1] = g[n] /\ k # 0
        BY <2>2, <3>1
      <4> QED
        BY <4>1
    <3>2. CASE k # n + 1
      <4>1. k \in 0 .. n /\ e[k] = g[k]
        BY <2>2, <3>2
      <4>2. g[k] = IF k = 0 THEN NewQuery ELSE Selecting(g[k - 1], chain[k])
        BY <2>1, <4>1
      <4>3. k # 0 => e[k - 1] = g[k - 1]
        BY <2>2, <4>1
      <4> QED
        BY <4>1, <4>2, <4>3
    <3> QED
      BY <3>1, <3>2
  <2>4. e = [k \in 0 .. n + 1 |-> e[k]]
    OBVIOUS
  <2> HIDE DEF e
  <2>5. Unfolds(e, n + 1)
    BY <2>3, <2>4
  <2> QED
    BY <2>5
<1> HIDE DEF S
<1>3. \A n \in Nat : n \in S
  BY <1>1, <1>2, SetInduction
<1> DEFINE after == CHOOSE g : Unfolds(g, Len(chain))
<1>4. Unfolds(after, Len(chain))
  BY <1>3 DEF S
<1>5. QueryOf(chain) = after[Len(chain)]
  BY DEF QueryOf
<1> HIDE DEF after
<1> QED
  BY <1>4, <1>5

Correlates(step) == step.by = "correlation"
Unparsed(step)   == step.by = "time" /\ ~step.valid
Selects(step)    == ~Correlates(step) /\ ~Unparsed(step)

\* Call k of a chain is the last of the first n for which P holds.
LastCorrelates(chain, n, k) ==
  Correlates(chain[k]) /\ \A l \in k + 1 .. n : ~Correlates(chain[l])
LastSelects(chain, n, k) ==
  Selects(chain[k]) /\ \A l \in k + 1 .. n : ~Selects(chain[l])

\* Queries by what correlations and selections they have.
Queries(Is, Ss) == [root : BOOLEAN, id : Is, selection : Ss, failed : BOOLEAN]

\* What the first n calls of a chain make of a new query.
Selection(chain, n, q) ==
  /\ \E Is, Ss : q \in Queries(Is, Ss)
  /\ q.failed <=> \E k \in 1 .. n : Unparsed(chain[k])
  /\ q.root <=> \A k \in 1 .. n : ~Correlates(chain[k])
  /\ q.root => q.id = <<>>
  /\ \A k \in 1 .. n : LastCorrelates(chain, n, k) => q.id = chain[k].id
  /\ (\A k \in 1 .. n : ~Selects(chain[k])) => q.selection = [by |-> "all"]
  /\ \A k \in 1 .. n : LastSelects(chain, n, k) => q.selection = chain[k]

\* One call more: each kind of call changes its part of the query.
LEMMA SelectionGoesOn ==
  ASSUME NEW chain, NEW n \in Nat, NEW q, Selection(chain, n, q),
         NEW step, step = chain[n + 1], NEW p, p = Selecting(q, step)
  PROVE  Selection(chain, n + 1, p)
<1>1. PICK Is, Ss : q \in Queries(Is, Ss)
  BY DEF Selection
<1>2. /\ p \in Queries(Is \cup {step.id}, Ss \cup {step})
      /\ p.root = IF Correlates(step) THEN FALSE ELSE q.root
      /\ p.id = IF Correlates(step) THEN step.id ELSE q.id
      /\ p.selection = IF Selects(step) THEN step ELSE q.selection
      /\ p.failed = IF Unparsed(step) THEN TRUE ELSE q.failed
  <2> USE DEF Queries, Correlates, Unparsed, Selects
  <2>1. CASE step.by = "correlation"
    <3>1. p = [q EXCEPT !.id = step.id, !.root = FALSE]
      BY <2>1, Zenon DEF Selecting
    <3> QED
      BY <1>1, <2>1, <3>1
  <2>2. CASE step.by = "time" /\ ~step.valid
    <3>1. p = [q EXCEPT !.failed = TRUE]
      BY <2>2, Zenon DEF Selecting
    <3> QED
      BY <1>1, <2>2, <3>1
  <2>3. CASE step.by # "correlation" /\ ~(step.by = "time" /\ ~step.valid)
    <3>1. p = [q EXCEPT !.selection = step]
      BY <2>3, Zenon DEF Selecting
    <3> QED
      BY <1>1, <2>3, <3>1
  <2> QED
    BY <2>1, <2>2, <2>3, Zenon
<1>3. /\ q.failed <=> \E k \in 1 .. n : Unparsed(chain[k])
      /\ q.root <=> \A k \in 1 .. n : ~Correlates(chain[k])
      /\ q.root => q.id = <<>>
      /\ \A k \in 1 .. n : LastCorrelates(chain, n, k) => q.id = chain[k].id
      /\ (\A k \in 1 .. n : ~Selects(chain[k])) => q.selection = [by |-> "all"]
      /\ \A k \in 1 .. n : LastSelects(chain, n, k) => q.selection = chain[k]
  BY DEF Selection
<1>4. /\ \A k \in 1 .. n + 1 : k \in 1 .. n \/ k = n + 1
      /\ n + 1 \in 1 .. n + 1 /\ 1 .. n \subseteq 1 .. n + 1
  OBVIOUS
<1>5. ASSUME NEW k \in 1 .. n
      PROVE  /\ LastCorrelates(chain, n + 1, k) <=>
                  LastCorrelates(chain, n, k) /\ ~Correlates(step)
             /\ LastSelects(chain, n + 1, k) <=> LastSelects(chain, n, k) /\ ~Selects(step)
  <2>1. /\ \A l \in k + 1 .. n + 1 : l \in k + 1 .. n \/ l = n + 1
        /\ n + 1 \in k + 1 .. n + 1 /\ k + 1 .. n \subseteq k + 1 .. n + 1
    OBVIOUS
  <2> QED
    BY <2>1 DEF LastCorrelates, LastSelects
<1>6. /\ (\E k \in 1 .. n + 1 : Unparsed(chain[k])) <=> q.failed \/ Unparsed(step)
      /\ (\A k \in 1 .. n + 1 : ~Correlates(chain[k])) <=> q.root /\ ~Correlates(step)
      /\ (\A k \in 1 .. n + 1 : ~Selects(chain[k])) <=>
           (\A k \in 1 .. n : ~Selects(chain[k])) /\ ~Selects(step)
  BY <1>3, <1>4
<1>7. /\ LastCorrelates(chain, n + 1, n + 1) => Correlates(step)
      /\ LastSelects(chain, n + 1, n + 1) => Selects(step)
  BY DEF LastCorrelates, LastSelects
<1>9. \A k \in 1 .. n + 1 : LastCorrelates(chain, n + 1, k) => p.id = chain[k].id
  BY <1>2, <1>3, <1>4, <1>5, <1>7
<1>10. \A k \in 1 .. n + 1 : LastSelects(chain, n + 1, k) => p.selection = chain[k]
  BY <1>2, <1>3, <1>4, <1>5, <1>7
<1>11. /\ p.failed <=> q.failed \/ Unparsed(step)
       /\ p.root <=> q.root /\ ~Correlates(step)
       /\ p.root => p.id = <<>>
  BY <1>2, <1>3
<1> QED
  BY <1>2, <1>3, <1>6, <1>9, <1>10, <1>11 DEF Selection

\* QueryBuilder, for a chain of any length: the last selection replaces the
\* others, the last correlation replaces the root, the two do not touch each
\* other, and one time that does not parse fails the query whatever follows it.
THEOREM LastSelectionWins ==
  ASSUME NEW Calls, NEW chain \in Seq(Calls)
  PROVE  Selection(chain, Len(chain), QueryOf(chain))
<1>1. Len(chain) \in Nat
  OBVIOUS
<1>2. PICK g : /\ QueryOf(chain) = g[Len(chain)] /\ g[0] = NewQuery
               /\ \A k \in 1 .. Len(chain) : g[k] = Selecting(g[k - 1], chain[k])
  BY <1>1, QueriesUnfold
<1> DEFINE S == {n \in Nat : n <= Len(chain) => Selection(chain, n, g[n])}
<1>3. 0 \in S
  <2>1. Selection(chain, 0, NewQuery)
    <3>1. 1 .. 0 = {}
      OBVIOUS
    <3>2. NewQuery \in Queries({<<>>}, {[by |-> "all"]})
      BY DEF NewQuery, Queries
    <3>3. /\ NewQuery.root = TRUE /\ NewQuery.failed = FALSE /\ NewQuery.id = <<>>
          /\ NewQuery.selection = [by |-> "all"]
      BY DEF NewQuery
    <3> QED
      BY <3>1, <3>2, <3>3 DEF Selection
  <2> QED
    BY <1>2, <2>1
<1>4. ASSUME NEW n \in Nat, n \in S PROVE n + 1 \in S
  <2> SUFFICES ASSUME n + 1 <= Len(chain) PROVE Selection(chain, n + 1, g[n + 1])
    OBVIOUS
  <2>1. Selection(chain, n, g[n])
    BY <1>1, <1>4
  <2>2. n + 1 \in 1 .. Len(chain) /\ (n + 1) - 1 = n
    BY <1>1
  <2>3. g[n + 1] = Selecting(g[n], chain[n + 1])
    BY <1>2, <2>2
  <2> QED
    BY <2>1, <2>3, SelectionGoesOn
<1> HIDE DEF S
<1>5. Len(chain) \in S
  BY <1>1, <1>3, <1>4, SetInduction
<1> QED
  BY <1>1, <1>2, <1>5 DEF S
===============================================================================
