----------------------------- MODULE CommandClient -----------------------------
(***************************************************************************)
(* A program that changes an aggregate through this crate: it reads events *)
(* with a QueryBuilder, builds a command with a CommandBuilder (builder.rs)*)
(* for the sequence after the last event it read, sends it through a       *)
(* CommandHandlerClient, DomainClient or SpeculativeClient (client.rs)     *)
(* under RetryPolicy::execute (retry.rs), and decides with the predicates  *)
(* of ClientError (error.rs) whether to read again and start over.         *)
(*                                                                         *)
(* External: the coordinator, which appends a command to the history or    *)
(* answers with a status, and the network, which loses and delays requests *)
(* and answers; whoever waits then sees UNAVAILABLE.                       *)
(***************************************************************************)
EXTENDS Integers, Sequences

CONSTANTS
  Callers,      \* programs that work on one aggregate
  Chains,       \* chains of QueryBuilder calls that they read with
  Drafts,       \* Drafts[c]: what program c may set on a CommandBuilder
  MaxAttempts,  \* max_attempts of their policy
  MaxRounds,    \* bound: times a program starts over
  MaxLog        \* bound: length of the history

Strategies == {"commutative", "strict", "aggregate_handles"}

ASSUME CommandClientAssumption ==
  /\ MaxAttempts \in Nat \ {0}  \* RetryPolicy::execute asserts it
  /\ MaxRounds \in Nat \ {0} /\ MaxLog \in Nat
  /\ \A c \in Callers : \A d \in Drafts[c] :
       /\ {d.command, d.sequence, d.dry} \subseteq BOOLEAN
       /\ d.strategy \in Strategies \cup {"default"}

VARIABLES
  log,   \* the events of the aggregate: who wrote each, under which correlation
  reqs,  \* requests on their way to the coordinator
  call   \* call[c]: where program c is

vars == <<log, reqs, call>>

-----------------------------------------------------------------------------
(* error.rs                                                                *)

Ok == [ok |-> TRUE]
Err(variant, code) == [ok |-> FALSE, variant |-> variant, code |-> code]

\* From<Status> for ClientError.
Grpc(code) == Err("Grpc", code)

\* Mutant of IsConnectionError: a status is never a transport failure.
IsConnectionError_LocalOnly(e) == e.variant \in {"Connection", "Transport"}

\* ClientError::is_connection_error and is_precondition_failed.
IsConnectionError(e) ==
  \/ e.variant \in {"Connection", "Transport"}
  \/ e.variant = "Grpc" /\ e.code = "UNAVAILABLE"
IsPreconditionFailed(e) ==
  e.variant \in {"Grpc", "Rejected"} /\ e.code = "FAILED_PRECONDITION"

\* From<CommandRejectedError> for Status: the statuses of business rejections.
StatusOf(rejected) ==
  CASE rejected = "INVALID_ARGUMENT" -> "INVALID_ARGUMENT"
    [] rejected = "NOT_FOUND"        -> "NOT_FOUND"
    [] OTHER                         -> "FAILED_PRECONDITION"

-----------------------------------------------------------------------------
(* builder.rs                                                              *)

\* QueryBuilder::new, of query(domain, root): the whole history.
NewQuery == [root |-> TRUE, id |-> <<>>, selection |-> [by |-> "all"], failed |-> FALSE]

\* The calls of a QueryBuilder; the last selection replaces the others, and
\* as_of_time fails on what is not a timestamp.
Selecting(q, step) ==
  CASE step.by = "correlation"          -> [q EXCEPT !.id = step.id, !.root = FALSE]
    [] step.by = "time" /\ ~step.valid  -> [q EXCEPT !.failed = TRUE]
    [] OTHER                            -> [q EXCEPT !.selection = step]

QueryOf(chain) ==
  LET after[n \in 0 .. Len(chain)] ==
        IF n = 0 THEN NewQuery ELSE Selecting(after[n - 1], chain[n])
  IN  after[Len(chain)]

\* The sequences that a query selects (external: the event store).
Selected(q) ==
  {n \in 0 .. Len(log) - 1 :
     /\ q.root \/ log[n + 1].id = q.id
     /\ q.selection.by = "range"    => n >= q.selection.lower
     /\ q.selection.by = "range_to" => n \in q.selection.lower .. q.selection.upper
     /\ q.selection.by = "sequence" => n <= q.selection.seq}

\* Mutant of Strategy: the handler is trusted with conflicts unless told not to.
Strategy_Handles(d) == IF d.strategy = "default" THEN "aggregate_handles" ELSE d.strategy

\* CommandBuilder::with_merge_strategy, or its default.
Strategy(d) == IF d.strategy = "default" THEN "commutative" ELSE d.strategy

\* CommandBuilder::build fails without a command or a sequence.
BuildError(d) ==
  CASE ~d.command                -> "COMMAND_TYPE_URL_MISSING"
    [] d.command /\ ~d.sequence  -> "COMMAND_SEQUENCE_MISSING"
    [] OTHER                     -> "none"

\* CommandBuilder::build, in a round of program c: a correlation id that is not
\* given is new.
Book(c, d, round, seq) ==
  [seq |-> seq, strategy |-> Strategy(d),
   id |-> IF d.id = <<>> THEN <<"new", c, round>> ELSE d.id]

\* The sequence after the last event that a program got.
After(got) == IF got = {} THEN 0 ELSE (CHOOSE n \in got : \A k \in got : k <= n) + 1

-----------------------------------------------------------------------------
(* Reads (QueryClient).                                                    *)

At(c, pc) == call[c].pc = pc

\* The program is done with what it read.
Forgot(c) == [call[c] EXCEPT !.query = NewQuery, !.got = {}, !.seen = 0]

\* A program reads with a chain of builder calls: get_events streams,
\* get_event_book does not.  seen is a history variable: the length of the log.
Read(c) ==
  /\ At(c, "start")
  /\ \E chain \in Chains :
       LET q == QueryOf(chain) IN
       \/ /\ q.failed
          /\ call' = [call EXCEPT ![c].pc = "done",
                                  ![c].result = Err("InvalidTimestamp", "INVALID")]
       \/ /\ ~q.failed
          /\ \E pc \in {"asking", "streaming"} :
               call' = [call EXCEPT ![c].pc = pc, ![c].query = q, ![c].got = {},
                                 ![c].seen = Len(log)]
  /\ UNCHANGED <<log, reqs>>

\* get_event_book: one answer.
GetEventBook(c) ==
  /\ At(c, "asking")
  /\ call' = [call EXCEPT ![c].pc = "read", ![c].got = Selected(call[c].query)]
  /\ UNCHANGED <<log, reqs>>

\* get_events: the stream yields what comes next.
StreamNext(c) ==
  /\ At(c, "streaming")
  /\ \E n \in Selected(call[c].query) \ call[c].got :
       /\ \A k \in Selected(call[c].query) \ call[c].got : n <= k
       /\ call' = [call EXCEPT ![c].got = @ \cup {n}]
  /\ UNCHANGED <<log, reqs>>

\* get_events: the stream ends, and what it yielded is the answer.
StreamEnd(c) ==
  /\ At(c, "streaming")
  /\ Selected(call[c].query) \subseteq call[c].got
  /\ call' = [call EXCEPT ![c].pc = "read"]
  /\ UNCHANGED <<log, reqs>>

\* Mutant of ReadFails: what the stream yielded before it broke is an answer.
ReadFails_Keeps(c) ==
  /\ At(c, "asking") \/ At(c, "streaming")
  /\ call' = [call EXCEPT ![c].pc = "read"]
  /\ UNCHANGED <<log, reqs>>

\* The connection breaks: an error, and with it goes what the stream yielded.
ReadFails(c) ==
  /\ At(c, "asking") \/ At(c, "streaming")
  /\ call' = [call EXCEPT ![c] = [Forgot(c) EXCEPT !.pc = "done", !.result = Grpc("UNAVAILABLE")]]
  /\ UNCHANGED <<log, reqs>>

-----------------------------------------------------------------------------
(* Commands.                                                               *)

\* CommandBuilder::build.
Build(c) ==
  /\ At(c, "read")
  /\ LET d == call[c].draft IN
     IF BuildError(d) # "none"
     THEN call' = [call EXCEPT ![c] = [Forgot(c) EXCEPT
            !.pc = "done", !.result = Err("InvalidArgument", BuildError(d))]]
     ELSE call' = [call EXCEPT ![c] = [Forgot(c) EXCEPT
            !.pc = "sending", !.book = Book(c, d, call[c].round, After(call[c].got))]]
  /\ UNCHANGED <<log, reqs>>

\* What DomainClient::execute makes of the book: a CommandRequest, or for a
\* draft that is dry a speculative one.
Request(c) ==
  [caller |-> c, round |-> call[c].round, attempt |-> call[c].attempt,
   book |-> call[c].book, dry |-> call[c].draft.dry]

\* One attempt of RetryPolicy::execute: the same book every time.
Send(c) ==
  /\ At(c, "sending")
  /\ reqs' = reqs \cup {Request(c)}
  /\ call' = [call EXCEPT ![c].pc = "waiting"]
  /\ UNCHANGED log

\* The answer to a request reaches whoever still waits for it.
Answered(r, answer) ==
  IF /\ At(r.caller, "waiting")
     /\ call[r.caller].round = r.round /\ call[r.caller].attempt = r.attempt
  THEN [call EXCEPT ![r.caller].pc = "answered", ![r.caller].result = answer]
  ELSE call

\* The coordinator checks the sequence unless the aggregate handles conflicts.
InSequence(r) == r.book.strategy = "aggregate_handles" \/ r.book.seq = Len(log)

\* The coordinator appends the event of a command, unless it is speculative.
Accept(r) ==
  /\ InSequence(r) /\ Len(log) < MaxLog
  /\ reqs' = reqs \ {r}
  /\ log' = IF r.dry THEN log ELSE Append(log, [by |-> r.caller, id |-> r.book.id])
  /\ call' = Answered(r, Ok)

\* The sequence is not the next one.
Conflict(r) ==
  /\ ~InSequence(r)
  /\ reqs' = reqs \ {r}
  /\ call' = Answered(r, Grpc(IF r.book.strategy = "strict" THEN "ABORTED"
                                                            ELSE "FAILED_PRECONDITION"))
  /\ UNCHANGED log

\* Business logic rejects the command.
Reject(r) ==
  /\ InSequence(r)
  /\ reqs' = reqs \ {r}
  /\ \E rejected \in {"FAILED_PRECONDITION", "NOT_FOUND"} :
       call' = Answered(r, Grpc(StatusOf(rejected)))
  /\ UNCHANGED log

\* The connection breaks: the request is lost, or late, or its answer is lost.
Break(c) ==
  /\ At(c, "waiting") \/ At(c, "answered")
  /\ \E lost \in SUBSET {r \in reqs : r.caller = c /\ r.round = call[c].round
                                     /\ r.attempt = call[c].attempt} :
       reqs' = reqs \ lost
  /\ call' = [call EXCEPT ![c].pc = "answered", ![c].result = Grpc("UNAVAILABLE")]
  /\ UNCHANGED log

\* execute returns the first Ok.
Succeed(c) ==
  /\ At(c, "answered") /\ call[c].result.ok
  /\ call' = [call EXCEPT ![c].pc = "done", ![c].attempt = @ + 1]
  /\ UNCHANGED <<log, reqs>>

\* Mutant of Retry: one attempt more.
Retry_OneMore(c) ==
  /\ At(c, "answered") /\ ~call[c].result.ok
  /\ call' = [call EXCEPT
       ![c].pc = IF call[c].attempt + 1 > MaxAttempts THEN "done" ELSE "sending",
       ![c].attempt = @ + 1,
       ![c].doubt = @ \/ IsConnectionError(call[c].result)]
  /\ UNCHANGED <<log, reqs>>

\* Mutant of Retry: a failed connection does not count as an attempt.
Retry_Uncounted(c) ==
  /\ At(c, "answered") /\ ~call[c].result.ok
  /\ LET n == IF IsConnectionError(call[c].result) THEN 0 ELSE 1 IN
     call' = [call EXCEPT
       ![c].pc = IF call[c].attempt + n >= MaxAttempts THEN "done" ELSE "sending",
       ![c].attempt = @ + n,
       ![c].doubt = @ \/ IsConnectionError(call[c].result)]
  /\ UNCHANGED <<log, reqs>>

\* execute tries again after any error, or returns the last one.  The program
\* remembers whether an attempt ended without an answer.
Retry(c) ==
  /\ At(c, "answered") /\ ~call[c].result.ok
  /\ call' = [call EXCEPT
       ![c].pc = IF call[c].attempt + 1 >= MaxAttempts THEN "done" ELSE "sending",
       ![c].attempt = @ + 1,
       ![c].doubt = @ \/ IsConnectionError(call[c].result)]
  /\ UNCHANGED <<log, reqs>>

\* The program starts over: the command was refused for the state it found,
\* and every attempt was answered.
StartOver(c) ==
  /\ At(c, "done") /\ call[c].round < MaxRounds
  /\ ~call[c].result.ok /\ IsPreconditionFailed(call[c].result) /\ ~call[c].doubt
  /\ call' = [call EXCEPT ![c].pc = "start", ![c].round = @ + 1, ![c].attempt = 0]
  /\ UNCHANGED <<log, reqs>>

-----------------------------------------------------------------------------
Init ==
  /\ log = <<>> /\ reqs = {}
  /\ \E draft \in {f \in [Callers -> UNION {Drafts[c] : c \in Callers}] :
                     \A c \in Callers : f[c] \in Drafts[c]} :
       call = [c \in Callers |->
         [pc |-> "start", draft |-> draft[c], query |-> NewQuery, got |-> {}, seen |-> 0,
          book |-> [seq |-> 0, strategy |-> "commutative", id |-> <<>>],
          attempt |-> 0, doubt |-> FALSE, result |-> Ok, round |-> 1]]

Step(c) ==
  \/ Read(c) \/ GetEventBook(c) \/ StreamNext(c) \/ StreamEnd(c)
  \/ Build(c) \/ Send(c) \/ Succeed(c) \/ Retry(c) \/ StartOver(c)
Serve(r) == Accept(r) \/ Conflict(r) \/ Reject(r)

Next ==
  \/ \E c \in Callers : Step(c) \/ ReadFails(c) \/ Break(c)
  \/ \E r \in reqs : Serve(r)

Spec == Init /\ [][Next]_vars

\* Programs are scheduled, and what the coordinator receives it answers; no
\* method of the clients sets a deadline.
Fairness ==
  \A c \in Callers :
    WF_vars(Step(c)) /\ WF_vars(\E r \in reqs : r.caller = c /\ Serve(r))

FairSpec == Spec /\ Fairness

-----------------------------------------------------------------------------
(* Properties.                                                             *)

Codes == {"UNAVAILABLE", "ABORTED", "FAILED_PRECONDITION", "NOT_FOUND", "INVALID_ARGUMENT",
          "INVALID", "COMMAND_TYPE_URL_MISSING", "COMMAND_SEQUENCE_MISSING"}
Results ==
  {Ok} \cup [ok : {FALSE}, variant : {"Grpc", "InvalidArgument", "InvalidTimestamp"}, code : Codes]

Ids ==
  {<<>>} \cup {<<"new", c, n>> : c \in Callers, n \in 1 .. MaxRounds}
         \cup UNION {{d.id : d \in Drafts[c]} : c \in Callers}
Reads == SUBSET (0 .. MaxLog - 1)
Books == [seq : {After(got) : got \in Reads}, strategy : Strategies, id : Ids]

CallStates ==
  [pc      : {"start", "asking", "streaming", "read", "sending", "waiting", "answered", "done"},
   draft   : UNION {Drafts[c] : c \in Callers},
   query   : {NewQuery} \cup {QueryOf(chain) : chain \in Chains},
   got     : Reads,
   seen    : Nat,
   book    : Books,
   attempt : 0 .. MaxAttempts,
   doubt   : BOOLEAN,
   result  : Results,
   round   : 1 .. MaxRounds]

\* Every variable has its type (a program's builder, book and last result).
TypeOK ==
  /\ log \in Seq([by : Callers, id : Ids]) /\ Len(log) <= MaxLog
  /\ reqs \subseteq
       [caller : Callers, round : 1 .. MaxRounds, attempt : 0 .. MaxAttempts - 1,
        book : Books, dry : BOOLEAN]
  /\ call \in [Callers -> CallStates]
  /\ \A c \in Callers : call[c].draft \in Drafts[c]

\* RetryPolicy::execute is a bounded retry, whatever the network and the other
\* programs do between attempts.
Executed(c) == At(c, "done") /\ call[c].attempt > 0
Retried(c) == INSTANCE BoundedRetry WITH
  limit    <- MaxAttempts,
  hopeless <- FALSE,
  tries    <- call[c].attempt,
  outcome  <- CASE ~Executed(c)                        -> "none"
                [] Executed(c) /\ call[c].result.ok   -> "ok"
                [] Executed(c) /\ ~call[c].result.ok  -> "failed"
RetrySpec ==
  /\ \A c \in Callers : Retried(c)!Init
  /\ [][\A c \in Callers : [Retried(c)!Next]_(Retried(c)!vars)]_vars

\* A program's command takes effect at most once, and right after the events it
\* was built on, whatever is lost, late or tried again, unless its book leaves
\* conflicts to the aggregate: the sequence of CommandBuilder makes all attempts
\* one, and a program that starts over only when is_precondition_failed answers
\* it and no attempt ended in an is_connection_error adds no second.
AppliedAtMostOnce ==
  \A c \in Callers : call[c].draft.strategy # "aggregate_handles" =>
    \A i \in DOMAIN log : log[i].by = c => i = call[c].book.seq + 1

\* What execute returns is what happened: after an Ok the command is in the
\* history, and after an error, when every attempt was answered, it is not and
\* no request is on its way that could still put it there.
AnswersAreTrue ==
  \A c \in Callers : Executed(c) /\ ~call[c].draft.dry =>
    /\ call[c].result.ok => \E i \in DOMAIN log : log[i].by = c
    /\ ~call[c].result.ok /\ ~call[c].doubt =>
         /\ \A i \in DOMAIN log : log[i].by # c
         /\ \A r \in reqs : r.caller # c

\* A read that succeeds is whole: it has every event that the query selects of
\* those that were there when it began, though a stream may break after each of
\* them and others write meanwhile.
ReadsAreWhole ==
  \A c \in Callers : At(c, "read") =>
    \A n \in Selected(call[c].query) :
      n \notin call[c].got => n >= call[c].seen

\* Every program comes to an end, with an answer or an error.
EveryCallReturns == \A c \in Callers : <>[]At(c, "done")
=============================================================================
