------------------------------ MODULE Connection ------------------------------
(***************************************************************************)
(* How a client gets its channel: the endpoint is resolved from arguments, *)
(* environment and defaults (transport.rs; the connect, from_env and       *)
(* for_domain constructors of client.rs), and create_channel connects to   *)
(* it under a retry policy (client.rs, retry.rs).  All four clients do the *)
(* same.  Services come and go while the client tries.                     *)
(*                                                                         *)
(* A string is the record of what the code asks of it.  Time is counted in *)
(* units of min_delay's.                                                  *)
(***************************************************************************)
EXTENDS Integers

CONSTANTS
  Calls,     \* constructor calls that are explored
  Policies,  \* retry policies; connect, from_env and for_domain use Default
  Default,   \* ExponentialBackoffRetry::default, scaled down
  Settings,  \* environments: what each variable is set to
  Unset      \* a variable that is not set, an argument that is None

Variables == {"ENDPOINT", "ANGZARR_MODE", "ANGZARR_UDS_BASE", "ANGZARR_NAMESPACE",
              "ANGZARR_CH_PORT"}

Endpoints ==
  [form : {"unix://", "unix:", "/", "./", "host", "malformed"}, at : STRING]

ASSUME ConnectionAssumption ==
  /\ Default \in Policies
  /\ Policies \subseteq
       [min : Nat, max : Nat, attempts : Nat, jitter : BOOLEAN]
  /\ \A s \in Settings : DOMAIN s = Variables
  /\ \A c \in Calls :
       \/ c.by = "connect_with_retry" /\ c.policy \in Policies
       \/ c.by \in {"from_env", "for_domain"}

VARIABLES
  env,      \* the environment of the process
  call,     \* the constructor call
  up,       \* whether a service listens where the client connects to
  attempt,  \* attempts that failed
  slept,    \* time spent in backoff
  sleeps,   \* backoff sleeps
  result    \* "none", "channel", or the code of a ClientError

vars == <<env, call, up, attempt, slept, sleeps, result>>

-----------------------------------------------------------------------------
(* transport.rs                                                            *)

IsSet(v) == env[v] # Unset

\* env var > explicit argument > default
Resolved(v, argument, default) ==
  CASE IsSet(v)                          -> env[v]
    [] ~IsSet(v) /\ argument # Unset     -> argument
    [] ~IsSet(v) /\ argument = Unset     -> default

\* TransportMode::from_env
ModeFromEnv ==
  CASE ~IsSet("ANGZARR_MODE")                                   -> "distributed"
    [] env["ANGZARR_MODE"] \in {"standalone", "distributed"}    -> env["ANGZARR_MODE"]
    [] OTHER                                                    -> "INVALID_TRANSPORT_MODE"

\* resolve_ch_endpoint: a mode that is not None is not looked up.
Mode == IF call.mode # Unset THEN call.mode ELSE ModeFromEnv

\* resolve_ch_endpoint: how it fails, and "none" if it does not.  The port is
\* only parsed in the mode that uses it.
ResolveError ==
  CASE Mode = "INVALID_TRANSPORT_MODE"                                -> Mode
    [] Mode = "distributed" /\ env["ANGZARR_CH_PORT"] = "not a port"  -> "INVALID_PORT"
    [] OTHER                                                          -> "none"

\* resolve_ch_endpoint: a socket under the base, or a name without a scheme.
ChEndpoint ==
  IF Mode = "standalone"
  THEN [form |-> "/", at |-> Resolved("ANGZARR_UDS_BASE", Unset, "/tmp/angzarr")]
  ELSE [form |-> "host", at |-> Resolved("ANGZARR_NAMESPACE", Unset, "angzarr")]

-----------------------------------------------------------------------------
(* The constructors (client.rs).                                           *)

Refused == IF call.by = "for_domain" THEN ResolveError ELSE "none"

Endpoint ==
  CASE call.by = "connect_with_retry" -> call.endpoint
    [] call.by = "from_env"           -> Resolved("ENDPOINT", Unset, call.endpoint)
    [] call.by = "for_domain"         -> ChEndpoint

Policy == IF call.by = "connect_with_retry" THEN call.policy ELSE Default

-----------------------------------------------------------------------------
(* create_channel (client.rs) and its policy (retry.rs).                   *)

\* detect_uds_path finds a socket path; everything else is TCP.
IsUds == Endpoint.form \in {"unix://", "unix:", "/", "./"}

\* Channel::from_shared refuses the URI.
IsMalformed == ~IsUds /\ Endpoint.form = "malformed"

Lesser(a, b) == IF a < b THEN a ELSE b

\* 1u128 << k
Shifted[k \in Nat] == IF k = 0 THEN 1 ELSE 2 * Shifted[k - 1]

\* compute_delay before the jitter, after attempt n, counted from zero.
Capped(p, n) == Lesser(p.min * Shifted[Lesser(n, 30)], p.max)

\* Mutant of ComputeDelay: the attempts are counted from one.
ComputeDelay_FromOne(p, n) ==
  IF p.jitter THEN (Capped(p, n + 1) \div 2) .. Capped(p, n + 1) ELSE {Capped(p, n + 1)}

\* RetryPolicy::compute_delay: the delays after attempt n.
ComputeDelay(p, n) ==
  IF p.jitter THEN (Capped(p, n) \div 2) .. Capped(p, n) ELSE {Capped(p, n)}

\* The call fails before create_channel.
RefuseConfiguration ==
  /\ result = "none" /\ Refused # "none"
  /\ result' = Refused
  /\ UNCHANGED <<env, call, up, attempt, slept, sleeps>>

Connecting == result = "none" /\ Refused = "none"

\* The backoff before every attempt but the first; on_retry is not called.
Sleep ==
  /\ Connecting /\ attempt < Policy.attempts /\ sleeps < attempt
  /\ \E d \in ComputeDelay(Policy, attempt - 1) : slept' = slept + d
  /\ sleeps' = sleeps + 1
  /\ UNCHANGED <<env, call, up, attempt, result>>

Ready == Connecting /\ attempt < Policy.attempts /\ sleeps = attempt

\* An attempt reaches the service.
Connect ==
  /\ Ready /\ ~IsMalformed /\ up
  /\ attempt' = attempt + 1 /\ result' = "channel"
  /\ UNCHANGED <<env, call, up, slept, sleeps>>

\* Mutant of FailToConnect: the attempt is not counted.
FailToConnect_Uncounted ==
  /\ Ready /\ ~IsMalformed /\ ~up
  /\ result' = IF attempt + 1 = Policy.attempts THEN "CONNECTION_FAILED" ELSE "none"
  /\ UNCHANGED <<env, call, up, attempt, slept, sleeps>>

\* An attempt fails; after the last one so does the call, with its error.
FailToConnect ==
  /\ Ready /\ ~IsMalformed /\ ~up
  /\ attempt' = attempt + 1
  /\ result' = IF attempt' = Policy.attempts THEN "CONNECTION_FAILED" ELSE "none"
  /\ UNCHANGED <<env, call, up, slept, sleeps>>

\* Mutant of InvalidUri: retried like a failed connection.
InvalidUri_Retried ==
  /\ Ready /\ IsMalformed
  /\ attempt' = attempt + 1
  /\ result' = IF attempt' = Policy.attempts THEN "ENDPOINT_INVALID_URI" ELSE "none"
  /\ UNCHANGED <<env, call, up, slept, sleeps>>

\* An invalid URI is not retryable.
InvalidUri ==
  /\ Ready /\ IsMalformed
  /\ result' = "ENDPOINT_INVALID_URI"
  /\ UNCHANGED <<env, call, up, attempt, slept, sleeps>>

\* A policy without attempts.
NoAttempts ==
  /\ Connecting /\ Policy.attempts = 0
  /\ result' = "CONNECTION_FAILED_MAX_RETRIES"
  /\ UNCHANGED <<env, call, up, attempt, slept, sleeps>>

\* The service starts or stops.
Flap ==
  /\ up' = ~up
  /\ UNCHANGED <<env, call, attempt, slept, sleeps, result>>

Init ==
  /\ env \in Settings /\ call \in Calls /\ up \in BOOLEAN
  /\ attempt = 0 /\ slept = 0 /\ sleeps = 0
  /\ result = "none"

\* The steps of the constructor.
Step ==
  \/ RefuseConfiguration \/ Sleep \/ Connect \/ FailToConnect
  \/ InvalidUri \/ NoAttempts

Next == Step \/ Flap

Spec == Init /\ [][Next]_vars

\* The task that connects is polled, and its attempts and sleeps end.
FairSpec == Spec /\ WF_vars(Step)

-----------------------------------------------------------------------------
(* Properties.                                                             *)

Codes ==
  {"INVALID_TRANSPORT_MODE", "INVALID_PORT", "ENDPOINT_INVALID_URI",
   "CONNECTION_FAILED", "CONNECTION_FAILED_MAX_RETRIES"}

\* Every variable has its type (create_channel's locals and its result).
TypeOK ==
  /\ env \in Settings /\ call \in Calls /\ up \in BOOLEAN
  /\ attempt \in 0 .. Policy.attempts
  /\ sleeps \in 0 .. attempt /\ slept \in Nat
  /\ result \in {"none", "channel"} \cup Codes

\* create_channel is a bounded retry: max_attempts attempts and no more, none
\* for a configuration that cannot work, the first channel ends it.
Retry == INSTANCE BoundedRetry WITH
  limit    <- Policy.attempts,
  hopeless <- Refused # "none" \/ IsMalformed,
  tries    <- attempt,
  outcome  <- CASE result = "none" -> "none" [] result = "channel" -> "ok" [] OTHER -> "failed"
RetrySpec == Retry!Spec

\* What a policy lets a call wait in n backoffs: every one at most doubles the
\* one before and none is above the maximum.
Patience[n \in Nat] == IF n = 0 THEN 0 ELSE Patience[n - 1] + Capped(Policy, n - 1)

\* create_channel does not wait longer than RetryPolicy::compute_delay allows,
\* and so never above the maximum for each backoff, nor less than half of it,
\* and not at all after the last attempt.
BackoffWithinPolicy ==
  /\ slept <= Patience[sleeps] /\ slept <= sleeps * Policy.max
  /\ 2 * slept + sleeps >= Patience[sleeps]
  /\ result = "CONNECTION_FAILED" => sleeps = Policy.attempts - 1

\* Every constructor returns, though the service may start and stop for ever.
Returns == <>(result # "none")
===============================================================================
