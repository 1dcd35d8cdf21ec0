------------------------------- MODULE Runner -------------------------------
(***************************************************************************)
(* One hosted service: the runner future (server.rs, run_kind) and the     *)
(* readiness supervisor it spawns (readiness.rs, run_supervisor), which    *)
(* interleave on the multi-threaded tokio runtime, with the downstream     *)
(* endpoints the probes connect to as the environment.                     *)
(*                                                                         *)
(* Probe 0 is the TransportProbe; probes 1..NDeps are the                  *)
(* OutputDomainProbes and the BusProbe, in the order of the probes Vec.    *)
(* Name 1 is the overall name "", the others the per-kind names, in the    *)
(* order of service_names.                                                 *)
(***************************************************************************)
EXTENDS Integers

CONSTANTS
  NDeps,   \* how many downstream endpoints are probed
  NNames   \* how many health names are published

ASSUME RunnerAssumption ==
  /\ NDeps \in Nat
  /\ NNames \in Nat \ {0}

VARIABLES
  transport, \* what ServerConfig::from_env resolved, for good
  runner,    \* program counter of run_kind
  rIdx,      \* next name run_kind writes in its current loop over names
  bound,     \* the AtomicBool shared by TransportProbe and TransportSignal
  listener,  \* the OS socket: "unbound", "listening" or "closed"
  sup,       \* program counter of the supervisor task
  pIdx,      \* the probe the current tick is at
  allOk,     \* all_ok of the current tick
  nIdx,      \* next name the supervisor publishes
  aborted,   \* JoinHandle::abort was called on the supervisor
  status,    \* status[n]: what the HealthReporter holds for name n
  dep,       \* dep[d]: how the endpoint of probe d behaves right now
  wasUp      \* history: endpoints up at some instant since the tick began

runnerVars == <<transport, runner, rIdx, bound, listener>>
supVars    == <<sup, pIdx, allOk, nIdx>>
envVars    == <<dep, wasUp>>
vars       == <<runnerVars, supVars, aborted, status, envVars>>

Deps  == 1 .. NDeps
Names == 1 .. NNames

\* A connect succeeds, is refused, never answers, or panics.
DepStates == {"up", "down", "hung", "panics"}

UpNow == {d \in Deps : dep[d] = "up"}

RunnerStates ==
  {"register", "spawn", "prepare", "mark", "listen", "serve",
   "abort", "join", "flip", "done", "panicked", "dropped"}

SupStates == {"none", "start", "tick", "await", "publish", "sleep", "exited"}

-----------------------------------------------------------------------------
(* health_reporter() starts with the overall name SERVING and knows no     *)
(* other; run_kind overwrites them before it spawns anything.              *)
Init ==
  /\ transport \in {"uds", "tcp"}
  /\ runner = "register"
  /\ rIdx = 1
  /\ bound = FALSE
  /\ listener = "unbound"
  /\ sup = "none"
  /\ pIdx = 0
  /\ allOk = TRUE
  /\ nIdx = 1
  /\ aborted = FALSE
  /\ status = [n \in Names |-> IF n = 1 THEN "SERVING" ELSE "UNKNOWN"]
  /\ dep \in [Deps -> DepStates]
  /\ wasUp = UpNow

-----------------------------------------------------------------------------
(* The runner.                                                             *)

\* The loop over service_names, shared by the start of run_kind and by
\* publish_shutdown_status: one awaited set_service_status per name.
WriteNotServing(here, next) ==
  /\ runner = here
  /\ status' = [status EXCEPT ![rIdx] = "NOT_SERVING"]
  /\ IF rIdx = NNames
       THEN rIdx' = 1 /\ runner' = next
       ELSE rIdx' = rIdx + 1 /\ runner' = here
  /\ UNCHANGED <<transport, bound, listener, supVars, aborted, envVars>>

RegisterName == WriteNotServing("register", "spawn")

\* Mutant of SpawnSupervisor: the transport is signalled before it is bound.
SpawnSupervisor_Signals ==
  /\ runner = "spawn"
  /\ runner' = "prepare"
  /\ sup' = "start"
  /\ bound' = TRUE
  /\ UNCHANGED <<transport, rIdx, listener, pIdx, allOk, nIdx, aborted, status,
                 envVars>>

\* tokio::spawn(run_supervisor(..)): scheduled, not yet polled.
SpawnSupervisor ==
  /\ runner = "spawn"
  /\ runner' = "prepare"
  /\ sup' = "start"
  /\ UNCHANGED <<transport, rIdx, bound, listener, pIdx, allOk, nIdx, aborted, status,
                 envVars>>

\* The expect(..) calls: a bad probe endpoint before the spawn, a socket path
\* that cannot be bound (UDS) or an address that does not parse (TCP) after
\* it.  The unwinding drops the JoinHandle, which detaches the supervisor.
StartupPanics ==
  /\ runner = "prepare" \/ (runner = "spawn" /\ Deps # {})
  /\ runner' = "panicked"
  /\ UNCHANGED <<transport, rIdx, bound, listener, supVars, aborted, status, envVars>>

\* UDS: cleanup_socket, then UnixListener::bind.
BindUds ==
  /\ transport = "uds"
  /\ runner = "prepare"
  /\ listener' = "listening"
  /\ runner' = "mark"
  /\ UNCHANGED <<transport, rIdx, bound, supVars, aborted, status, envVars>>

\* TCP: the address parses; nothing is bound yet.
ParseTcp ==
  /\ transport = "tcp"
  /\ runner = "prepare"
  /\ runner' = "mark"
  /\ UNCHANGED <<transport, rIdx, bound, listener, supVars, aborted, status, envVars>>

\* transport_signal.mark_bound()
MarkBound ==
  /\ runner = "mark"
  /\ bound' = TRUE
  /\ runner' = IF transport = "uds" THEN "serve" ELSE "listen"
  /\ UNCHANGED <<transport, rIdx, listener, supVars, aborted, status, envVars>>

\* TCP: the first poll of serve(addr) binds the address, or fails and
\* returns the error.
ServeBinds ==
  /\ runner = "listen"
  /\ \/ listener' = "listening" /\ runner' = "serve"
     \/ listener' = listener /\ runner' = "abort"
  /\ UNCHANGED <<transport, rIdx, bound, supVars, aborted, status, envVars>>

\* The serve future resolves: its accept loop ended.
ServeEnds ==
  /\ runner = "serve"
  /\ listener' = "closed"
  /\ runner' = "abort"
  /\ UNCHANGED <<transport, rIdx, bound, supVars, aborted, status, envVars>>

\* Mutant of AbortSupervisor: run_kind waits for a supervisor it never aborted.
AbortSupervisor_Forgotten ==
  /\ runner = "abort"
  /\ runner' = "join"
  /\ UNCHANGED <<transport, rIdx, bound, listener, supVars, aborted, status, envVars>>

AbortSupervisor ==
  /\ runner = "abort"
  /\ aborted' = TRUE
  /\ runner' = "join"
  /\ UNCHANGED <<transport, rIdx, bound, listener, supVars, status, envVars>>

\* Mutant of JoinSupervisor: the final status is published without waiting.
JoinSupervisor_NoWait ==
  /\ runner = "join"
  /\ runner' = "flip"
  /\ UNCHANGED <<transport, rIdx, bound, listener, supVars, aborted, status, envVars>>

\* let _ = supervisor.await
JoinSupervisor ==
  /\ runner = "join"
  /\ sup = "exited"
  /\ runner' = "flip"
  /\ UNCHANGED <<transport, rIdx, bound, listener, supVars, aborted, status, envVars>>

FlipName == WriteNotServing("flip", "done")

\* The caller drops the run_kind future at one of its await points: the
\* listener goes with it, the supervisor does not (its JoinHandle detaches).
DropRunner ==
  /\ runner \in {"register", "serve", "join", "flip"}
  /\ runner' = "dropped"
  /\ listener' = IF listener = "listening" THEN "closed" ELSE listener
  /\ UNCHANGED <<transport, rIdx, bound, supVars, aborted, status, envVars>>

-----------------------------------------------------------------------------
(* The supervisor.  A parked task that was aborted is never polled again;  *)
(* one that is running when abort is called may go on until it parks.      *)

\* Mutant of BeginTick: all_ok survives from the previous tick.
BeginTick_KeepsOk ==
  /\ sup \in {"start", "sleep"}
  /\ ~aborted
  /\ sup' = "tick"
  /\ pIdx' = 0
  /\ wasUp' = UpNow
  /\ UNCHANGED <<runnerVars, allOk, nIdx, aborted, status, dep>>

\* The first poll, and the return from sleep(interval): a new tick.
BeginTick ==
  /\ sup \in {"start", "sleep"}
  /\ ~aborted
  /\ sup' = "tick"
  /\ pIdx' = 0
  /\ allOk' = TRUE
  /\ wasUp' = UpNow
  /\ UNCHANGED <<runnerVars, nIdx, aborted, status, dep>>

\* Mutant of Tally: the last probe decides alone.
Tally_LastProbe(ok) ==
  /\ allOk' = ok
  /\ pIdx' = pIdx + 1
  /\ sup' = IF pIdx = NDeps THEN "publish" ELSE "tick"
  /\ nIdx' = 1

\* One probe has its result: all_ok only ever falls within a tick.  After the
\* last probe the tick returns and the loop over the names begins.
Tally(ok) ==
  /\ allOk' = (allOk /\ ok)
  /\ pIdx' = pIdx + 1
  /\ sup' = IF pIdx = NDeps THEN "publish" ELSE "tick"
  /\ nIdx' = 1

\* Mutant of CheckTransport: the transport probe does not look at the flag.
CheckTransport_Always ==
  /\ sup = "tick"
  /\ pIdx = 0
  /\ Tally(TRUE)
  /\ UNCHANGED <<runnerVars, aborted, status, envVars>>

\* TransportProbe::check loads the flag and is ready at once.
CheckTransport ==
  /\ sup = "tick"
  /\ pIdx = 0
  /\ Tally(bound)
  /\ UNCHANGED <<runnerVars, aborted, status, envVars>>

\* A connecting probe is polled and parks.
StartConnect ==
  /\ sup = "tick"
  /\ pIdx \in Deps
  /\ sup' = "await"
  /\ UNCHANGED <<runnerVars, pIdx, allOk, nIdx, aborted, status, envVars>>

\* Mutant of ProbeAnswers: without catch_unwind a panic ends the task.
ProbeAnswers_Unwinds ==
  /\ sup = "await"
  /\ ~aborted
  /\ dep[pIdx] # "hung"
  /\ IF dep[pIdx] = "panics"
       THEN sup' = "exited" /\ UNCHANGED <<pIdx, allOk, nIdx>>
       ELSE Tally(dep[pIdx] = "up")
  /\ UNCHANGED <<runnerVars, aborted, status, envVars>>

\* The connect completes: accepted, refused, or panicked (catch_unwind).
ProbeAnswers ==
  /\ sup = "await"
  /\ ~aborted
  /\ dep[pIdx] # "hung"
  /\ Tally(dep[pIdx] = "up")
  /\ UNCHANGED <<runnerVars, aborted, status, envVars>>

\* Mutant of ProbeTimesOut: a timeout is not counted as a failure.
ProbeTimesOut_Ignored ==
  /\ sup = "await"
  /\ ~aborted
  /\ dep[pIdx] = "hung"
  /\ Tally(TRUE)
  /\ UNCHANGED <<runnerVars, aborted, status, envVars>>

\* tokio::time::timeout elapses; an endpoint that answers does so in time.
ProbeTimesOut ==
  /\ sup = "await"
  /\ ~aborted
  /\ dep[pIdx] = "hung"
  /\ Tally(FALSE)
  /\ UNCHANGED <<runnerVars, aborted, status, envVars>>

\* Mutant of Publish: the loop leaves before the last name.
Publish_SkipsLast ==
  /\ sup = "publish"
  /\ status' = [status EXCEPT ![nIdx] =
                  IF allOk THEN "SERVING" ELSE "NOT_SERVING"]
  /\ IF nIdx >= NNames - 1
       THEN sup' = "sleep" /\ nIdx' = nIdx
       ELSE sup' = "publish" /\ nIdx' = nIdx + 1
  /\ UNCHANGED <<runnerVars, pIdx, allOk, aborted, envVars>>

\* Mutant of Publish: the loop runs past the last name.
Publish_PastLast ==
  /\ sup = "publish"
  /\ status' = [status EXCEPT ![nIdx] =
                  IF allOk THEN "SERVING" ELSE "NOT_SERVING"]
  /\ nIdx' = nIdx + 1
  /\ sup' = IF nIdx > NNames THEN "sleep" ELSE "publish"
  /\ UNCHANGED <<runnerVars, pIdx, allOk, aborted, envVars>>

\* One set_service_status of the publishing loop; after the last, sleep.
Publish ==
  /\ sup = "publish"
  /\ status' = [status EXCEPT ![nIdx] =
                  IF allOk THEN "SERVING" ELSE "NOT_SERVING"]
  /\ IF nIdx = NNames
       THEN sup' = "sleep" /\ nIdx' = nIdx
       ELSE sup' = "publish" /\ nIdx' = nIdx + 1
  /\ UNCHANGED <<runnerVars, pIdx, allOk, aborted, envVars>>

\* The abort takes effect at an await point.
ExitAborted ==
  /\ aborted
  /\ sup \notin {"none", "exited"}
  /\ sup' = "exited"
  /\ UNCHANGED <<runnerVars, pIdx, allOk, nIdx, aborted, status, envVars>>

-----------------------------------------------------------------------------
\* The environment: an endpoint changes its behaviour.
DepChanges ==
  /\ \E d \in Deps : \E s \in DepStates \ {dep[d]} :
       /\ dep' = [dep EXCEPT ![d] = s]
       /\ wasUp' = IF s = "up" THEN wasUp \cup {d} ELSE wasUp
  /\ UNCHANGED <<runnerVars, supVars, aborted, status>>

RunnerStep ==
  \/ RegisterName
  \/ SpawnSupervisor
  \/ BindUds
  \/ ParseTcp
  \/ MarkBound
  \/ ServeBinds
  \/ AbortSupervisor
  \/ JoinSupervisor
  \/ FlipName

SupervisorStep ==
  \/ BeginTick
  \/ CheckTransport
  \/ StartConnect
  \/ ProbeAnswers
  \/ ProbeTimesOut
  \/ Publish
  \/ ExitAborted

Next ==
  \/ RunnerStep
  \/ StartupPanics
  \/ ServeEnds
  \/ DropRunner
  \/ SupervisorStep
  \/ DepChanges

Spec == Init /\ [][Next]_vars

(* Both futures are polled again whenever they can make progress (the      *)
(* runtime's scheduler and timers).  Nothing obliges serve to end, a       *)
(* start-up to panic, the caller to drop the future, or an endpoint to     *)
(* change.                                                                 *)
FairSpec == Spec /\ WF_vars(RunnerStep) /\ WF_vars(SupervisorStep)

-----------------------------------------------------------------------------
(* Properties.                                                             *)

TypeOK ==
  /\ transport \in {"uds", "tcp"}
  /\ runner \in RunnerStates
  /\ rIdx \in Names
  /\ bound \in BOOLEAN
  /\ listener \in {"unbound", "listening", "closed"}
  /\ sup \in SupStates
  /\ pIdx \in 0 .. NDeps + 1
  /\ allOk \in BOOLEAN
  /\ nIdx \in Names
  /\ aborted \in BOOLEAN
  /\ status \in [Names -> {"SERVING", "NOT_SERVING", "UNKNOWN"}]
  /\ dep \in [Deps -> DepStates]
  /\ wasUp \in SUBSET Deps

\* From the spawn on, a name says SERVING only once the listener was bound:
\* the promise of TransportProbe ("flipped true once the listener has bound").
ShownIsBound ==
  sup # "none" /\ (\E n \in Names : status[n] = "SERVING")
    => listener # "unbound"

\* It holds over UDS, even for a supervisor whose runner panicked or was
\* dropped.  Over TCP it does not (mark_bound comes before serve(addr) binds):
\* there SERVING tells that the address parsed.
UdsShownIsBound == transport = "uds" => ShownIsBound

\* What the supervisor last published as SERVING rests on one tick in which
\* every endpoint was up at some instant: readiness is never older than a tick.
Published ==
  {n \in Names : sup = "sleep" \/ (sup = "publish" /\ n < nIdx)}
ShownIsRecent ==
  \A n \in Published : status[n] = "SERVING" => Deps \subseteq wasUp

\* Outside the publishing loop and the shutdown, all names say the same: the
\* overall name "" never disagrees with the kind's name across ticks.
NamesAgree ==
  sup \in {"start", "tick", "await", "sleep"}
    => \A m, n \in Names : status[m] = status[n]

\* Once run_kind has returned no supervisor is left and every name is
\* NOT_SERVING, whatever the supervisor was doing when it was aborted.
ShutdownIsFinal ==
  runner = "done" =>
    /\ sup = "exited"
    /\ \A n \in Names : status[n] = "NOT_SERVING"

\* A step that turns a name to SERVING is taken with the transport signalled
\* and every endpoint seen up since the tick began, and never after shutdown.
ShownOnlyByFullTick ==
  [][\A n \in Names :
       status[n] # "SERVING" /\ status'[n] = "SERVING"
         => bound /\ Deps \subseteq wasUp /\ runner # "done"]_vars

\* Readiness follows the endpoints: if from some point on the server serves
\* and every endpoint stays up, all names end up SERVING and stay so.
RecoversWhenUp ==
  <>[](runner = "serve" /\ UpNow = Deps)
    => <>[](\A n \in Names : status[n] = "SERVING")

\* An endpoint that stays down, hangs or panics withdraws every name for good
\* unless the runner aborts the supervisor: neither a hung probe nor one that
\* panics can block the withdrawal.
DrainsWhenDown ==
  \A d \in Deps :
    <>[](dep[d] # "up" /\ sup # "none" /\ ~aborted)
      => <>[](\A n \in Names : status[n] # "SERVING")

\* After serve returned, the shutdown always completes unless the future is
\* dropped: waiting for the aborted supervisor cannot block for ever.
ShutdownCompletes == runner = "abort" ~> runner \in {"done", "dropped"}

\* The abstract gate this runner implements.
Gate == INSTANCE ReadinessGate WITH
  gate  <- IF runner = "done" THEN "closed"
           ELSE IF bound THEN "open" ELSE "starting",
  shown <- [n \in Names |-> sup # "none" /\ status[n] = "SERVING"]

\* The runner implements ReadinessGate: SERVING only between the transport
\* signal and the shutdown, and nothing after it.
GateSpec == Gate!Spec
=============================================================================
