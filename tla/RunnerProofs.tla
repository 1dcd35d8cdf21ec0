---------------------------- MODULE RunnerProofs ----------------------------
(***************************************************************************)
(* Proofs about Runner, for any number of probed endpoints and of health   *)
(* names.  The argument: what the supervisor is about to publish rests on  *)
(* the tick it has just finished (TickIsHonest), what it has published     *)
(* rests on it until the next tick begins (ShownIsRecent, NamesAgree), and *)
(* the runner withdraws the names only after the supervisor has exited     *)
(* (Counters, Withdrawn).  The last part counts the steps to the end of a  *)
(* shutdown and to a status that tells what the endpoints do.              *)
(***************************************************************************)
EXTENDS Runner, TLAPS

\* Where each side can be while the other is at some point.
Counters ==
  /\ runner \in {"register", "spawn"} => sup = "none"
  /\ runner \in {"listen", "serve", "abort", "join", "flip", "done"} => bound
  /\ runner \in {"flip", "done"} => sup = "exited"
  /\ runner \in {"spawn", "prepare", "mark", "listen", "serve", "abort", "join"} => rIdx = 1
  /\ transport = "uds" /\ (runner = "mark" \/ bound) => listener # "unbound"

\* The results the current tick has added up so far, or has just finished.
TickIsHonest ==
  /\ UpNow \subseteq wasUp
  /\ sup = "tick" => pIdx \in 0 .. NDeps
  /\ sup = "await" => pIdx \in Deps
  /\ sup \in {"tick", "await"} /\ allOk =>
       /\ pIdx > 0 => bound
       /\ \A d \in Deps : d < pIdx => d \in wasUp
  /\ sup = "publish" /\ allOk => bound /\ Deps \subseteq wasUp

\* The names the runner has withdrawn before the spawn and after the exit.
Withdrawn ==
  /\ runner \in {"register", "flip"} =>
       \A n \in Names : n < rIdx => status[n] = "NOT_SERVING"
  /\ runner \in {"spawn", "done"} =>
       \A n \in Names : status[n] = "NOT_SERVING"

\* The supervisor shows nothing that was not signalled.
ShownIsSignalled ==
  sup # "none" => \A n \in Names : status[n] = "SERVING" => bound

\* The names stand alike, but for those a publishing loop has still to reach.
Alike ==
  /\ sup \in {"start", "tick", "await", "sleep"} =>
       \A m, n \in Names : status[m] = status[n]
  /\ sup = "publish" =>
       \A n \in Names : n < nIdx =>
         status[n] = IF allOk THEN "SERVING" ELSE "NOT_SERVING"

IInv ==
  /\ TypeOK
  /\ Counters
  /\ TickIsHonest
  /\ Withdrawn
  /\ ShownIsSignalled
  /\ Alike
  /\ ShownIsRecent

USE RunnerAssumption

-----------------------------------------------------------------------------
\* Every initial state satisfies the invariant: no supervisor, no tick.
LEMMA InitIInv == Init => IInv
<1> SUFFICES ASSUME Init PROVE IInv
  OBVIOUS
<1>1. TypeOK
  <2>1. /\ 1 \in Names
        /\ 0 \in 0 .. NDeps + 1
        /\ UpNow \in SUBSET Deps
    BY DEF Names, UpNow
  <2>2. status \in [Names -> {"SERVING", "NOT_SERVING", "UNKNOWN"}]
    BY DEF Init
  <2> QED
    BY <2>1, <2>2 DEF Init, TypeOK, RunnerStates, SupStates
<1>2. Counters /\ TickIsHonest
  BY DEF Init, Counters, TickIsHonest
<1>3. Withdrawn
  BY DEF Init, Withdrawn, Names
<1>4. ShownIsSignalled /\ Alike /\ ShownIsRecent
  BY DEF Init, ShownIsSignalled, Alike, ShownIsRecent, Published
<1> QED
  BY <1>1, <1>2, <1>3, <1>4 DEF IInv

-----------------------------------------------------------------------------
(* The invariant is inductive: one lemma for each of its parts.            *)

\* No step of the runner, the supervisor or an endpoint leaves the types.
LEMMA TypeStep == TypeOK /\ TickIsHonest /\ [Next]_vars => TypeOK'
<1> SUFFICES ASSUME TypeOK, TickIsHonest, [Next]_vars PROVE TypeOK'
  OBVIOUS
<1> USE DEF TypeOK, RunnerStates, SupStates
<1>1. CASE RegisterName \/ FlipName
  BY <1>1 DEF RegisterName, FlipName, WriteNotServing, Names, supVars, envVars
<1>2. CASE SpawnSupervisor
  BY <1>2 DEF SpawnSupervisor, envVars
<1>3. CASE BindUds \/ ParseTcp \/ MarkBound \/ ServeBinds \/ ServeEnds
  BY <1>3 DEF BindUds, ParseTcp, MarkBound, ServeBinds, ServeEnds, supVars, envVars
<1>4. CASE AbortSupervisor \/ JoinSupervisor \/ StartupPanics \/ DropRunner
  BY <1>4 DEF AbortSupervisor, JoinSupervisor, StartupPanics, DropRunner, supVars, envVars
<1>5. CASE BeginTick
  BY <1>5 DEF BeginTick, runnerVars, UpNow
<1>6. CASE CheckTransport \/ ProbeAnswers \/ ProbeTimesOut
  <2>1. pIdx \in 0 .. NDeps
    <3>1. (sup = "tick" /\ pIdx = 0) \/ sup = "await"
      BY <1>6 DEF CheckTransport, ProbeAnswers, ProbeTimesOut
    <3>2. sup = "await" => pIdx \in 1 .. NDeps
      BY DEF TickIsHonest, Deps
    <3> QED
      BY <3>1, <3>2
  <2>2. PICK ok \in BOOLEAN : Tally(ok)
    BY <1>6 DEF CheckTransport, ProbeAnswers, ProbeTimesOut
  <2>3. /\ allOk' \in BOOLEAN
        /\ pIdx' \in 0 .. NDeps + 1
        /\ sup' \in SupStates
        /\ nIdx' \in Names
    BY <2>1, <2>2 DEF Tally, Names
  <2>4. UNCHANGED <<transport, runner, rIdx, bound, listener, aborted, status, dep, wasUp>>
    BY <1>6 DEF CheckTransport, ProbeAnswers, ProbeTimesOut, runnerVars, envVars
  <2> QED
    BY <2>3, <2>4
<1>7. CASE StartConnect \/ ExitAborted
  BY <1>7 DEF StartConnect, ExitAborted, runnerVars, envVars
<1>8. CASE Publish
  BY <1>8 DEF Publish, runnerVars, envVars, Names
<1>9. CASE DepChanges
  BY <1>9 DEF DepChanges, runnerVars, supVars, UpNow
<1>10. CASE UNCHANGED vars
  BY <1>10 DEF vars, runnerVars, supVars, envVars
<1> QED
  BY <1>1, <1>2, <1>3, <1>4, <1>5, <1>6, <1>7, <1>8, <1>9, <1>10
     DEF Next, RunnerStep, SupervisorStep

-----------------------------------------------------------------------------
\* The runner's counter, the supervisor's, the flag and the socket move in step:
\* run_kind marks, aborts, joins and withdraws in this order.
LEMMA CountersStep == TypeOK /\ Counters /\ [Next]_vars => Counters'
<1> SUFFICES ASSUME TypeOK, Counters, [Next]_vars PROVE Counters'
  OBVIOUS
<1> USE DEF Counters
<1>1. CASE RegisterName \/ FlipName
  BY <1>1 DEF RegisterName, FlipName, WriteNotServing, supVars
<1>2. CASE SpawnSupervisor \/ BindUds \/ ParseTcp \/ MarkBound \/ ServeBinds
  BY <1>2 DEF SpawnSupervisor, BindUds, ParseTcp, MarkBound, ServeBinds, supVars
<1>3. CASE ServeEnds \/ AbortSupervisor \/ JoinSupervisor
  BY <1>3 DEF ServeEnds, AbortSupervisor, JoinSupervisor, supVars
<1>4. CASE StartupPanics \/ DropRunner
  BY <1>4 DEF StartupPanics, DropRunner, supVars
<1>5. CASE BeginTick \/ CheckTransport \/ StartConnect \/ ProbeAnswers \/ ProbeTimesOut
  BY <1>5 DEF BeginTick, CheckTransport, StartConnect, ProbeAnswers, ProbeTimesOut,
              Tally, runnerVars
<1>6. CASE Publish \/ ExitAborted
  BY <1>6 DEF Publish, ExitAborted, runnerVars
<1>7. CASE DepChanges \/ UNCHANGED vars
  BY <1>7 DEF DepChanges, vars, runnerVars, supVars
<1> QED
  BY <1>1, <1>2, <1>3, <1>4, <1>5, <1>6, <1>7 DEF Next, RunnerStep, SupervisorStep

\* all_ok stays an honest account of the tick while endpoints come and go.
LEMMA TickStep == TypeOK /\ TickIsHonest /\ [Next]_vars => TickIsHonest'
<1> SUFFICES ASSUME TypeOK, TickIsHonest, [Next]_vars PROVE TickIsHonest'
  OBVIOUS
<1>1. CASE /\ UNCHANGED <<sup, pIdx, allOk, dep, wasUp>>
           /\ bound => bound'
  BY <1>1 DEF TickIsHonest, UpNow
<1>2. CASE SpawnSupervisor
  BY <1>2 DEF SpawnSupervisor, TickIsHonest, UpNow, envVars
<1>3. CASE BeginTick
  BY <1>3 DEF BeginTick, TickIsHonest, UpNow, Deps
<1>4. CASE CheckTransport
  BY <1>4 DEF CheckTransport, Tally, TickIsHonest, TypeOK, UpNow, Deps, runnerVars, envVars
<1>5. CASE StartConnect
  BY <1>5 DEF StartConnect, TickIsHonest, UpNow, runnerVars, envVars
<1>6. CASE ProbeAnswers \/ ProbeTimesOut
  <2>1. sup = "await" /\ UNCHANGED <<bound, dep, wasUp>>
    BY <1>6 DEF ProbeAnswers, ProbeTimesOut, runnerVars, envVars
  <2>2. PICK ok \in BOOLEAN : Tally(ok) /\ (ok => dep[pIdx] = "up")
    BY <1>6 DEF ProbeAnswers, ProbeTimesOut
  <2>3. pIdx \in Deps
    BY <2>1 DEF TickIsHonest
  <2>4. ok => pIdx \in wasUp
    BY <2>2, <2>3 DEF TickIsHonest, UpNow
  <2>5. allOk => bound /\ \A d \in Deps : d < pIdx => d \in wasUp
    BY <2>1, <2>3 DEF TickIsHonest, Deps
  <2>6. /\ allOk' = (allOk /\ ok)
        /\ pIdx' = pIdx + 1
        /\ sup' = IF pIdx = NDeps THEN "publish" ELSE "tick"
    BY <2>2 DEF Tally
  <2>7. \A d \in Deps : d < pIdx + 1 => d < pIdx \/ d = pIdx
    BY <2>3 DEF Deps
  <2>8. allOk' => bound /\ \A d \in Deps : d < pIdx' => d \in wasUp
    BY <2>4, <2>5, <2>6, <2>7
  <2>9. allOk' /\ sup' = "publish" => Deps \subseteq wasUp
    BY <2>3, <2>6, <2>8 DEF Deps
  <2>10. sup' = "tick" => pIdx' \in 0 .. NDeps
    BY <2>3, <2>6 DEF Deps
  <2>11. (UpNow \subseteq wasUp)'
    BY <2>1 DEF TickIsHonest, UpNow
  <2> QED
    BY <2>1, <2>6, <2>8, <2>9, <2>10, <2>11 DEF TickIsHonest
<1>7. CASE Publish \/ ExitAborted
  BY <1>7 DEF Publish, ExitAborted, TickIsHonest, UpNow, runnerVars, envVars
<1>8. CASE DepChanges
  <2>1. wasUp \subseteq wasUp' /\ UpNow' \subseteq wasUp'
    BY <1>8 DEF DepChanges, TickIsHonest, TypeOK, UpNow
  <2> QED
    BY <1>8, <2>1 DEF DepChanges, TickIsHonest, runnerVars, supVars
<1> QED
  BY <1>1, <1>2, <1>3, <1>4, <1>5, <1>6, <1>7, <1>8
     DEF Next, RunnerStep, SupervisorStep, RegisterName, FlipName, WriteNotServing,
         StartupPanics, BindUds, ParseTcp, MarkBound, ServeBinds, ServeEnds,
         AbortSupervisor, JoinSupervisor, DropRunner, vars, runnerVars, supVars, envVars

\* A step touches the names only in the loops of run_kind, where it turns one of
\* them to NOT_SERVING, and in the supervisor's publishing loop.
LEMMA StatusFrame ==
  ASSUME TypeOK, [Next]_vars, ~Publish
  PROVE  \/ UNCHANGED status
         \/ /\ RegisterName \/ FlipName
            /\ status' = [status EXCEPT ![rIdx] = "NOT_SERVING"]
  BY DEF Next, RunnerStep, SupervisorStep, RegisterName, FlipName, WriteNotServing,
         SpawnSupervisor, StartupPanics, BindUds, ParseTcp, MarkBound, ServeBinds,
         ServeEnds, AbortSupervisor, JoinSupervisor, DropRunner, BeginTick,
         CheckTransport, StartConnect, ProbeAnswers, ProbeTimesOut, ExitAborted,
         DepChanges, vars

\* What the runner has withdrawn stays withdrawn: there is no supervisor yet, or
\* none any more, to show it again.
LEMMA WithdrawnStep == TypeOK /\ Counters /\ Withdrawn /\ [Next]_vars => Withdrawn'
<1> SUFFICES ASSUME TypeOK, Counters, Withdrawn, [Next]_vars PROVE Withdrawn'
  OBVIOUS
<1> USE DEF Withdrawn
<1>1. CASE RegisterName \/ FlipName
  <2>1. /\ status' = [status EXCEPT ![rIdx] = "NOT_SERVING"]
        /\ \A n \in Names : n < rIdx => status[n] = "NOT_SERVING"
        /\ IF rIdx = NNames
             THEN rIdx' = 1 /\ runner' \in {"spawn", "done"}
             ELSE rIdx' = rIdx + 1 /\ runner' \in {"register", "flip"}
    BY <1>1 DEF RegisterName, FlipName, WriteNotServing
  <2>2. /\ rIdx \in Names
        /\ \A n \in Names : status'[n] = IF n = rIdx THEN "NOT_SERVING" ELSE status[n]
    BY <2>1 DEF TypeOK
  <2>3. \A n \in Names : n < rIdx + 1 => status'[n] = "NOT_SERVING"
    BY <2>1, <2>2 DEF Names
  <2>4. rIdx = NNames => \A n \in Names : n < rIdx + 1
    BY <2>2 DEF Names
  <2> QED
    BY <2>1, <2>3, <2>4
<1>2. CASE Publish
  <2>1. sup = "publish" /\ runner' = runner
    BY <1>2 DEF Publish, runnerVars
  <2> QED
    BY <2>1 DEF Counters
<1>3. CASE ~(RegisterName \/ FlipName \/ Publish)
  <2>1. UNCHANGED status
    BY <1>3, StatusFrame
  <2>2. \/ UNCHANGED <<runner, rIdx>>
        \/ runner' \notin {"register", "spawn", "flip", "done"}
        \/ JoinSupervisor
    BY <1>3 DEF Next, RunnerStep, SupervisorStep, SpawnSupervisor, StartupPanics, BindUds,
                ParseTcp, MarkBound, ServeBinds, ServeEnds, AbortSupervisor, DropRunner,
                BeginTick, CheckTransport, StartConnect, ProbeAnswers, ProbeTimesOut,
                ExitAborted, DepChanges, vars, runnerVars
  <2>3. JoinSupervisor => rIdx = 1
    BY DEF JoinSupervisor, Counters
  <2> QED
    BY <2>1, <2>2, <2>3 DEF JoinSupervisor, Names
<1> QED
  BY <1>1, <1>2, <1>3

\* A name is turned to SERVING by Publish alone, after a full tick; the spawn finds
\* them all withdrawn.
LEMMA SignalledStep ==
  TypeOK /\ TickIsHonest /\ Counters /\ Withdrawn /\ ShownIsSignalled /\ [Next]_vars
    => ShownIsSignalled'
<1> SUFFICES ASSUME TypeOK, TickIsHonest, Counters, Withdrawn, ShownIsSignalled, [Next]_vars
             PROVE  ShownIsSignalled'
  OBVIOUS
<1>1. bound => bound'
  BY DEF Next, RunnerStep, SupervisorStep, RegisterName, FlipName, WriteNotServing,
         SpawnSupervisor, StartupPanics, BindUds, ParseTcp, MarkBound, ServeBinds,
         ServeEnds, AbortSupervisor, JoinSupervisor, DropRunner, BeginTick,
         CheckTransport, StartConnect, ProbeAnswers, ProbeTimesOut, Publish, ExitAborted,
         DepChanges, vars, runnerVars
<1>2. CASE Publish
  <2>1. /\ sup = "publish"
        /\ status' = [status EXCEPT ![nIdx] = IF allOk THEN "SERVING" ELSE "NOT_SERVING"]
    BY <1>2 DEF Publish
  <2>2. allOk => bound
    BY <2>1 DEF TickIsHonest
  <2>3. \A n \in Names : status'[n] = "SERVING" => allOk \/ status[n] = "SERVING"
    BY <2>1 DEF TypeOK
  <2> QED
    BY <1>1, <2>1, <2>2, <2>3 DEF ShownIsSignalled
<1>3. CASE SpawnSupervisor
  BY <1>3 DEF SpawnSupervisor, Withdrawn, ShownIsSignalled
<1>4. CASE ~Publish /\ ~SpawnSupervisor
  <2>1. sup' # "none" => sup # "none"
    BY <1>4 DEF Next, RunnerStep, SupervisorStep, RegisterName, FlipName, WriteNotServing,
         StartupPanics, BindUds, ParseTcp, MarkBound, ServeBinds, ServeEnds,
         AbortSupervisor, JoinSupervisor, DropRunner, BeginTick, CheckTransport,
         StartConnect, ProbeAnswers, ProbeTimesOut, ExitAborted, DepChanges, vars, supVars
  <2>2. \A n \in Names : status'[n] = "SERVING" => status[n] = "SERVING"
    BY <1>4, StatusFrame DEF TypeOK
  <2> QED
    BY <1>1, <2>1, <2>2 DEF ShownIsSignalled
<1> QED
  BY <1>2, <1>3, <1>4

\* Where the supervisor is not between two names of its publishing loop, no step
\* makes one name differ from another.
LEMMA AlikeStep ==
  TypeOK /\ Counters /\ Withdrawn /\ Alike /\ [Next]_vars => Alike'
<1> SUFFICES ASSUME TypeOK, Counters, Withdrawn, Alike, [Next]_vars PROVE Alike'
  OBVIOUS
<1>1. CASE RegisterName \/ FlipName
  <2>1. sup' \in {"none", "exited"}
    BY <1>1 DEF RegisterName, FlipName, WriteNotServing, supVars, Counters
  <2> QED
    BY <2>1 DEF Alike
<1>2. CASE SpawnSupervisor
  BY <1>2 DEF SpawnSupervisor, Withdrawn, Alike
<1>3. CASE Publish
  <2> DEFINE shown == IF allOk THEN "SERVING" ELSE "NOT_SERVING"
  <2>1. /\ sup = "publish"
        /\ allOk' = allOk
        /\ IF nIdx = NNames THEN sup' = "sleep" /\ nIdx' = nIdx
                            ELSE sup' = "publish" /\ nIdx' = nIdx + 1
    BY <1>3 DEF Publish
  <2>2. nIdx \in Names /\ \A n \in Names : status'[n] = IF n = nIdx THEN shown ELSE status[n]
    BY <1>3 DEF Publish, TypeOK
  <2>3. \A n \in Names : n < nIdx => status[n] = shown
    BY <2>1 DEF Alike
  <2>4. \A n \in Names : n < nIdx + 1 => status'[n] = shown
    BY <2>2, <2>3 DEF Names
  <2>5. nIdx = NNames => \A n \in Names : n < nIdx + 1
    BY <2>2 DEF Names
  <2> HIDE DEF shown
  <2>6. nIdx = NNames => \A m, n \in Names : status'[m] = status'[n]
    BY <2>4, <2>5
  <2> QED
    BY <2>1, <2>4, <2>6 DEF Alike, shown
<1>4. CASE BeginTick \/ StartConnect \/ ExitAborted
  BY <1>4 DEF BeginTick, StartConnect, ExitAborted, Alike
<1>5. CASE CheckTransport \/ ProbeAnswers \/ ProbeTimesOut
  <2>1. /\ sup \in {"tick", "await"}
        /\ UNCHANGED status
        /\ sup' \in {"tick", "publish"}
        /\ nIdx' = 1
    BY <1>5 DEF CheckTransport, ProbeAnswers, ProbeTimesOut, Tally
  <2> QED
    BY <2>1 DEF Alike, Names
<1>6. CASE UNCHANGED <<sup, nIdx, allOk, status>>
  BY <1>6 DEF Alike
<1> QED
  BY <1>1, <1>2, <1>3, <1>4, <1>5, <1>6
     DEF Next, RunnerStep, SupervisorStep, StartupPanics, BindUds, ParseTcp, MarkBound,
         ServeBinds, ServeEnds, AbortSupervisor, JoinSupervisor, DropRunner, DepChanges,
         vars, supVars

\* Until the next tick begins, wasUp only grows, so a published SERVING keeps resting
\* on the tick that was published.
LEMMA RecentStep ==
  TypeOK /\ Counters /\ TickIsHonest /\ ShownIsRecent /\ [Next]_vars => ShownIsRecent'
<1> SUFFICES ASSUME TypeOK, Counters, TickIsHonest, ShownIsRecent, [Next]_vars
             PROVE  ShownIsRecent'
  OBVIOUS
<1> USE DEF ShownIsRecent, Published
<1>1. CASE Publish
  <2>1. /\ sup = "publish"
        /\ wasUp' = wasUp
        /\ IF nIdx = NNames THEN sup' = "sleep" /\ nIdx' = nIdx
                            ELSE sup' = "publish" /\ nIdx' = nIdx + 1
    BY <1>1 DEF Publish, envVars
  <2>2. allOk => Deps \subseteq wasUp
    BY <2>1 DEF TickIsHonest
  <2>3. nIdx \in Names /\ \A n \in Names :
          status'[n] = IF n = nIdx THEN IF allOk THEN "SERVING" ELSE "NOT_SERVING"
                                   ELSE status[n]
    BY <1>1 DEF Publish, TypeOK
  <2>4. \A n \in Names : n < nIdx + 1 /\ status'[n] = "SERVING" => Deps \subseteq wasUp
    BY <2>1, <2>2, <2>3 DEF Names
  <2>5. nIdx = NNames => \A n \in Names : n < nIdx + 1
    BY <2>3 DEF Names
  <2> QED
    BY <2>1, <2>4, <2>5
<1>2. CASE DepChanges
  <2>1. wasUp \subseteq wasUp'
    BY <1>2 DEF DepChanges
  <2>2. UNCHANGED <<sup, nIdx, status>>
    BY <1>2 DEF DepChanges, supVars
  <2> QED
    BY <2>1, <2>2
<1>3. CASE RegisterName \/ FlipName
  <2>1. sup' \in {"none", "exited"}
    BY <1>3 DEF RegisterName, FlipName, WriteNotServing, supVars, Counters
  <2> QED
    BY <2>1
<1>4. CASE CheckTransport \/ ProbeAnswers \/ ProbeTimesOut
  <2>1. sup' \in {"tick", "publish"} /\ nIdx' = 1
    BY <1>4 DEF CheckTransport, ProbeAnswers, ProbeTimesOut, Tally
  <2> QED
    BY <2>1 DEF Names
<1>5. CASE sup' \notin {"publish", "sleep"} \/ UNCHANGED <<sup, nIdx, status, wasUp>>
  BY <1>5
<1> QED
  BY <1>1, <1>2, <1>3, <1>4, <1>5
     DEF Next, RunnerStep, SupervisorStep, SpawnSupervisor, StartupPanics, BindUds,
         ParseTcp, MarkBound, ServeBinds, ServeEnds, AbortSupervisor, JoinSupervisor,
         DropRunner, BeginTick, StartConnect, ExitAborted, vars, supVars, envVars

LEMMA NextIInv == IInv /\ [Next]_vars => IInv'
  BY TypeStep, CountersStep, TickStep, WithdrawnStep, SignalledStep, AlikeStep, RecentStep
     DEF IInv

LEMMA Invariance == Spec => []IInv
  BY InitIInv, NextIInv, PTL DEF Spec

-----------------------------------------------------------------------------
(* What follows from the invariant.                                        *)

\* Every variable of run_kind and run_supervisor keeps its type; in particular the
\* loops over probes and names never index past their end.
THEOREM TypeCorrect == Spec => []TypeOK
  BY Invariance, PTL DEF IInv

\* Over UDS a name says SERVING only once the listener was bound, whatever became of
\* the runner since.
THEOREM UdsBound == Spec => []UdsShownIsBound
<1>1. IInv => UdsShownIsBound
  BY DEF IInv, TypeOK, Counters, ShownIsSignalled, UdsShownIsBound, ShownIsBound
<1> QED
  BY <1>1, Invariance, PTL

\* A published SERVING rests on one tick that saw every probed endpoint up.
THEOREM Recent == Spec => []ShownIsRecent
  BY Invariance, PTL DEF IInv

\* The overall name and the kinds' names agree between two publishing loops.
THEOREM Agree == Spec => []NamesAgree
<1>1. IInv => NamesAgree
  BY DEF IInv, Alike, NamesAgree
<1> QED
  BY <1>1, Invariance, PTL

\* When run_kind has returned, the supervisor is gone and every name withdrawn.
THEOREM ShutdownFinal == Spec => []ShutdownIsFinal
<1>1. IInv => ShutdownIsFinal
  BY DEF IInv, Counters, Withdrawn, ShutdownIsFinal
<1> QED
  BY <1>1, Invariance, PTL

\* Only the supervisor turns a name to SERVING, after a full tick, before the end.
THEOREM ShownByFullTick == Spec => ShownOnlyByFullTick
<1>1. IInv /\ [Next]_vars =>
        [\A n \in Names :
           status[n] # "SERVING" /\ status'[n] = "SERVING"
             => bound /\ Deps \subseteq wasUp /\ runner # "done"]_vars
  <2> SUFFICES ASSUME IInv, [Next]_vars, NEW n \in Names,
                      status[n] # "SERVING", status'[n] = "SERVING"
               PROVE  bound /\ Deps \subseteq wasUp /\ runner # "done"
    OBVIOUS
  <2>1. TypeOK /\ Counters /\ TickIsHonest
    BY DEF IInv
  <2>2. CASE Publish
    BY <2>1, <2>2 DEF Publish, TypeOK, Counters, TickIsHonest
  <2>3. CASE ~Publish
    BY <2>1, <2>3, StatusFrame DEF TypeOK
  <2> QED
    BY <2>2, <2>3
<1> QED
  BY <1>1, Invariance, PTL DEF Spec, ShownOnlyByFullTick

-----------------------------------------------------------------------------
(* The runner implements ReadinessGate.                                    *)

\* The gate and the shown names, as Runner maps them to ReadinessGate.
gateBar  == IF runner = "done" THEN "closed" ELSE IF bound THEN "open" ELSE "starting"
shownBar == [n \in Names |-> sup # "none" /\ status[n] = "SERVING"]

LEMMA GateInit == Init => Gate!Init
  BY DEF Init, Gate!Init

\* MarkBound opens the gate, the last FlipName closes it, Publish shows a name or
\* withdraws one, and every other step leaves it alone.
LEMMA GateStep == IInv /\ IInv' /\ [Next]_vars => [Gate!Next]_(Gate!gateVars)
<1> SUFFICES ASSUME IInv, IInv', [Next]_vars
             PROVE  Gate!Next \/ UNCHANGED <<gateBar, shownBar>>
  BY DEF Gate!gateVars, gateBar, shownBar
<1> USE DEF gateBar, shownBar
<1>1. /\ TypeOK /\ Counters /\ TickIsHonest /\ Withdrawn
      /\ TypeOK' /\ Counters' /\ Withdrawn'
  BY DEF IInv
<1>2. CASE RegisterName \/ SpawnSupervisor
  <2>1. sup = "none" /\ runner' \notin {"done"} /\ runner # "done" /\ bound' = bound
    BY <1>1, <1>2 DEF RegisterName, WriteNotServing, SpawnSupervisor, Counters
  <2>2. shownBar' = shownBar
    BY <1>1, <1>2, <2>1 DEF RegisterName, WriteNotServing, SpawnSupervisor, supVars, Withdrawn
  <2> QED
    BY <2>1, <2>2
<1>3. CASE FlipName
  <2>1. /\ runner = "flip" /\ sup = "exited" /\ sup' = sup /\ bound /\ bound' = bound
        /\ status' = [status EXCEPT ![rIdx] = "NOT_SERVING"]
        /\ runner' \in {"flip", "done"}
    BY <1>1, <1>3 DEF FlipName, WriteNotServing, Counters, supVars
  <2>2. CASE runner' = "done"
    <3>1. \A n \in Names : status'[n] = "NOT_SERVING"
      BY <1>1, <2>2 DEF Withdrawn
    <3>2. shownBar' = [n \in Names |-> FALSE]
      BY <3>1
    <3>3. gateBar = "open" /\ gateBar' = "closed"
      BY <2>1, <2>2
    <3>4. Gate!Close
      BY <3>2, <3>3 DEF Gate!Close
    <3> QED
      BY <3>4 DEF Gate!Next
  <2>3. CASE runner' = "flip"
    <3>1. rIdx \in Names /\ shownBar' = [shownBar EXCEPT ![rIdx] = FALSE]
      BY <1>1, <2>1 DEF TypeOK
    <3>2. gateBar # "closed" /\ gateBar' = gateBar
      BY <2>1, <2>3
    <3> QED
      BY <3>1, <3>2 DEF Gate!Next, Gate!Withdraw
  <2> QED
    BY <2>1, <2>2, <2>3
<1>4. CASE Publish
  <2>1. /\ sup = "publish" /\ sup' \in {"publish", "sleep"}
        /\ UNCHANGED <<runner, bound>>
        /\ status' = [status EXCEPT ![nIdx] = IF allOk THEN "SERVING" ELSE "NOT_SERVING"]
    BY <1>4 DEF Publish, runnerVars
  <2>2. runner # "done" /\ (allOk => bound) /\ nIdx \in Names
    BY <1>1, <2>1 DEF Counters, TickIsHonest, TypeOK
  <2>3. shownBar' = [shownBar EXCEPT ![nIdx] = allOk]
    BY <1>1, <2>1, <2>2 DEF TypeOK
  <2>4. CASE allOk
    <3>1. gateBar = "open" /\ gateBar' = gateBar
      BY <2>1, <2>2, <2>4
    <3> QED
      BY <2>2, <2>3, <2>4, <3>1 DEF Gate!Next, Gate!Show
  <2>5. CASE ~allOk
    <3>1. allOk = FALSE
      BY <1>1, <2>5 DEF TypeOK
    <3>2. gateBar # "closed" /\ gateBar' = gateBar
      BY <2>1, <2>2
    <3> QED
      BY <2>2, <2>3, <3>1, <3>2 DEF Gate!Next, Gate!Withdraw
  <2> QED
    BY <2>4, <2>5
<1>5. CASE MarkBound
  <2>1. /\ runner # "done" /\ runner' # "done" /\ bound' = TRUE
        /\ UNCHANGED <<sup, status>>
    BY <1>5 DEF MarkBound, supVars
  <2> QED
    BY <2>1 DEF Gate!Next, Gate!Open
<1>6. CASE ~(RegisterName \/ SpawnSupervisor \/ FlipName \/ Publish \/ MarkBound)
  <2>1. /\ UNCHANGED <<bound, status>>
        /\ sup' = "none" <=> sup = "none"
        /\ runner' = "done" <=> runner = "done"
    BY <1>6 DEF Next, RunnerStep, SupervisorStep, StartupPanics, BindUds, ParseTcp,
            ServeBinds, ServeEnds, AbortSupervisor, JoinSupervisor, DropRunner, BeginTick,
            CheckTransport, StartConnect, ProbeAnswers, ProbeTimesOut, Tally, ExitAborted,
            DepChanges, vars, runnerVars, supVars
  <2> QED
    BY <2>1
<1> QED
  BY <1>2, <1>3, <1>4, <1>5, <1>6

\* Every behaviour of the runner and its supervisor is one of the gate.
THEOREM ImplementsGate == Spec => GateSpec
  BY GateInit, GateStep, Invariance, PTL DEF Spec, GateSpec, Gate!Spec

-----------------------------------------------------------------------------
(* The shutdown.                                                           *)

Closing == {"abort", "join", "flip", "done", "dropped"}

\* The steps that run_kind has left at most, from the abort on.
RunnerLeft ==
  CASE runner = "abort" -> NNames + 2
    [] runner = "join"  -> NNames + 1
    [] runner = "flip"  -> (NNames - rIdx) + 1
    [] OTHER            -> 0

\* Those that an aborted supervisor has left: it parks, or publishes what its
\* tick found.
SupLeft ==
  CASE sup = "tick"    -> NNames + (IF pIdx = 0 THEN 3 ELSE 2)
    [] sup = "publish" -> (NNames - nIdx) + 2
    [] sup = "exited"  -> 0
    [] OTHER           -> 1

\* Whoever is joined was spawned and aborted.
Joinable ==
  /\ runner \in {"prepare", "mark", "listen", "serve", "abort", "join"} => sup # "none"
  /\ runner = "join" => aborted
  /\ aborted => runner \in Closing \ {"abort"} /\ sup # "none"

\* What run_kind waits for is there, or ExitAborted can bring it about.
JoinEnds == runner = "join" => sup = "exited" \/ (aborted /\ sup \notin {"none", "exited"})

LEMMA JoinableStep == TypeOK /\ Joinable /\ [Next]_vars => Joinable'
<1> SUFFICES ASSUME TypeOK, Joinable, [Next]_vars PROVE Joinable'
  OBVIOUS
<1> USE DEF Joinable, Closing
<1>1. CASE RegisterName \/ FlipName
  BY <1>1 DEF RegisterName, FlipName, WriteNotServing, supVars
<1>2. CASE \/ SpawnSupervisor \/ StartupPanics \/ BindUds \/ ParseTcp \/ MarkBound \/ ServeBinds
           \/ ServeEnds \/ AbortSupervisor \/ JoinSupervisor \/ DropRunner
  BY <1>2 DEF SpawnSupervisor, StartupPanics, BindUds, ParseTcp, MarkBound, ServeBinds,
              ServeEnds, AbortSupervisor, JoinSupervisor, DropRunner, supVars
<1>3. CASE SupervisorStep
  BY <1>3 DEF SupervisorStep, BeginTick, CheckTransport, StartConnect, ProbeAnswers,
              ProbeTimesOut, Publish, ExitAborted, Tally, runnerVars
<1>4. CASE DepChanges \/ UNCHANGED vars
  BY <1>4 DEF DepChanges, vars, runnerVars, supVars
<1> QED
  BY <1>1, <1>2, <1>3, <1>4 DEF Next, RunnerStep

\* A supervisor that was aborted comes to its end.
LEMMA SupervisorRunsOut ==
  ASSUME TypeOK, Joinable, aborted, Next
  PROVE  aborted' /\ SupLeft' <= SupLeft /\ (SupervisorStep => SupLeft' < SupLeft)
<1> USE DEF SupLeft, SupStates
<1>1. /\ NNames \in Nat \ {0} /\ NDeps \in Nat /\ nIdx \in 1 .. NNames /\ sup \in SupStates
      /\ pIdx \in Nat
  BY DEF TypeOK, Names
<1>2. CASE SupervisorStep
  <2>1. aborted' = aborted
    BY <1>2 DEF SupervisorStep, BeginTick, CheckTransport, StartConnect, ProbeAnswers,
                ProbeTimesOut, Publish, ExitAborted
  <2>2. CASE CheckTransport
    <3>1. sup = "tick" /\ pIdx = 0 /\ nIdx' = 1 /\ pIdx' = 1 /\ sup' \in {"publish", "tick"}
      BY <2>2 DEF CheckTransport, Tally
    <3> QED
      BY <1>1, <2>1, <3>1
  <2>3. CASE StartConnect
    BY <1>1, <2>1, <2>3 DEF StartConnect
  <2>4. CASE Publish
    <3>1. CASE nIdx = NNames
      BY <1>1, <2>1, <2>4, <3>1 DEF Publish
    <3>2. CASE nIdx # NNames
      BY <1>1, <2>1, <2>4, <3>2 DEF Publish
    <3> QED
      BY <3>1, <3>2
  <2>5. CASE ExitAborted
    BY <1>1, <2>1, <2>5 DEF ExitAborted
  <2> QED
    BY <1>2, <2>2, <2>3, <2>4, <2>5 DEF SupervisorStep, BeginTick, ProbeAnswers, ProbeTimesOut
<1>3. CASE ~SupervisorStep
  <2>1. runner # "spawn"
    BY DEF Joinable, Closing
  <2>2. aborted' /\ UNCHANGED supVars
    BY <1>3, <2>1 DEF Next, RunnerStep, RegisterName, FlipName, WriteNotServing, SpawnSupervisor,
         StartupPanics, BindUds, ParseTcp, MarkBound, ServeBinds, ServeEnds, AbortSupervisor,
         JoinSupervisor, DropRunner, DepChanges
  <2> QED
    BY <1>1, <1>3, <2>2 DEF supVars
<1> QED
  BY <1>2, <1>3

\* So does a runner that is shutting down.
LEMMA RunnerRunsOut ==
  ASSUME TypeOK, Counters, runner \in Closing, Next
  PROVE  /\ runner' \in Closing /\ RunnerLeft' <= RunnerLeft
         /\ RunnerStep => RunnerLeft' < RunnerLeft
<1> USE DEF RunnerLeft, Closing
<1>1. NNames \in Nat \ {0} /\ rIdx \in 1 .. NNames /\ (runner = "join" => rIdx = 1)
  BY DEF TypeOK, Names, Counters
<1>2. CASE AbortSupervisor \/ JoinSupervisor
  BY <1>1, <1>2 DEF AbortSupervisor, JoinSupervisor
<1>3. CASE FlipName
  <2>1. CASE rIdx = NNames
    BY <1>1, <1>3, <2>1 DEF FlipName, WriteNotServing
  <2>2. CASE rIdx # NNames
    BY <1>1, <1>3, <2>2 DEF FlipName, WriteNotServing
  <2> QED
    BY <2>1, <2>2
<1>4. CASE DropRunner
  <2>1. ~RunnerStep
    BY <1>4 DEF DropRunner, RunnerStep, RegisterName, FlipName, WriteNotServing, SpawnSupervisor,
         BindUds, ParseTcp, MarkBound, ServeBinds, AbortSupervisor, JoinSupervisor
  <2> QED
    BY <1>1, <1>4, <2>1 DEF DropRunner
<1>5. CASE SupervisorStep \/ DepChanges
  <2>1. UNCHANGED <<runner, rIdx>>
    BY <1>5 DEF SupervisorStep, BeginTick, CheckTransport, StartConnect, ProbeAnswers,
         ProbeTimesOut, Publish, ExitAborted, DepChanges, runnerVars
  <2>2. RunnerStep => AbortSupervisor \/ JoinSupervisor \/ FlipName
    BY DEF RunnerStep, RegisterName, WriteNotServing, SpawnSupervisor,
         BindUds, ParseTcp, MarkBound, ServeBinds
  <2> QED
    BY <1>1, <1>2, <1>3, <2>1, <2>2
<1> QED
  BY <1>2, <1>3, <1>4, <1>5
     DEF Next, RunnerStep, RegisterName, WriteNotServing, SpawnSupervisor, StartupPanics,
         BindUds, ParseTcp, MarkBound, ServeBinds, ServeEnds

\* run_kind never waits for a supervisor that cannot end, and from the abort on
\* both sides have ever fewer steps left, however many names and endpoints there
\* are and whatever these do: the safety behind ShutdownCompletes.
THEOREM ShutdownRunsOut ==
  Spec => /\ []JoinEnds
          /\ [][/\ runner \in Closing =>
                     /\ runner' \in Closing /\ RunnerLeft' <= RunnerLeft
                     /\ RunnerStep => RunnerLeft' < RunnerLeft
                /\ aborted =>
                     /\ aborted' /\ SupLeft' <= SupLeft
                     /\ SupervisorStep => SupLeft' < SupLeft]_vars
<1> DEFINE Shrinks ==
       /\ runner \in Closing =>
            /\ runner' \in Closing /\ RunnerLeft' <= RunnerLeft
            /\ RunnerStep => RunnerLeft' < RunnerLeft
       /\ aborted =>
            /\ aborted' /\ SupLeft' <= SupLeft
            /\ SupervisorStep => SupLeft' < SupLeft
<1>1. Init => Joinable
  BY DEF Init, Joinable
<1>2. IInv /\ Joinable /\ [Next]_vars => Joinable'
  BY JoinableStep DEF IInv
<1>3. IInv /\ Joinable => JoinEnds
  BY DEF Joinable, JoinEnds
<1>4. IInv /\ Joinable /\ [Next]_vars => [Shrinks]_vars
  BY RunnerRunsOut, SupervisorRunsOut DEF IInv
<1> HIDE DEF Shrinks
<1>5. Spec => []JoinEnds /\ [][Shrinks]_vars
  BY <1>1, <1>2, <1>3, <1>4, Invariance, PTL DEF Spec
<1> QED
  BY <1>5 DEF Shrinks

-----------------------------------------------------------------------------
(* How long names may say what endpoints no longer justify: the safety     *)
(* behind RecoversWhenUp and DrainsWhenDown.                               *)

Midway == sup \in {"tick", "await", "publish"}

\* The supervisor's steps up to its next sleep: one for the transport, two for
\* each endpoint, one for each name.
TickLeft ==
  CASE sup = "tick"    -> NNames + (IF pIdx = 0 THEN 2 * NDeps + 1 ELSE 2 * (NDeps - pIdx) + 2)
    [] sup = "await"   -> NNames + 2 * (NDeps - pIdx) + 1
    [] sup = "publish" -> (NNames - nIdx) + 1
    [] OTHER           -> 0

WholeTick == NNames + 2 * NDeps + 2

\* The steps to a goal that every tick reaches which leads to it; one that does
\* not, having begun too early, is followed by one that does.
StepsTo(reached, leads, left) ==
  IF reached THEN 0 ELSE left + (IF leads THEN 0 ELSE WholeTick)

\* A server whose endpoints are all up.
AllUp == runner = "serve" /\ UpNow = Deps

Shown == \A n \in Names : status[n] = "SERVING"

RecoveryLeft == StepsTo(Shown /\ (Midway => allOk), Midway /\ allOk, TickLeft)

\* A supervisor that probes an endpoint which is not up.
Failing(d) == dep[d] # "up" /\ sup # "none" /\ ~aborted

Hidden == \A n \in Names : status[n] # "SERVING"

\* This tick has failed, or will when it comes to d.
Fails(d) == ~allOk \/ (sup # "publish" /\ pIdx <= d)

DrainLeft(d) == StepsTo(Hidden /\ (Midway => Fails(d)), Midway /\ Fails(d), TickLeft)

\* Some step of the supervisor is open: it is at a point where it waits for
\* nothing but its own timers and its endpoints' answers.
Probing == ~aborted /\ (sup \in {"start", "sleep"} \/ Midway)

Orderly == Joinable /\ (sup = "exited" => aborted)

LEMMA OrderlyStep == TypeOK /\ Orderly /\ [Next]_vars => Orderly'
<1> SUFFICES ASSUME TypeOK, Orderly, [Next]_vars PROVE Orderly'
  OBVIOUS
<1>1. Joinable'
  BY JoinableStep DEF Orderly
<1>2. sup' = "exited" => aborted'
  <2>1. CASE SupervisorStep
    BY <2>1 DEF Orderly, SupervisorStep, BeginTick, CheckTransport, StartConnect,
                ProbeAnswers, ProbeTimesOut, Publish, ExitAborted, Tally
  <2>2. CASE RunnerStep \/ StartupPanics \/ ServeEnds \/ DropRunner \/ DepChanges
    BY <2>2 DEF Orderly, RunnerStep, RegisterName, FlipName, WriteNotServing, SpawnSupervisor,
                StartupPanics, BindUds, ParseTcp, MarkBound, ServeBinds, ServeEnds,
                AbortSupervisor, JoinSupervisor, DropRunner, DepChanges, supVars
  <2> QED
    BY <2>1, <2>2 DEF Next, Orderly, vars, supVars
<1> QED
  BY <1>1, <1>2 DEF Orderly

LEMMA TickLeftType ==
  ASSUME TypeOK, TickIsHonest
  PROVE  /\ TickLeft \in 0 .. WholeTick - 1 /\ WholeTick \in Nat \ {0}
         /\ Midway => TickLeft > 0
<1>1. /\ NNames \in Nat \ {0} /\ NDeps \in Nat /\ nIdx \in 1 .. NNames
      /\ (sup = "tick" => pIdx \in 0 .. NDeps) /\ (sup = "await" => pIdx \in 1 .. NDeps)
  BY DEF TypeOK, TickIsHonest, Names, Deps
<1>2. CASE sup = "tick" /\ pIdx # 0
  BY <1>1, <1>2 DEF TickLeft, WholeTick, Midway
<1>3. CASE sup = "tick" /\ pIdx = 0
  BY <1>1, <1>3 DEF TickLeft, WholeTick, Midway
<1>4. CASE sup = "await"
  BY <1>1, <1>4 DEF TickLeft, WholeTick, Midway
<1>5. CASE sup = "publish"
  BY <1>1, <1>5 DEF TickLeft, WholeTick, Midway
<1>6. CASE ~Midway
  BY <1>1, <1>6 DEF TickLeft, WholeTick, Midway
<1> QED
  BY <1>2, <1>3, <1>4, <1>5, <1>6 DEF Midway

\* Every step of a supervisor that is not aborted begins a tick or brings it
\* nearer to its end.
LEMMA TickAdvances ==
  ASSUME TypeOK, TickIsHonest, SupervisorStep, ~aborted
  PROVE  \/ ~Midway /\ Midway' /\ BeginTick /\ TickLeft' = WholeTick - 1
         \/ Midway /\ Midway' /\ ~BeginTick /\ TickLeft' < TickLeft
         \/ Midway /\ ~Midway' /\ Publish /\ nIdx = NNames /\ TickLeft' = 0
<1>1. /\ NNames \in Nat \ {0} /\ NDeps \in Nat /\ nIdx \in 1 .. NNames
      /\ (sup = "tick" => pIdx \in 0 .. NDeps) /\ (sup = "await" => pIdx \in 1 .. NDeps)
  BY DEF TypeOK, TickIsHonest, Names, Deps
<1> USE DEF Midway
<1>2. CASE BeginTick
  BY <1>1, <1>2 DEF BeginTick, TickLeft, WholeTick
<1>3. CASE CheckTransport
  <2>1. /\ sup = "tick" /\ pIdx = 0 /\ pIdx' = 1 /\ nIdx' = 1
        /\ sup' = IF NDeps = 0 THEN "publish" ELSE "tick"
    BY <1>1, <1>3 DEF CheckTransport, Tally
  <2>2. TickLeft = NNames + 2 * NDeps + 1
    BY <1>1, <2>1 DEF TickLeft
  <2>3. TickLeft' < TickLeft
    BY <1>1, <2>1, <2>2 DEF TickLeft
  <2> QED
    BY <2>1, <2>3 DEF BeginTick
<1>4. CASE StartConnect
  <2>1. /\ sup = "tick" /\ sup' = "await" /\ pIdx' = pIdx /\ pIdx \in 1 .. NDeps
    BY <1>1, <1>4 DEF StartConnect, Deps
  <2> QED
    BY <1>1, <2>1 DEF TickLeft, BeginTick
<1>5. CASE ProbeAnswers \/ ProbeTimesOut
  <2>1. /\ sup = "await" /\ pIdx' = pIdx + 1 /\ nIdx' = 1
        /\ sup' = IF pIdx = NDeps THEN "publish" ELSE "tick"
    BY <1>5 DEF ProbeAnswers, ProbeTimesOut, Tally
  <2>2. TickLeft = NNames + 2 * (NDeps - pIdx) + 1
    BY <1>1, <2>1 DEF TickLeft
  <2>3. TickLeft' < TickLeft
    BY <1>1, <2>1, <2>2 DEF TickLeft
  <2> QED
    BY <2>1, <2>3 DEF BeginTick
<1>6. CASE Publish
  <2>1. CASE nIdx = NNames
    BY <1>1, <1>6, <2>1 DEF Publish, TickLeft
  <2>2. CASE nIdx # NNames
    BY <1>1, <1>6, <2>2 DEF Publish, TickLeft, BeginTick
  <2> QED
    BY <2>1, <2>2
<1>7. ~ExitAborted
  BY DEF ExitAborted
<1> HIDE DEF Midway
<1> QED
  BY <1>2, <1>3, <1>4, <1>5, <1>6, <1>7, ZenonT(30) DEF SupervisorStep

LEMMA TickLeftNext == ASSUME TypeOK', TickIsHonest' PROVE TickLeft' \in Nat
<1>1. /\ NNames \in Nat \ {0} /\ NDeps \in Nat /\ nIdx' \in 1 .. NNames
      /\ (sup' = "tick" => pIdx' \in 0 .. NDeps) /\ (sup' = "await" => pIdx' \in 1 .. NDeps)
  BY DEF TypeOK, TickIsHonest, Names, Deps
<1> QED
  BY <1>1 DEF TickLeft

\* Fewer steps before one more tick are fewer.
LEMMA OneMoreTick ==
  ASSUME NEW p \in Nat, NEW q \in Nat, NEW w \in Nat \ {0}, p < q, NEW n \in {0, p, p + w}
  PROVE  n <= q + w /\ n < q + w
  OBVIOUS

\* A goal comes nearer with every step of the supervisor if what is reached
\* stays so, a tick that begins leads to it, and one that leads to it goes on
\* leading until it is through.
LEMMA Nearer ==
  ASSUME TypeOK, TickIsHonest, TypeOK', TickIsHonest', SupervisorStep, ~aborted,
         NEW before, NEW after, NEW q, q = TickLeft, NEW p, p = TickLeft',
         before \in {0, q, q + WholeTick},
         after \in {0, p, p + WholeTick},
         before = 0 => after = 0,
         ~Midway => before \in {0, WholeTick},
         BeginTick => after \in {0, p},
         Midway /\ before = q => after \in {0, p} /\ (Midway' \/ after = 0)
  PROVE  after <= before /\ (before > 0 => after < before)
<1>1. /\ q \in 0 .. WholeTick - 1 /\ WholeTick \in Nat \ {0}
      /\ Midway => q > 0
      /\ ~Midway => q = 0
  BY TickLeftType DEF TickLeft, Midway
<1>2. p \in Nat
  BY TickLeftNext
<1>3. CASE ~Midway /\ BeginTick /\ p = WholeTick - 1
  <2>1. q = 0 /\ p < WholeTick /\ before \in {0, WholeTick} /\ after \in {0, p}
    BY <1>1, <1>2, <1>3
  <2> QED
    BY <1>1, <1>2, <2>1
<1>4. CASE Midway /\ Midway' /\ p < q
  <2>1. before = q => after \in {0, p}
    BY <1>4
  <2>2. q \in Nat /\ p \in Nat /\ WholeTick \in Nat \ {0}
    BY <1>1, <1>2
  <2>3. /\ p < q /\ before \in {0, q, q + WholeTick} /\ after \in {0, p, p + WholeTick}
        /\ before = q => after \in {0, p}
    BY <1>4, <2>1, Zenon
  <2>4. CASE before = 0
    BY <2>4
  <2>5. CASE before = q
    BY <2>1, <2>2, <2>3, <2>5
  <2>6. CASE before = q + WholeTick
    <3>1. after <= q + WholeTick /\ after < q + WholeTick
      BY <2>2, <2>3, OneMoreTick, Zenon
    <3> QED
      BY <2>6, <3>1, Zenon
  <2> QED
    BY <2>3, <2>4, <2>5, <2>6
<1>5. CASE Midway /\ ~Midway' /\ p = 0
  <2>1. /\ p = 0 /\ q > 0 /\ before \in {0, q, q + WholeTick} /\ after \in {0, WholeTick}
        /\ before = q => after = 0
    BY <1>1, <1>2, <1>5
  <2> QED
    BY <1>1, <1>2, <2>1
<1> QED
  BY <1>3, <1>4, <1>5, TickAdvances

LEMMA StepsToCases ==
  ASSUME NEW r \in BOOLEAN, NEW l \in BOOLEAN, NEW left \in Nat
  PROVE  /\ r => StepsTo(r, l, left) = 0
         /\ ~r /\ l => StepsTo(r, l, left) = left
         /\ ~r /\ ~l => StepsTo(r, l, left) = left + WholeTick
<1>1. left + 0 = left
  OBVIOUS
<1> QED
  BY <1>1, Zenon DEF StepsTo

\* One step of the supervisor while the server serves and every endpoint is up:
\* what has been shown stays, and what a good tick has found is shown.
LEMMA RecoveryStep ==
  ASSUME IInv, IInv', SupervisorStep, ~aborted, AllUp
  PROVE  /\ Shown /\ (Midway => allOk) => Shown' /\ (Midway' => allOk')
         /\ BeginTick => allOk'
         /\ Midway /\ allOk => allOk'
         /\ Midway /\ allOk /\ ~Midway' => Shown'
<1>1. /\ bound /\ \A d \in Deps : dep[d] = "up"
      /\ allOk \in BOOLEAN /\ NNames \in Nat \ {0} /\ nIdx \in Names
      /\ status \in [Names -> {"SERVING", "NOT_SERVING", "UNKNOWN"}]
      /\ sup = "await" => pIdx \in Deps
  BY DEF IInv, Counters, AllUp, UpNow, TypeOK, TickIsHonest
<1>2. CASE ~Publish
  <2>1. status' = status
    BY <1>2 DEF SupervisorStep, BeginTick, CheckTransport, StartConnect, ProbeAnswers,
                ProbeTimesOut, ExitAborted
  <2>2. Shown' = Shown
    BY <2>1 DEF Shown
  <2>3. Midway' /\ (~Midway => BeginTick)
    BY <1>2 DEF SupervisorStep, BeginTick, CheckTransport, StartConnect, ProbeAnswers,
                ProbeTimesOut, ExitAborted, Tally, Midway
  <2>4. BeginTick => allOk'
    BY DEF BeginTick
  <2>5. ASSUME ~BeginTick, allOk PROVE allOk'
    <3>1. CASE CheckTransport
      BY <1>1, <2>5, <3>1, Zenon DEF CheckTransport, Tally
    <3>2. CASE StartConnect
      BY <2>5, <3>2 DEF StartConnect
    <3>3. CASE ProbeAnswers
      <4>1. dep[pIdx] = "up"
        BY <1>1, <3>3 DEF ProbeAnswers
      <4> QED
        BY <2>5, <3>3, <4>1, Zenon DEF ProbeAnswers, Tally
    <3>4. ~ProbeTimesOut /\ ~ExitAborted
      BY <1>1 DEF ProbeTimesOut, ExitAborted
    <3> QED
      BY <1>2, <2>5, <3>1, <3>2, <3>3, <3>4, Zenon DEF SupervisorStep
  <2> QED
    BY <2>2, <2>3, <2>4, <2>5, Zenon
<1>3. CASE Publish
  <2>1. /\ allOk' = allOk /\ sup = "publish"
        /\ status' = [status EXCEPT ![nIdx] = IF allOk THEN "SERVING" ELSE "NOT_SERVING"]
    BY <1>3 DEF Publish
  <2>2. ASSUME Shown, allOk PROVE Shown'
    BY <1>1, <2>1, <2>2 DEF Shown
  <2>3. ASSUME allOk, ~Midway' PROVE Shown'
    <3>1. nIdx = NNames
      BY <1>3, <2>3 DEF Publish, Midway
    <3>2. \A n \in Names : n < nIdx => status[n] = "SERVING"
      BY <2>1, <2>3 DEF IInv, Alike
    <3>3. \A n \in Names : n < nIdx \/ n = nIdx
      BY <1>1, <3>1 DEF Names
    <3> QED
      BY <1>1, <2>1, <2>3, <3>2, <3>3 DEF Shown
  <2>4. Midway /\ ~BeginTick
    BY <2>1 DEF Midway, BeginTick
  <2> QED
    BY <2>1, <2>2, <2>3, <2>4, Zenon
<1> QED
  BY <1>2, <1>3

\* The same for an endpoint that is not up: what is hidden stays so, and what
\* a failed tick has found is hidden.
LEMMA DrainStep ==
  ASSUME IInv, IInv', SupervisorStep, NEW d \in Deps, Failing(d)
  PROVE  /\ Hidden /\ (Midway => Fails(d)) => Hidden' /\ (Midway' => Fails(d)')
         /\ BeginTick => Fails(d)'
         /\ Midway /\ Fails(d) /\ Midway' => Fails(d)'
         /\ Midway /\ Fails(d) /\ ~Midway' => Hidden'
<1>1. /\ dep[d] # "up" /\ d \in Nat \ {0} /\ d <= NDeps /\ NDeps \in Nat
      /\ NNames \in Nat \ {0} /\ nIdx \in Names /\ pIdx \in Nat /\ ~aborted
      /\ status \in [Names -> {"SERVING", "NOT_SERVING", "UNKNOWN"}]
      /\ (sup = "tick" => pIdx \in 0 .. NDeps) /\ (sup = "await" => pIdx \in Deps)
  BY DEF IInv, Failing, TypeOK, TickIsHonest, Deps
<1>2. CASE ~Publish
  <2>1. status' = status
    BY <1>2 DEF SupervisorStep, BeginTick, CheckTransport, StartConnect, ProbeAnswers,
                ProbeTimesOut, ExitAborted
  <2>2. Hidden' = Hidden
    BY <2>1 DEF Hidden
  <2>3. Midway' /\ (~Midway => BeginTick)
    BY <1>1, <1>2 DEF SupervisorStep, BeginTick, CheckTransport, StartConnect, ProbeAnswers,
                ProbeTimesOut, ExitAborted, Tally, Midway
  <2>4. BeginTick => Fails(d)'
    BY <1>1 DEF BeginTick, Fails
  <2>5. ASSUME ~BeginTick, Fails(d) PROVE Fails(d)'
    <3>1. CASE StartConnect
      BY <1>1, <2>5, <3>1 DEF StartConnect, Fails
    <3>2. CASE CheckTransport \/ ProbeAnswers \/ ProbeTimesOut
      <4>1. PICK ok \in BOOLEAN : Tally(ok) /\ sup # "publish" /\ pIdx \in 0 .. NDeps /\ (pIdx = d => ~ok)
        <5>1. CASE CheckTransport
          BY <1>1, <5>1 DEF CheckTransport, IInv, TypeOK
        <5>2. CASE ProbeAnswers
          <6>1. sup = "await" /\ pIdx \in 0 .. NDeps /\ Tally(dep[pIdx] = "up")
            BY <1>1, <5>2 DEF ProbeAnswers, Deps
          <6> QED
            BY <1>1, <6>1
        <5>3. CASE ProbeTimesOut
          <6>1. sup = "await" /\ pIdx \in 0 .. NDeps
            BY <1>1, <5>3 DEF ProbeTimesOut, Deps
          <6>2. Tally(FALSE)
            BY <5>3, Zenon DEF ProbeTimesOut
          <6> QED
            BY <6>1, <6>2
        <5> QED
          BY <3>2, <5>1, <5>2, <5>3
      <4>2. CASE ~allOk \/ ~ok
        BY <4>1, <4>2, Zenon DEF Tally, Fails
      <4>3. CASE allOk /\ ok
        <5>1. pIdx < d
          BY <1>1, <2>5, <4>1, <4>3 DEF Fails
        <5>2. sup' = "tick" /\ pIdx' = pIdx + 1
          BY <1>1, <4>1, <5>1 DEF Tally
        <5> QED
          BY <1>1, <4>1, <5>1, <5>2 DEF Fails
      <4> QED
        BY <4>2, <4>3
    <3> QED
      BY <1>1, <1>2, <2>5, <3>1, <3>2 DEF SupervisorStep, ExitAborted
  <2> QED
    BY <2>2, <2>3, <2>4, <2>5, Zenon
<1>3. CASE Publish
  <2>1. /\ allOk' = allOk /\ sup = "publish"
        /\ status' = [status EXCEPT ![nIdx] = IF allOk THEN "SERVING" ELSE "NOT_SERVING"]
    BY <1>3 DEF Publish
  <2>2. Fails(d) => ~allOk
    BY <2>1 DEF Fails
  <2>3. ASSUME Hidden, ~allOk PROVE Hidden'
    BY <1>1, <2>1, <2>3 DEF Hidden
  <2>4. ASSUME ~allOk, ~Midway' PROVE Hidden'
    <3>1. nIdx = NNames
      BY <1>3, <2>4 DEF Publish, Midway
    <3>2. \A n \in Names : n < nIdx => status[n] = "NOT_SERVING"
      BY <2>1, <2>4 DEF IInv, Alike
    <3>3. \A n \in Names : n < nIdx \/ n = nIdx
      BY <1>1, <3>1 DEF Names
    <3> QED
      BY <1>1, <2>1, <2>4, <3>2, <3>3 DEF Hidden
  <2>5. Midway /\ ~BeginTick
    BY <2>1 DEF Midway, BeginTick
  <2>6. ~allOk' => Fails(d)'
    BY DEF Fails
  <2> QED
    BY <2>1, <2>2, <2>3, <2>4, <2>5, <2>6, Zenon
<1> QED
  BY <1>2, <1>3

\* The numbers of steps, and how they follow from the goals.
LEMMA Lefts ==
  ASSUME IInv, IInv', NEW r \in BOOLEAN, NEW l \in BOOLEAN, NEW s \in BOOLEAN, NEW m \in BOOLEAN,
         SupervisorStep, ~aborted,
         r => s, BeginTick => m, l => Midway, m => Midway', l => m \/ s
  PROVE  /\ StepsTo(s, m, TickLeft') <= StepsTo(r, l, TickLeft)
         /\ StepsTo(r, l, TickLeft) > 0 => StepsTo(s, m, TickLeft') < StepsTo(r, l, TickLeft)
<1>1. PICK q, p : q = TickLeft /\ p = TickLeft'
  OBVIOUS
<1>2. /\ q \in Nat /\ p \in Nat /\ WholeTick \in Nat \ {0}
      /\ TypeOK /\ TickIsHonest /\ TypeOK' /\ TickIsHonest'
      /\ (~Midway => q = 0) /\ (Midway => q > 0)
  BY <1>1, TickLeftNext, TickLeftType DEF IInv, Midway, TickLeft
<1>3. PICK before, after : before = StepsTo(r, l, q) /\ after = StepsTo(s, m, p)
  OBVIOUS
<1>4. /\ r => before = 0
      /\ ~r /\ l => before = q
      /\ ~r /\ ~l => before = q + WholeTick
  BY <1>2, <1>3, StepsToCases
<1>5. /\ s => after = 0
      /\ ~s /\ m => after = p
      /\ ~s /\ ~m => after = p + WholeTick
  BY <1>2, <1>3, StepsToCases
<1>6. /\ before \in {0, q, q + WholeTick}
      /\ after \in {0, p, p + WholeTick}
      /\ BeginTick => after \in {0, p}
  BY <1>4, <1>5, Zenon
<1>7. before = 0 => after = 0
  <2>1. q + WholeTick # 0 /\ (l => q # 0)
    BY <1>2
  <2> QED
    BY <2>1, <1>4, <1>5, Zenon
<1>8. ~Midway => before \in {0, WholeTick}
  <2>1. ~Midway => ~l /\ q + WholeTick = WholeTick
    BY <1>2
  <2> QED
    BY <2>1, <1>4, Zenon
<1>9. Midway /\ before = q => after \in {0, p} /\ (Midway' \/ after = 0)
  <2>1. Midway => q # 0 /\ q # q + WholeTick
    BY <1>2
  <2> QED
    BY <2>1, <1>4, <1>5, Zenon
<1>10. after <= before /\ (before > 0 => after < before)
  BY <1>1, <1>2, <1>6, <1>7, <1>8, <1>9, Nearer
<1> QED
  BY <1>1, <1>3, <1>10

LEMMA RecoveryNearer ==
  ASSUME IInv, IInv', SupervisorStep, ~aborted, AllUp
  PROVE  RecoveryLeft' <= RecoveryLeft /\ (RecoveryLeft > 0 => RecoveryLeft' < RecoveryLeft)
<1> DEFINE r == Shown /\ (Midway => allOk)
           l == Midway /\ allOk
<1>1. BeginTick => Midway'
  BY DEF BeginTick, Midway
<1>2. /\ r => r'
      /\ BeginTick => l'
      /\ l => l' \/ r'
  BY <1>1, RecoveryStep, Zenon
<1>3. r \in BOOLEAN /\ l \in BOOLEAN /\ r' \in BOOLEAN /\ l' \in BOOLEAN
  BY DEF Shown
<1>4. (l => Midway) /\ (l' => Midway')
  OBVIOUS
<1> HIDE DEF r, l
<1>5. /\ StepsTo(r', l', TickLeft') <= StepsTo(r, l, TickLeft)
      /\ StepsTo(r, l, TickLeft) > 0 => StepsTo(r', l', TickLeft') < StepsTo(r, l, TickLeft)
  BY <1>2, <1>3, <1>4, Lefts
<1> QED
  BY <1>5 DEF RecoveryLeft, r, l

LEMMA DrainNearer ==
  ASSUME IInv, IInv', SupervisorStep, NEW d \in Deps, Failing(d)
  PROVE  DrainLeft(d)' <= DrainLeft(d) /\ (DrainLeft(d) > 0 => DrainLeft(d)' < DrainLeft(d))
<1> DEFINE r == Hidden /\ (Midway => Fails(d))
           l == Midway /\ Fails(d)
<1>1. (BeginTick => Midway') /\ ~aborted
  BY DEF BeginTick, Midway, Failing
<1>2. /\ r => r'
      /\ BeginTick => l'
      /\ l => l' \/ r'
  BY <1>1, DrainStep, Zenon
<1>3. r \in BOOLEAN /\ l \in BOOLEAN /\ r' \in BOOLEAN /\ l' \in BOOLEAN
  BY DEF Hidden, Fails
<1>4. (l => Midway) /\ (l' => Midway')
  OBVIOUS
<1> HIDE DEF r, l
<1>5. /\ StepsTo(r', l', TickLeft') <= StepsTo(r, l, TickLeft)
      /\ StepsTo(r, l, TickLeft) > 0 => StepsTo(r', l', TickLeft') < StepsTo(r, l, TickLeft)
  BY <1>1, <1>2, <1>3, <1>4, Lefts
<1> QED
  BY <1>5 DEF DrainLeft, r, l

\* Nobody else moves the supervisor, and before the abort nobody else writes a
\* name.
LEMMA OthersLeave ==
  ASSUME IInv, Orderly, Next, ~SupervisorStep, sup \notin {"none", "exited"}
  PROVE  UNCHANGED <<supVars, status>>
<1>1. runner \notin {"register", "spawn", "flip"}
  BY DEF IInv, Counters
<1> QED
  BY <1>1 DEF Next, RunnerStep, RegisterName, FlipName, WriteNotServing, SpawnSupervisor,
       StartupPanics, BindUds, ParseTcp, MarkBound, ServeBinds, ServeEnds, AbortSupervisor,
       JoinSupervisor, DropRunner, DepChanges

LEMMA LeavesCounts ==
  ASSUME UNCHANGED <<supVars, status>>
  PROVE  RecoveryLeft' = RecoveryLeft /\ \A d \in Deps : DrainLeft(d)' = DrainLeft(d)
<1>1. TickLeft' = TickLeft /\ Midway' = Midway /\ allOk' = allOk
  BY DEF TickLeft, Midway, supVars
<1>2. Shown' = Shown /\ Hidden' = Hidden
  BY DEF Shown, Hidden
<1>3. \A d \in Deps : Fails(d)' = Fails(d)
  BY DEF Fails, supVars
<1> QED
  BY <1>1, <1>2, <1>3 DEF RecoveryLeft, DrainLeft

\* Before two ticks have gone by a goal is reached or leads on.
LEMMA WithinTwoTicks ==
  ASSUME IInv, NEW r \in BOOLEAN, NEW l \in BOOLEAN
  PROVE  /\ StepsTo(r, l, TickLeft) \in 0 .. 2 * WholeTick - 1
         /\ (l => Midway) => (StepsTo(r, l, TickLeft) = 0 => r)
<1>1. PICK q : q = TickLeft
  OBVIOUS
<1>2. q \in 0 .. WholeTick - 1 /\ WholeTick \in Nat \ {0} /\ (Midway => q > 0)
  BY <1>1, TickLeftType DEF IInv
<1>3. /\ r => StepsTo(r, l, q) = 0
      /\ ~r /\ l => StepsTo(r, l, q) = q
      /\ ~r /\ ~l => StepsTo(r, l, q) = q + WholeTick
  BY <1>2, StepsToCases
<1>4. 0 \in 0 .. 2 * WholeTick - 1 /\ q \in 0 .. 2 * WholeTick - 1
      /\ q + WholeTick \in 0 .. 2 * WholeTick - 1 /\ q + WholeTick # 0
  BY <1>2
<1>5. Midway => q # 0
  BY <1>2
<1> QED
  BY <1>1, <1>3, <1>4, <1>5, Zenon

LEMMA Alive ==
  ASSUME IInv, Orderly
  PROVE  (AllUp => Probing) /\ \A d \in Deps : Failing(d) => Probing
<1>1. AllUp => sup # "none" /\ ~aborted
  BY DEF Orderly, Joinable, AllUp, Closing
<1>2. sup # "none" /\ ~aborted => Probing
  BY DEF IInv, TypeOK, SupStates, Orderly, Probing, Midway
<1> QED
  BY <1>1, <1>2 DEF Failing

\* While a server whose endpoints are all up serves, its supervisor is fewer
\* than two ticks from saying so for every name, each of its steps takes it
\* nearer, no step of anybody else takes it back, and what is said stays said.
THEOREM RecoveryRunsOut ==
  Spec => /\ [](AllUp => /\ Probing /\ RecoveryLeft \in 0 .. 2 * WholeTick - 1
                         /\ RecoveryLeft = 0 => Shown)
          /\ [][AllUp => /\ RecoveryLeft' <= RecoveryLeft
                         /\ SupervisorStep /\ RecoveryLeft > 0 => RecoveryLeft' < RecoveryLeft]_vars
<1> DEFINE Within == AllUp => /\ Probing /\ RecoveryLeft \in 0 .. 2 * WholeTick - 1
                              /\ RecoveryLeft = 0 => Shown
           Nears == AllUp => /\ RecoveryLeft' <= RecoveryLeft
                             /\ SupervisorStep /\ RecoveryLeft > 0 => RecoveryLeft' < RecoveryLeft
<1>1. Init => Orderly
  BY DEF Init, Orderly, Joinable
<1>2. IInv /\ Orderly /\ [Next]_vars => Orderly'
  BY OrderlyStep DEF IInv
<1>3. ASSUME IInv, Orderly PROVE RecoveryLeft \in 0 .. 2 * WholeTick - 1 /\ (RecoveryLeft = 0 => Shown)
  <2> DEFINE r == Shown /\ (Midway => allOk)
             l == Midway /\ allOk
  <2>1. r \in BOOLEAN /\ l \in BOOLEAN /\ (r => Shown) /\ (l => Midway)
    BY DEF Shown
  <2> HIDE DEF r, l
  <2>2. StepsTo(r, l, TickLeft) \in 0 .. 2 * WholeTick - 1 /\ (StepsTo(r, l, TickLeft) = 0 => r)
    BY <1>3, <2>1, WithinTwoTicks
  <2>3. RecoveryLeft = StepsTo(r, l, TickLeft)
    BY DEF RecoveryLeft, r, l
  <2> QED
    BY <2>1, <2>2, <2>3
<1>4. IInv /\ Orderly => Within
  BY <1>3, Alive
<1>5. ASSUME IInv, IInv', Orderly, Next PROVE Nears
  <2> SUFFICES ASSUME AllUp
               PROVE  /\ RecoveryLeft' <= RecoveryLeft
                      /\ SupervisorStep /\ RecoveryLeft > 0 => RecoveryLeft' < RecoveryLeft
    OBVIOUS
  <2>1. ~aborted /\ sup \notin {"none", "exited"}
    BY <1>5, Alive DEF Probing, Midway
  <2>2. CASE SupervisorStep
    BY <1>5, <2>1, <2>2, RecoveryNearer
  <2>3. CASE ~SupervisorStep
    <3>1. RecoveryLeft' = RecoveryLeft
      BY <1>5, <2>1, <2>3, OthersLeave, LeavesCounts
    <3> QED
      BY <1>3, <1>5, <2>3, <3>1
  <2> QED
    BY <2>2, <2>3
<1> HIDE DEF Within, Nears
<1>6. IInv /\ IInv' /\ Orderly /\ [Next]_vars => [Nears]_vars
  BY <1>5
<1>7. Spec => []Within /\ [][Nears]_vars
  BY <1>1, <1>2, <1>4, <1>6, Invariance, PTL DEF Spec
<1> QED
  BY <1>7 DEF Within, Nears

\* While an endpoint is not up, whether it refuses, hangs or panics, a
\* supervisor that is not aborted is fewer than two ticks from saying SERVING
\* for no name, and gets there in the same way.
THEOREM DrainRunsOut ==
  Spec => /\ [](\A d \in Deps : Failing(d) =>
                  /\ Probing /\ DrainLeft(d) \in 0 .. 2 * WholeTick - 1
                  /\ DrainLeft(d) = 0 => Hidden)
          /\ [][\A d \in Deps : Failing(d) =>
                  /\ DrainLeft(d)' <= DrainLeft(d)
                  /\ SupervisorStep /\ DrainLeft(d) > 0 => DrainLeft(d)' < DrainLeft(d)]_vars
<1> DEFINE Within == \A d \in Deps : Failing(d) =>
                       /\ Probing /\ DrainLeft(d) \in 0 .. 2 * WholeTick - 1
                       /\ DrainLeft(d) = 0 => Hidden
           Nears == \A d \in Deps : Failing(d) =>
                      /\ DrainLeft(d)' <= DrainLeft(d)
                      /\ SupervisorStep /\ DrainLeft(d) > 0 => DrainLeft(d)' < DrainLeft(d)
<1>1. Init => Orderly
  BY DEF Init, Orderly, Joinable
<1>2. IInv /\ Orderly /\ [Next]_vars => Orderly'
  BY OrderlyStep DEF IInv
<1>3. ASSUME IInv, Orderly, NEW d \in Deps
      PROVE  DrainLeft(d) \in 0 .. 2 * WholeTick - 1 /\ (DrainLeft(d) = 0 => Hidden)
  <2> DEFINE r == Hidden /\ (Midway => Fails(d))
             l == Midway /\ Fails(d)
  <2>1. r \in BOOLEAN /\ l \in BOOLEAN /\ (r => Hidden) /\ (l => Midway)
    BY DEF Hidden, Fails
  <2> HIDE DEF r, l
  <2>2. StepsTo(r, l, TickLeft) \in 0 .. 2 * WholeTick - 1 /\ (StepsTo(r, l, TickLeft) = 0 => r)
    BY <1>3, <2>1, WithinTwoTicks
  <2>3. DrainLeft(d) = StepsTo(r, l, TickLeft)
    BY DEF DrainLeft, r, l
  <2> QED
    BY <2>1, <2>2, <2>3
<1>4. IInv /\ Orderly => Within
  BY <1>3, Alive
<1>5. ASSUME IInv, IInv', Orderly, Next PROVE Nears
  <2> SUFFICES ASSUME NEW d \in Deps, Failing(d)
               PROVE  /\ DrainLeft(d)' <= DrainLeft(d)
                      /\ SupervisorStep /\ DrainLeft(d) > 0 => DrainLeft(d)' < DrainLeft(d)
    OBVIOUS
  <2>1. ~aborted /\ sup \notin {"none", "exited"}
    BY <1>5, Alive DEF Probing, Midway
  <2>2. CASE SupervisorStep
    BY <1>5, <2>2, DrainNearer
  <2>3. CASE ~SupervisorStep
    <3>1. DrainLeft(d)' = DrainLeft(d)
      BY <1>5, <2>1, <2>3, OthersLeave, LeavesCounts
    <3> QED
      BY <1>3, <1>5, <2>3, <3>1
  <2> QED
    BY <2>2, <2>3
<1> HIDE DEF Within, Nears
<1>6. IInv /\ IInv' /\ Orderly /\ [Next]_vars => [Nears]_vars
  BY <1>5
<1>7. Spec => []Within /\ [][Nears]_vars
  BY <1>1, <1>2, <1>4, <1>6, Invariance, PTL DEF Spec
<1> QED
  BY <1>7 DEF Within, Nears
=============================================================================
