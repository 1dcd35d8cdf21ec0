--------------------------- MODULE ConnectionProofs ---------------------------
(***************************************************************************)
(* Proofs about Connection, for every policy, every environment and every  *)
(* set of constructor calls: create_channel implements BoundedRetry.  The  *)
(* argument: configuration is read once, and whoever cannot connect with   *)
(* it has made no attempt (Hopeless); a call that failed for good made all *)
(* of them, with a backoff before each but the first (Tried).              *)
(***************************************************************************)
EXTENDS Connection, TLAPS, FiniteSetTheorems

\* No attempt is made with a configuration that cannot work.
Hopeless == Refused # "none" \/ IsMalformed => attempt = 0

\* A call that gave up connecting has slept before every attempt but one.
Tried ==
  /\ result = "CONNECTION_FAILED" =>
       attempt = Policy.attempts /\ sleeps = Policy.attempts - 1
  /\ result = "none" => attempt = 0 \/ attempt < Policy.attempts

\* There is one backoff for each failed attempt, or still to come for the last.
InStep == attempt <= sleeps + 1

\* What the backoffs so far took.
Waited ==
  /\ slept <= Patience[sleeps] /\ slept <= sleeps * Policy.max
  /\ 2 * slept + sleeps >= Patience[sleeps]

IInv == TypeOK /\ Hopeless /\ Tried /\ InStep /\ Waited

-----------------------------------------------------------------------------
(* Recursion over the naturals.                                            *)

\* Induction over the naturals, for a set: were n missing from S, then x -> x + 1
\* would map what S has up to n into itself, and miss 0.
LEMMA SetInduction ==
  ASSUME NEW S, 0 \in S, \A n \in Nat : n \in S => n + 1 \in S
  PROVE  \A n \in Nat : n \in S
<1> SUFFICES ASSUME NEW n \in Nat, n \notin S PROVE FALSE
  OBVIOUS
<1> DEFINE T == S \cap (0 .. n)
           f == [x \in T |-> x + 1]
<1>1. IsFiniteSet(T)
  <2>1. IsFiniteSet(0 .. n)
    BY FS_Interval
  <2> QED
    BY <2>1, FS_Subset
<1>2. 0 \in T
  OBVIOUS
<1>3. f \in Injection(T, T \ {0})
  <2>1. \A x \in T : x + 1 \in T \ {0}
    OBVIOUS
  <2> QED
    BY <2>1 DEF Injection, IsInjective
<1> HIDE DEF T
<1>4. IsFiniteSet(T \ {0}) /\ Cardinality(T \ {0}) = Cardinality(T) - 1
  BY <1>1, <1>2, FS_RemoveElement
<1>5. Cardinality(T) <= Cardinality(T \ {0})
  BY <1>3, <1>4, FS_Injection
<1>6. Cardinality(T) \in Nat
  BY <1>1, FS_CardinalityType
<1> QED
  BY <1>4, <1>5, <1>6


\* g is the first n steps of a recursion: from a, step k by h.
Follows(g, n, V, a, h) ==
  /\ g \in [0 .. n -> V] /\ g[0] = a
  /\ \A k \in Nat : k < n => g[k + 1] = h[<<k, g[k]>>]

\* One step more.
LEMMA FollowsOn ==
  ASSUME NEW V, NEW a, NEW h \in [Nat \X V -> V], NEW n \in Nat, NEW g, Follows(g, n, V, a, h)
  PROVE  \E e : Follows(e, n + 1, V, a, h)
<1> DEFINE v == h[<<n, g[n]>>]
           e == [k \in 0 .. n + 1 |-> IF k = n + 1 THEN v ELSE g[k]]
<1>1. v \in V
  BY DEF Follows
<1>2. g \in [0 .. n -> V] /\ g[0] = a /\ \A k \in Nat : k < n => g[k + 1] = h[<<k, g[k]>>]
  BY DEF Follows
<1>3. e \in [0 .. n + 1 -> V] /\ e[0] = a
  BY <1>1, <1>2
<1>4. ASSUME NEW k \in Nat, k < n + 1 PROVE e[k + 1] = h[<<k, e[k]>>]
  <2>1. e[k] = g[k]
    BY <1>4
  <2>2. CASE k = n
    <3>1. e[k + 1] = v
      BY <2>2
    <3>2. <<k, e[k]>> = <<n, g[n]>>
      BY <2>1, <2>2
    <3> QED
      BY <3>1, <3>2
  <2>3. CASE k < n
    <3>1. e[k + 1] = g[k + 1]
      BY <2>3
    <3> QED
      BY <1>2, <2>1, <2>3, <3>1
  <2> QED
    BY <1>4, <2>2, <2>3
<1> HIDE DEF e, v
<1> QED
  BY <1>3, <1>4 DEF Follows

\* Two of them agree as far as both go.
LEMMA FollowsAgree ==
  ASSUME NEW V, NEW a, NEW h, NEW m \in Nat, NEW n \in Nat, m <= n,
         NEW f, Follows(f, m, V, a, h), NEW g, Follows(g, n, V, a, h)
  PROVE  f[m] = g[m]
<1> DEFINE S == {k \in Nat : k <= m => f[k] = g[k]}
<1>1. 0 \in S
  BY DEF Follows
<1>2. ASSUME NEW k \in Nat, k \in S PROVE k + 1 \in S
  <2> SUFFICES ASSUME k + 1 <= m PROVE f[k + 1] = g[k + 1]
    OBVIOUS
  <2>1. k < m /\ k < n /\ f[k] = g[k]
    BY <1>2
  <2> QED
    BY <2>1 DEF Follows
<1> HIDE DEF S
<1>3. \A k \in Nat : k \in S
  BY <1>1, <1>2, SetInduction
<1> QED
  BY <1>3 DEF S

\* g is all of it.
Recurs(g, V, a, h) ==
  g \in [Nat -> V] /\ g[0] = a /\ \A n \in Nat : g[n + 1] = h[<<n, g[n]>>]

\* A function of the naturals may be defined by primitive recursion.
LEMMA Recursion ==
  ASSUME NEW V, NEW a \in V, NEW h \in [Nat \X V -> V]
  PROVE  \E g : Recurs(g, V, a, h)
<1> DEFINE S == {n \in Nat : \E g : Follows(g, n, V, a, h)}
<1>1. 0 \in S
  <2>1. Follows([k \in 0 .. 0 |-> a], 0, V, a, h)
    BY DEF Follows
  <2> QED
    BY <2>1
<1>2. ASSUME NEW n \in Nat, n \in S PROVE n + 1 \in S
  BY <1>2, FollowsOn
<1>3. \A n \in Nat : n \in S
  <2> HIDE DEF S
  <2> QED
    BY <1>1, <1>2, SetInduction
<1> DEFINE upTo == [n \in Nat |-> CHOOSE g : Follows(g, n, V, a, h)]
           G == [n \in Nat |-> upTo[n][n]]
<1>4. \A n \in Nat : Follows(upTo[n], n, V, a, h)
  BY <1>3
<1> HIDE DEF S, upTo
<1>5. G \in [Nat -> V] /\ G[0] = a
  BY <1>4 DEF Follows
<1>6. ASSUME NEW n \in Nat PROVE G[n + 1] = h[<<n, G[n]>>]
  <2>1. n + 1 \in Nat /\ n <= n + 1
    OBVIOUS
  <2>2. Follows(upTo[n], n, V, a, h) /\ Follows(upTo[n + 1], n + 1, V, a, h)
    BY <1>4, <2>1
  <2>3. upTo[n][n] = upTo[n + 1][n]
    BY <2>1, <2>2, FollowsAgree
  <2>4. upTo[n + 1][n + 1] = h[<<n, upTo[n + 1][n]>>]
    BY <2>2 DEF Follows
  <2> QED
    BY <2>1, <2>3, <2>4
<1> HIDE DEF G
<1> QED
  BY <1>5, <1>6 DEF Recurs

\* The powers of two that compute_delay shifts to.
LEMMA Shifts == Shifted \in [Nat -> Nat]
<1> DEFINE h == [p \in Nat \X Nat |-> 2 * p[2]]
           a == 1
<1>1. h \in [Nat \X Nat -> Nat] /\ a \in Nat
  OBVIOUS
<1>2. \E g : Recurs(g, Nat, a, h)
  <2> HIDE DEF h, a
  <2> QED
    BY <1>1, Recursion
<1>3. PICK g : g \in [Nat -> Nat] /\ g[0] = 1 /\ \A n \in Nat : g[n + 1] = h[<<n, g[n]>>]
  BY <1>2 DEF Recurs
<1>4. ASSUME NEW n \in Nat, n # 0 PROVE g[n] = 2 * g[n - 1]
  <2>1. n - 1 \in Nat /\ (n - 1) + 1 = n
    BY <1>4
  <2>2. g[(n - 1) + 1] = h[<<n - 1, g[n - 1]>>] /\ g[n - 1] \in Nat
    BY <1>3, <2>1
  <2> QED
    BY <2>1, <2>2
<1>5. g = [n \in Nat |-> IF n = 0 THEN 1 ELSE 2 * g[n - 1]]
  BY <1>3, <1>4
<1>6. Shifted = [n \in Nat |-> IF n = 0 THEN 1 ELSE 2 * Shifted[n - 1]]
  BY <1>5 DEF Shifted
<1> DEFINE S == {n \in Nat : Shifted[n] \in Nat}
<1>7. 0 \in S
  BY <1>6
<1>8. ASSUME NEW n \in Nat, n \in S PROVE n + 1 \in S
  <2>1. Shifted[n + 1] = 2 * Shifted[n]
    BY <1>6
  <2> QED
    BY <1>8, <2>1
<1> HIDE DEF S
<1>9. \A n \in Nat : n \in S
  BY <1>7, <1>8, SetInduction
<1> QED
  BY <1>6, <1>9 DEF S

-----------------------------------------------------------------------------
(* Policies and delays.                                                    *)

\* A policy has a number of attempts, whoever chose it.
LEMMA PolicyType ==
  ASSUME call \in Calls
  PROVE  Policy.attempts \in Nat /\ Policy.min \in Nat /\ Policy.max \in Nat
BY ConnectionAssumption DEF Policy

\* A constructor that is refused knows why.
LEMMA RefusedType == Refused \in {"none"} \cup Codes
BY DEF Refused, ResolveError, Mode, ModeFromEnv, Codes

\* A delay before the jitter is at most the maximum, for any attempt.
LEMMA CappedType ==
  ASSUME call \in Calls, NEW n \in Nat
  PROVE  Capped(Policy, n) \in Nat /\ Capped(Policy, n) <= Policy.max
<1>1. Lesser(n, 30) \in Nat
  BY DEF Lesser
<1>2. Shifted[Lesser(n, 30)] \in Nat
  BY <1>1, Shifts
<1>3. Policy.min * Shifted[Lesser(n, 30)] \in Nat
  BY <1>2, PolicyType
<1> QED
  BY <1>3, PolicyType DEF Capped, Lesser

\* The jitter takes away no more than half of a delay.
LEMMA DelayBounds ==
  ASSUME call \in Calls, NEW n \in Nat, NEW d \in ComputeDelay(Policy, n)
  PROVE  d \in Nat /\ d <= Capped(Policy, n) /\ 2 * d + 1 >= Capped(Policy, n)
<1> DEFINE c == Capped(Policy, n)
<1>1. c \in Nat
  BY CappedType
<1>2. d \in (c \div 2) .. c \/ d = c
  BY DEF ComputeDelay
<1> HIDE DEF c
<1>3. c \div 2 \in Nat /\ 2 * (c \div 2) + 1 >= c
  BY <1>1
<1>4. d \in Nat /\ d <= c /\ 2 * d + 1 >= c
  BY <1>1, <1>2, <1>3
<1> QED
  BY <1>4 DEF c

\* Patience adds up the delays before the jitter.
LEMMA PatienceAdds ==
  ASSUME call \in Calls
  PROVE  /\ Patience \in [Nat -> Nat] /\ Patience[0] = 0
         /\ \A n \in Nat : Patience[n + 1] = Patience[n] + Capped(Policy, n)
<1> DEFINE cap == [n \in Nat |-> Capped(Policy, n)]
           h == [p \in Nat \X Nat |-> p[2] + cap[p[1]]]
           a == 0
<1>1. cap \in [Nat -> Nat]
  BY CappedType
<1>2. h \in [Nat \X Nat -> Nat] /\ a \in Nat
  <2> HIDE DEF cap
  <2> QED
    BY <1>1
<1>3. \E g : Recurs(g, Nat, a, h)
  <2> HIDE DEF h, a
  <2> QED
    BY <1>2, Recursion
<1>4. PICK g : g \in [Nat -> Nat] /\ g[0] = 0 /\ \A n \in Nat : g[n + 1] = h[<<n, g[n]>>]
  BY <1>3 DEF Recurs
<1>5. ASSUME NEW n \in Nat, n # 0 PROVE g[n] = g[n - 1] + Capped(Policy, n - 1)
  <2>1. n - 1 \in Nat /\ (n - 1) + 1 = n
    BY <1>5
  <2>2. g[(n - 1) + 1] = h[<<n - 1, g[n - 1]>>] /\ g[n - 1] \in Nat
    BY <1>4, <2>1
  <2>3. h[<<n - 1, g[n - 1]>>] = g[n - 1] + cap[n - 1]
    <3> HIDE DEF cap
    <3> QED
      BY <2>1, <2>2
  <2> QED
    BY <2>1, <2>2, <2>3
<1>6. g = [n \in Nat |-> IF n = 0 THEN 0 ELSE g[n - 1] + Capped(Policy, n - 1)]
  BY <1>4, <1>5
<1>7. Patience = [n \in Nat |-> IF n = 0 THEN 0 ELSE Patience[n - 1] + Capped(Policy, n - 1)]
  BY <1>6 DEF Patience
<1>8. Patience[0] = 0
  BY <1>7
<1>9. ASSUME NEW n \in Nat PROVE Patience[n + 1] = Patience[n] + Capped(Policy, n)
  <2>1. n + 1 \in Nat /\ n + 1 # 0 /\ (n + 1) - 1 = n
    OBVIOUS
  <2> QED
    BY <1>7, <2>1
<1> DEFINE S == {n \in Nat : Patience[n] \in Nat}
<1>10. ASSUME NEW n \in Nat, n \in S PROVE n + 1 \in S
  BY <1>9, <1>10, CappedType
<1>11. 0 \in S
  BY <1>8
<1> HIDE DEF S
<1>12. \A n \in Nat : n \in S
  BY <1>10, <1>11, SetInduction
<1>13. Patience \in [Nat -> Nat]
  BY <1>7, <1>12 DEF S
<1> QED
  BY <1>8, <1>9, <1>13

\* What a call is about, and what it may do, does not change while it runs.
LEMMA CallIsFixed ==
  ASSUME UNCHANGED <<env, call>>
  PROVE  /\ Policy' = Policy /\ Refused' = Refused
         /\ IsMalformed' = IsMalformed /\ Endpoint' = Endpoint
BY DEF Policy, Refused, ResolveError, Mode, ModeFromEnv, IsSet, IsMalformed, IsUds,
       Endpoint, ChEndpoint, Resolved

LEMMA PatienceIsFixed ==
  ASSUME UNCHANGED <<env, call>>
  PROVE  Patience' = Patience
<1>1. Policy' = Policy
  BY CallIsFixed
<1> QED
  BY <1>1 DEF Patience

\* Before a call there is no attempt.
LEMMA InitIInv == Init => IInv
<1> SUFFICES ASSUME Init PROVE IInv
  OBVIOUS
<1>1. Policy.attempts \in Nat /\ Policy.max \in Nat
  BY PolicyType DEF Init
<1>2. Patience[0] = 0
  BY PatienceAdds DEF Init
<1>3. TypeOK /\ Hopeless /\ Tried /\ InStep
  BY <1>1 DEF Init, TypeOK, Hopeless, Tried, InStep
<1>4. Waited
  BY <1>1, <1>2 DEF Init, Waited
<1> QED
  BY <1>3, <1>4 DEF IInv

\* Every step keeps the types, the count of attempts and sleeps, and what the
\* sleeps may take.
LEMMA NextIInv == IInv /\ [Next]_vars => IInv'
<1> SUFFICES ASSUME IInv, [Next]_vars PROVE IInv'
  OBVIOUS
<1> USE DEF IInv
<1>0. UNCHANGED <<env, call>>
  BY DEF Next, Step, RefuseConfiguration, Sleep, Connect, FailToConnect, InvalidUri,
         NoAttempts, Flap, vars
<1>1. /\ Policy' = Policy /\ Refused' = Refused /\ IsMalformed' = IsMalformed
      /\ Policy.attempts \in Nat /\ Policy.max \in Nat /\ Patience' = Patience
  BY <1>0, CallIsFixed, PolicyType, PatienceIsFixed DEF TypeOK
<1>2. CASE RefuseConfiguration
  BY <1>1, <1>2, RefusedType
     DEF RefuseConfiguration, TypeOK, Hopeless, Tried, InStep, Waited, Refused, ResolveError,
         Codes
<1>3. CASE Sleep
  <2>1. PICK d \in ComputeDelay(Policy, attempt - 1) : slept' = slept + d
    BY <1>3 DEF Sleep
  <2>2. sleeps \in Nat /\ attempt - 1 = sleeps /\ sleeps' = sleeps + 1 /\ slept \in Nat
    BY <1>1, <1>3 DEF Sleep, TypeOK, InStep
  <2> DEFINE c == Capped(Policy, sleeps)
             m == Policy.max
  <2>3. d \in Nat /\ d <= c /\ 2 * d + 1 >= c
    BY <2>1, <2>2, DelayBounds DEF TypeOK
  <2>4. c \in Nat /\ c <= m /\ m \in Nat
    BY <1>1, <2>2, CappedType DEF TypeOK
  <2>5. Patience[sleeps] \in Nat /\ Patience[sleeps + 1] = Patience[sleeps] + c
    BY <2>2, PatienceAdds DEF TypeOK
  <2>6. TypeOK' /\ Hopeless' /\ Tried' /\ InStep'
    BY <1>1, <1>3, <2>1, <2>2, <2>3 DEF Sleep, TypeOK, Hopeless, Tried, InStep, Connecting
  <2>7. slept <= Patience[sleeps] /\ slept <= sleeps * m /\ 2 * slept + sleeps >= Patience[sleeps]
    BY DEF Waited
  <2> HIDE DEF c, m
  <2>8. slept' <= Patience[sleeps'] /\ 2 * slept' + sleeps' >= Patience[sleeps']
    BY <2>1, <2>2, <2>3, <2>4, <2>5, <2>7
  <2>9. slept' <= sleeps' * m
    <3>1. (sleeps + 1) * m = sleeps * m + m /\ sleeps * m \in Nat
      BY <2>2, <2>4
    <3> QED
      BY <2>1, <2>2, <2>3, <2>4, <2>7, <3>1
  <2> QED
    BY <1>1, <2>6, <2>8, <2>9 DEF Waited, m
<1>4. CASE Connect
  BY <1>1, <1>4 DEF Connect, Ready, Connecting, TypeOK, Hopeless, Tried, InStep, Waited
<1>5. CASE FailToConnect
  BY <1>1, <1>5
     DEF FailToConnect, Ready, Connecting, TypeOK, Hopeless, Tried, InStep, Waited, Codes
<1>6. CASE InvalidUri \/ NoAttempts
  BY <1>1, <1>6
     DEF InvalidUri, NoAttempts, Ready, Connecting, TypeOK, Hopeless, Tried, InStep, Waited,
         Codes
<1>7. CASE Flap \/ UNCHANGED vars
  BY <1>1, <1>7 DEF Flap, vars, TypeOK, Hopeless, Tried, InStep, Waited
<1> QED
  BY <1>2, <1>3, <1>4, <1>5, <1>6, <1>7 DEF Next, Step

LEMMA Invariance == Spec => []IInv
<1>1. Init => IInv
  BY InitIInv
<1>2. IInv /\ [Next]_vars => IInv'
  BY NextIInv
<1> QED
  BY <1>1, <1>2, PTL DEF Spec

-----------------------------------------------------------------------------
\* create_channel's locals keep their types: attempts stay within the policy
\* and there is never a sleep without a failed attempt before it.
THEOREM TypeCorrect == Spec => []TypeOK
<1>1. IInv => TypeOK
  BY DEF IInv
<1> QED
  BY <1>1, Invariance, PTL

\* A caller of create_channel never waits longer than its policy allows for the
\* attempts made, whatever the jitter, nor less than half of it.
THEOREM BackoffBounded == Spec => []BackoffWithinPolicy
<1>1. IInv => BackoffWithinPolicy
  BY DEF IInv, Waited, Tried, BackoffWithinPolicy
<1> QED
  BY <1>1, Invariance, PTL

-----------------------------------------------------------------------------
(* Termination.                                                            *)

\* The steps that a constructor has left at most.
Left ==
  IF result # "none" THEN 0 ELSE 1 + (Policy.attempts - attempt) + (Policy.attempts - sleeps)

\* One of the constructor's steps is possible: the conditions of the loop.
CanStep ==
  \/ Refused # "none"
  \/ Policy.attempts = 0
  \/ attempt < Policy.attempts /\ (sleeps < attempt \/ sleeps = attempt)

\* Every step of a constructor uses one up, whatever the service does meanwhile,
\* and until it returns there is one: the loop of create_channel cannot run on,
\* nor end without an answer.
THEOREM StepsRunOut ==
  Spec => /\ [](Left \in 0 .. 1 + 2 * Policy.attempts /\ (result = "none" => CanStep))
          /\ [][Next => Left' <= Left /\ (Step => Left' < Left)]_vars
<1> DEFINE Bounded == Left \in 0 .. 1 + 2 * Policy.attempts /\ (result = "none" => CanStep)
           Counts == Next => Left' <= Left /\ (Step => Left' < Left)
<1>1. IInv => Bounded
  <2> SUFFICES ASSUME IInv PROVE Bounded
    OBVIOUS
  <2>1. /\ Policy.attempts \in Nat /\ attempt \in 0 .. Policy.attempts
        /\ sleeps \in 0 .. attempt
    BY PolicyType DEF IInv, TypeOK
  <2>2. Left \in 0 .. 1 + 2 * Policy.attempts
    BY <2>1 DEF Left
  <2>3. result = "none" => CanStep
    BY <2>1 DEF IInv, Tried, CanStep
  <2> QED
    BY <2>2, <2>3
<1>2. IInv /\ [Next]_vars => [Counts]_vars
  <2> SUFFICES ASSUME IInv, Next PROVE Left' <= Left /\ (Step => Left' < Left)
    OBVIOUS
  <2>1. UNCHANGED <<env, call>>
    BY DEF Next, Step, RefuseConfiguration, Sleep, Connect, FailToConnect, InvalidUri,
           NoAttempts, Flap
  <2>2. /\ Policy' = Policy /\ Policy.attempts \in Nat
        /\ attempt \in 0 .. Policy.attempts /\ sleeps \in 0 .. attempt
    BY <2>1, CallIsFixed, PolicyType DEF IInv, TypeOK
  <2>3. CASE Sleep
    BY <2>2, <2>3 DEF Sleep, Connecting, Left
  <2>4. CASE FailToConnect
    BY <2>2, <2>4 DEF FailToConnect, Ready, Connecting, Left
  <2>5. CASE RefuseConfiguration \/ Connect \/ InvalidUri \/ NoAttempts
    <3>1. result = "none" /\ result' # "none"
      <4>1. Refused # "none" => Refused \in Codes
        BY RefusedType
      <4> QED
        BY <2>5, <4>1
           DEF RefuseConfiguration, Connect, InvalidUri, NoAttempts, Ready, Connecting, Codes
    <3> QED
      BY <2>2, <3>1 DEF Left
  <2>6. CASE Flap /\ ~Step
    BY <2>2, <2>6 DEF Flap, Left
  <2> QED
    BY <2>3, <2>4, <2>5, <2>6 DEF Next, Step
<1> HIDE DEF Bounded, Counts
<1>3. Spec => []Bounded /\ [][Counts]_vars
  BY <1>1, <1>2, Invariance, PTL DEF Spec
<1> QED
  BY <1>3 DEF Bounded, Counts

-----------------------------------------------------------------------------
\* A step of a constructor is a try, a refusal, or nothing to its caller.
LEMMA RetryStep == IInv /\ [Next]_vars => [Retry!Next]_(Retry!vars)
<1> SUFFICES ASSUME IInv, [Next]_vars PROVE [Retry!Next]_(Retry!vars)
  OBVIOUS
<1> USE DEF IInv
<1>0. UNCHANGED <<env, call>>
  BY DEF Next, Step, RefuseConfiguration, Sleep, Connect, FailToConnect, InvalidUri,
         NoAttempts, Flap, vars
<1>1. /\ Policy' = Policy /\ Refused' = Refused /\ IsMalformed' = IsMalformed
      /\ Policy.attempts \in Nat /\ attempt \in 0 .. Policy.attempts
  BY <1>0, CallIsFixed, PolicyType DEF TypeOK
<1>2. CASE RefuseConfiguration
  <2>1. attempt = 0 /\ result = "none" /\ result' \in Codes
    BY <1>2, RefusedType DEF RefuseConfiguration, Hopeless
  <2> QED
    BY <1>1, <1>2, <2>1 DEF RefuseConfiguration, Codes, Retry!Next, Retry!Refuse
<1>3. CASE Sleep \/ Flap \/ UNCHANGED vars
  BY <1>1, <1>3 DEF Sleep, Flap, vars, Retry!vars
<1>4. CASE Connect
  BY <1>1, <1>4 DEF Connect, Ready, Connecting, Retry!Next, Retry!Succeed
<1>5. CASE FailToConnect
  BY <1>1, <1>5 DEF FailToConnect, Ready, Connecting, Retry!Next, Retry!Fail
<1>6. CASE InvalidUri
  BY <1>1, <1>6 DEF InvalidUri, Ready, Connecting, Hopeless, Retry!Next, Retry!Refuse
<1>7. CASE NoAttempts
  BY <1>1, <1>7 DEF NoAttempts, Connecting, Retry!Next, Retry!Refuse
<1> QED
  BY <1>2, <1>3, <1>4, <1>5, <1>6, <1>7 DEF Next, Step

\* create_channel is a bounded retry: never more than max_attempts attempts,
\* none with a configuration that cannot work, and an error only after the last
\* one.  This is the property RetrySpec, for every policy.
THEOREM ImplementsBoundedRetry == Spec => RetrySpec
<1>1. Init => Retry!Init
  BY PolicyType DEF Init, Retry!Init
<1>2. IInv /\ [Next]_vars => [Retry!Next]_(Retry!vars)
  BY RetryStep
<1> QED
  BY <1>1, <1>2, Invariance, PTL DEF Spec, RetrySpec, Retry!Spec
===============================================================================
