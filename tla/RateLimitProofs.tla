-------------------------- MODULE RateLimitProofs ---------------------------
(***************************************************************************)
(* Proofs about RateLimit: types, bounds of the rates, the pace of the     *)
(* recovery, the limiters of a class and the pause of a coroutine, for any *)
(* coroutines, endpoints, rates, delays and length of the run. A rate may  *)
(* be configured below the floor of record_412: nothing forbids it.        *)
(***************************************************************************)
EXTENDS RateLimit, TLAPS

------------------------------------------------------------------------------
(* Arithmetic.                                                               *)

\* Rounding to whole permits: the result and its distance to the exact quotient.
LEMMA RoundedBounds ==
  ASSUME NEW q \in Int
  PROVE  /\ q \div 160 \in Int /\ q % 160 \in 0..159
         /\ q = 160 * (q \div 160) + (q % 160)
         /\ Rounded(q) \in Int
         /\ q \div 160 <= Rounded(q) /\ Rounded(q) <= q \div 160 + 1
<1>1. q \div 160 \in Int /\ q % 160 \in 0..159 /\ q = 160 * (q \div 160) + (q % 160)
  OBVIOUS
<1> QED BY <1>1 DEF Rounded

\* The limiter of a class never shrinks when the budget grows.
LEMMA MaxRateMonotone ==
  ASSUME NEW p \in Int, NEW q \in Int, p <= q
  PROVE  MaxRate(p) <= MaxRate(q)
<1>1. /\ Rounded(p) \in Int /\ Rounded(p) <= p \div 160 + 1
      /\ Rounded(q) \in Int /\ q \div 160 <= Rounded(q)
      /\ p \div 160 \in Int /\ q \div 160 \in Int
  BY RoundedBounds
<1>2. Rounded(p) <= Rounded(q)
  <2>1. CASE p \div 160 = q \div 160
    <3>1. p % 160 <= q % 160
      BY <2>1, RoundedBounds
    <3> QED BY <2>1, <3>1, RoundedBounds DEF Rounded
  <2>2. CASE p \div 160 # q \div 160
    <3>1. p \div 160 + 1 <= q \div 160
      BY <2>2, RoundedBounds
    <3> QED BY <1>1, <3>1
  <2> QED BY <2>1, <2>2
<1> QED BY <1>1, <1>2 DEF MaxRate, Larger

\* A limiter grants at least one permit per period, so it is never NoLimiter.
LEMMA MaxRatePositive ==
  ASSUME NEW q \in Int
  PROVE  MaxRate(q) \in Nat /\ MaxRate(q) # NoLimiter
<1>1. Rounded(q) \in Int
  BY RoundedBounds
<1> QED BY <1>1 DEF MaxRate, Larger, NoLimiter

\* Half a permit rounds to none, so at the floor and below a limiter grants one.
LEMMA LowRatesAlike ==
  ASSUME NEW q \in Int, q <= Floor
  PROVE  MaxRate(q) = 1
<1>1. /\ q \div 160 \in Int /\ q % 160 \in 0..159
      /\ q = 160 * (q \div 160) + (q % 160)
      /\ Rounded(q) \in Int /\ Rounded(q) <= q \div 160 + 1
  BY RoundedBounds
<1>2. Rounded(q) \in Int /\ Rounded(q) <= 0
  <2>1. q \div 160 = 0 \/ q \div 160 < 0
    BY <1>1 DEF Floor
  <2>2. CASE q \div 160 = 0
    <3>1. q % 160 = q /\ q % 160 <= 80
      BY <1>1, <2>2 DEF Floor
    <3>2. (q \div 160) % 2 = 0
      BY <2>2
    <3> QED BY <1>1, <2>2, <3>1, <3>2 DEF Rounded
  <2>3. CASE q \div 160 < 0
    BY <1>1, <2>3
  <2> QED BY <2>1, <2>2, <2>3
<1> QED BY <1>2 DEF MaxRate, Larger

LEMMA HalvedBounds ==
  ASSUME NEW q \in Int
  PROVE  Halved(q) \in Floor..Larger(Floor, q)
<1>1. q \div 2 \in Int /\ 2 * (q \div 2) <= q
  OBVIOUS
<1> QED BY <1>1 DEF Halved, Larger, Floor

LEMMA RecoverStepBounds ==
  ASSUME NEW orig \in Int, NEW q \in Floor..orig
  PROVE  RecoverStep(q, orig) \in q..orig
BY DEF RecoverStep, Floor

\* n + 1 cooldowns are n cooldowns and one more.
LEMMA Cooldowns ==
  ASSUME NEW n \in Nat, NEW c \in Nat
  PROVE  n * c \in Nat /\ (n + 1) * c = n * c + c /\ (n + 2) * c = n * c + c + c
OBVIOUS

------------------------------------------------------------------------------
(* The inductive invariant.                                                  *)

\* The recovery clock is n + 1 cooldowns after the last 412 when n steps were taken.
ClockOfSteps ==
  /\ last412 <= now
  /\ recoveredUntil = NoTime => steps = 0
  /\ recoveredUntil # NoTime => recoveredUntil = last412 + (steps + 1) * RecoveryCooldown

\* The shared pause, and the sleep of a coroutine that saw it, end no earlier than the
\* pause the coroutine's own 412 asked for.
PauseCovers ==
  \A r \in Requests : hit[r] # NoTime =>
    /\ hit[r] + PauseSeconds <= pausedUntil
    /\ hit[r] <= now
    /\ pc[r] = "paused" => hit[r] + PauseSeconds <= wake[r]

IInv ==
  /\ TypeOK /\ QpsInBounds /\ LimitersFollow
  /\ last412 # NoTime => ClockOfSteps
  /\ RecoveryPaced
  /\ PauseCovers /\ OwnPauseKept

LEMMA ClassOfType == ASSUME NEW e \in Endpoints PROVE ClassOf(e) \in Class
BY DEF ClassOf, Class

\* The initial states satisfy the invariant.
LEMMA InitInv == Init => IInv
<1> SUFFICES ASSUME Init PROVE IInv
  OBVIOUS
<1> USE RateLimitAssumption DEF Init
<1>1. TypeOK
  <2>1. "global" \in Class /\ Orig["global"] \in Int
    BY DEF Class
  <2>2. globalLimiter \in Nat
    BY <2>1, MaxRatePositive
  <2> QED BY <2>2 DEF TypeOK, Time, NoTime, NoLimiter, PC
<1>2. QpsInBounds
  BY DEF QpsInBounds, Smaller, Larger, Floor
<1>3. LimitersFollow
  BY DEF LimitersFollow
<1>4. RecoveryPaced /\ (last412 # NoTime => ClockOfSteps)
  BY DEF RecoveryPaced
<1>5. PauseCovers /\ OwnPauseKept
  BY DEF PauseCovers, OwnPauseKept
<1> QED BY <1>1, <1>2, <1>3, <1>4, <1>5 DEF IInv

------------------------------------------------------------------------------
(* What the parts of a step preserve.                                        *)

\* The state of the limiters and of the recovery clock.
Limits == /\ qps \in [Class -> Int] /\ globalLimiter \in Nat
          /\ limiter \in [Endpoints -> Nat]
          /\ recoveredUntil \in Time /\ steps \in Nat
          /\ QpsInBounds /\ LimitersFollow
          /\ last412 # NoTime => ClockOfSteps
          /\ RecoveryPaced

\* A recovery step, due or not, keeps bounds, limiters and pace.
LEMMA TryRecoverKeeps ==
  ASSUME IInv, TryRecover, UNCHANGED <<now, last412>>
  PROVE  Limits'
<1> USE RateLimitAssumption
<1>0. Limits
  BY DEF IInv, TypeOK, Limits
<1>1. CASE UNCHANGED <<rates, recoveredUntil, steps>>
  <2>1. UNCHANGED <<qps, globalLimiter, limiter, recoveredUntil, steps, now, last412>>
    BY <1>1 DEF rates
  <2> QED BY <1>0, <2>1
       DEF Limits, QpsInBounds, LimitersFollow, ClockOfSteps, RecoveryPaced
<1>2. CASE Due /\ Recover
  <2> USE <1>2 DEF Recover
  <2>1. \A c \in Class : /\ Orig[c] \in Int /\ qps[c] \in Int
                         /\ qps[c] \in Smaller(Floor, Orig[c])..Larger(Floor, Orig[c])
                         /\ qps[c] < Orig[c] => qps[c] \in Floor..Orig[c]
    BY <1>0 DEF Limits, QpsInBounds, Smaller, Larger, Floor
  <2>2. ASSUME NEW c \in Class
        PROVE  /\ qps'[c] \in Smaller(Floor, Orig[c])..Larger(Floor, Orig[c])
               /\ qps'[c] \in Int
               /\ qps[c] < Orig[c] => qps'[c] = RecoverStep(qps[c], Orig[c])
               /\ ~(qps[c] < Orig[c]) => qps'[c] = qps[c]
    <3>1. CASE qps[c] < Orig[c]
      <4>1. qps'[c] = RecoverStep(qps[c], Orig[c])
        BY <3>1
      <4>2. RecoverStep(qps[c], Orig[c]) \in qps[c]..Orig[c]
        BY <2>1, <3>1, RecoverStepBounds
      <4> QED BY <2>1, <3>1, <4>1, <4>2 DEF Smaller, Larger, Floor
    <3>2. CASE ~(qps[c] < Orig[c])
      BY <2>1, <3>2
    <3> QED BY <3>1, <3>2
  <2>3. qps' \in [Class -> Int] /\ QpsInBounds'
    BY <2>2 DEF QpsInBounds
  <2>4. \A e \in Endpoints :
           limiter'[e] = IF limiter[e] # NoLimiter /\ qps[ClassOf(e)] < Orig[ClassOf(e)]
                         THEN MaxRate(qps'[ClassOf(e)]) ELSE limiter[e]
    BY <2>2, ClassOfType DEF Rebuilt
  <2>5. limiter' \in [Endpoints -> Nat] /\ globalLimiter' \in Nat
    <3>1. \A e \in Endpoints : limiter'[e] \in Nat
      BY <1>0, <2>2, <2>4, ClassOfType, MaxRatePositive DEF Limits
    <3>2. "global" \in Class
      BY DEF Class
    <3> QED BY <1>0, <2>2, <3>1, <3>2, MaxRatePositive DEF Limits
  <2>6. LimitersFollow'
    <3>1. globalLimiter' = MaxRate(qps'["global"])
      <4>1. "global" \in Class
        BY DEF Class
      <4> QED BY <1>0, <2>2, <4>1 DEF Limits, LimitersFollow
    <3>2. ASSUME NEW e \in Endpoints, limiter'[e] # NoLimiter
          PROVE  /\ MaxRate(qps'[ClassOf(e)]) <= limiter'[e]
                 /\ qps'[ClassOf(e)] = Orig[ClassOf(e)]
                      => limiter'[e] = MaxRate(Orig[ClassOf(e)])
      <4>1. ClassOf(e) \in Class
        BY ClassOfType
      <4>2. CASE limiter[e] # NoLimiter /\ qps[ClassOf(e)] < Orig[ClassOf(e)]
        <5>1. limiter'[e] = MaxRate(qps'[ClassOf(e)])
          BY <2>4, <4>2
        <5>2. MaxRate(qps'[ClassOf(e)]) \in Nat
          BY <2>2, <4>1, MaxRatePositive
        <5> QED BY <5>1, <5>2
      <4>3. CASE ~(limiter[e] # NoLimiter /\ qps[ClassOf(e)] < Orig[ClassOf(e)])
        <5>1. limiter'[e] = limiter[e]
          BY <2>4, <4>3
        <5>2. qps'[ClassOf(e)] = qps[ClassOf(e)]
          BY <2>2, <3>2, <4>1, <4>3, <5>1
        <5> QED BY <1>0, <3>2, <5>1, <5>2 DEF Limits, LimitersFollow
      <4> QED BY <4>2, <4>3
    <3> QED BY <3>1, <3>2 DEF LimitersFollow
  <2>7. /\ recoveredUntil' \in Time /\ steps' \in Nat
        /\ (last412 # NoTime => ClockOfSteps)' /\ RecoveryPaced'
    <3>1. /\ last412 # NoTime /\ last412 \in Nat /\ now \in Nat /\ last412 <= now
          /\ steps \in Nat /\ recoveredUntil \in Time /\ RecoveryCooldown \in Nat
          /\ recoveredUntil = NoTime => steps = 0
          /\ recoveredUntil # NoTime
               => recoveredUntil = last412 + (steps + 1) * RecoveryCooldown
      BY DEF Due, IInv, TypeOK, Time, ClockOfSteps
    <3>2. /\ steps * RecoveryCooldown \in Nat
          /\ (steps + 1) * RecoveryCooldown = steps * RecoveryCooldown + RecoveryCooldown
          /\ (steps + 2) * RecoveryCooldown
               = steps * RecoveryCooldown + RecoveryCooldown + RecoveryCooldown
      BY <3>1, Cooldowns
    <3>3. Epoch = last412 + (steps + 1) * RecoveryCooldown
      <4>1. CASE recoveredUntil = NoTime
        <5>1. steps = 0 /\ (steps + 1) * RecoveryCooldown = RecoveryCooldown
          BY <3>1, <4>1
        <5>2. Epoch = last412 + RecoveryCooldown
          BY <3>1, <4>1 DEF Epoch, Larger, NoTime
        <5> QED BY <5>1, <5>2
      <4>2. CASE recoveredUntil # NoTime
        BY <3>1, <3>2, <4>2 DEF Epoch, Larger
      <4> QED BY <4>1, <4>2
    <3>4. recoveredUntil' = last412 + (steps' + 1) * RecoveryCooldown
      <4>1. recoveredUntil' = Epoch + RecoveryCooldown /\ steps' = steps + 1
        OBVIOUS
      <4>2. steps' + 1 = steps + 2
        BY <3>1, <4>1
      <4> QED BY <3>1, <3>2, <3>3, <4>1, <4>2
    <3>5. recoveredUntil' \in Nat
      BY <3>1, <3>2, <3>3
    <3>6. steps' * RecoveryCooldown <= now - last412
      BY <3>1, <3>2, <3>3 DEF Due
    <3> QED BY <3>1, <3>4, <3>5, <3>6 DEF Time, NoTime, ClockOfSteps, RecoveryPaced
  <2> QED BY <2>3, <2>5, <2>6, <2>7 DEF Limits
<1> QED BY <1>1, <1>2 DEF TryRecover

\* A 412 keeps bounds and limiters and restarts the recovery clock.
LEMMA Record412Keeps ==
  ASSUME IInv, NEW e \in Endpoints, Record412(e), UNCHANGED now
  PROVE  Limits' /\ last412' = now /\ pausedUntil' = now + PauseSeconds
<1> USE RateLimitAssumption
<1> DEFINE c == ClassOf(e)
<1>step. /\ last412' = now /\ recoveredUntil' = NoTime /\ steps' = 0
      /\ qps' = [qps EXCEPT !["global"] = Halved(@), ![c] = Halved(@)]
      /\ globalLimiter' = MaxRate(qps'["global"])
      /\ limiter' = [limiter EXCEPT ![e] = MaxRate(qps'[c])]
      /\ pausedUntil' = now + PauseSeconds
  BY DEF Record412
<1>0. /\ now \in Nat /\ c \in Class /\ "global" \in Class /\ c # "global"
      /\ qps \in [Class -> Int] /\ limiter \in [Endpoints -> Nat]
  BY DEF IInv, TypeOK, Class, ClassOf
<1>1. \A k \in Class : /\ qps[k] \in Int /\ Orig[k] \in Int
                       /\ qps[k] \in Smaller(Floor, Orig[k])..Larger(Floor, Orig[k])
  BY <1>0 DEF IInv, QpsInBounds
<1>2. \A k \in Class : Halved(qps[k]) \in Floor..Larger(Floor, qps[k])
  BY <1>1, HalvedBounds
<1>3. \A k \in Class : /\ qps'[k] \in {Halved(qps[k]), qps[k]} /\ qps'[k] \in Int
                       /\ qps'[k] = IF k \in {"global", c} THEN Halved(qps[k]) ELSE qps[k]
  <2>1. \A k \in Class : qps'[k] = IF k \in {"global", c} THEN Halved(qps[k]) ELSE qps[k]
    BY <1>0, <1>step
  <2>2. \A k \in Class : Halved(qps[k]) \in Int
    BY <1>1, <1>2 DEF Larger, Floor
  <2> QED BY <1>1, <2>1, <2>2
<1>4. qps' \in [Class -> Int] /\ QpsInBounds'
  <2>1. qps' \in [Class -> Int]
    BY <1>0, <1>3, <1>step
  <2>2. ASSUME NEW k \in Class
        PROVE  qps'[k] \in Smaller(Floor, Orig[k])..Larger(Floor, Orig[k])
    BY <1>1, <1>2, <1>3 DEF Smaller, Larger, Floor
  <2> QED BY <2>1, <2>2 DEF QpsInBounds
<1>5. \A d \in Endpoints : limiter'[d] = IF d = e THEN MaxRate(qps'[c]) ELSE limiter[d]
  BY <1>0, <1>step
<1>6. globalLimiter' \in Nat /\ limiter' \in [Endpoints -> Nat]
  BY <1>0, <1>3, <1>step, MaxRatePositive
<1>7. LimitersFollow'
  <2>1. ASSUME NEW d \in Endpoints, limiter'[d] # NoLimiter
        PROVE  /\ MaxRate(qps'[ClassOf(d)]) <= limiter'[d]
               /\ qps'[ClassOf(d)] = Orig[ClassOf(d)]
                    => limiter'[d] = MaxRate(Orig[ClassOf(d)])
    <3>0. ClassOf(d) \in Class
      BY ClassOfType
    <3>1. CASE d = e
      <4>1. limiter'[d] = MaxRate(qps'[ClassOf(d)])
        BY <1>5, <3>1
      <4>2. MaxRate(qps'[ClassOf(d)]) \in Nat
        BY <1>3, <3>0, MaxRatePositive
      <4> QED BY <4>1, <4>2
    <3>2. CASE d # e
      <4>1. limiter'[d] = limiter[d] /\ limiter[d] \in Nat
        BY <1>0, <1>5, <3>2
      <4>2. /\ MaxRate(qps[ClassOf(d)]) <= limiter[d]
            /\ qps[ClassOf(d)] = Orig[ClassOf(d)]
                 => limiter[d] = MaxRate(Orig[ClassOf(d)])
        BY <2>1, <4>1 DEF IInv, LimitersFollow
      <4> DEFINE k == ClassOf(d)
      <4>3. /\ k \in Class /\ qps[k] \in Int /\ Orig[k] \in Int /\ qps'[k] \in Int
            /\ qps[k] \in Smaller(Floor, Orig[k])..Larger(Floor, Orig[k])
            /\ qps'[k] = qps[k] \/ qps'[k] \in Floor..Larger(Floor, qps[k])
        BY <1>1, <1>2, <1>3, <3>0
      <4> HIDE DEF k
      <4>4. MaxRate(qps'[k]) <= MaxRate(qps[k])
        <5>1. CASE qps'[k] <= qps[k]
          BY <4>3, <5>1, MaxRateMonotone
        <5>2. CASE ~(qps'[k] <= qps[k])
          <6>1. qps[k] <= Floor /\ qps'[k] <= Floor
            BY <4>3, <5>2 DEF Larger, Floor
          <6>2. MaxRate(qps[k]) = 1 /\ MaxRate(qps'[k]) = 1
            BY <4>3, <6>1, LowRatesAlike
          <6> QED BY <6>2
        <5> QED BY <5>1, <5>2
      <4>5. MaxRate(qps'[k]) \in Nat /\ MaxRate(qps[k]) \in Nat
        BY <4>3, MaxRatePositive
      <4>6. qps'[k] = Orig[k] => qps[k] = Orig[k]
        BY <4>3 DEF Smaller, Larger, Floor
      <4> QED BY <4>1, <4>2, <4>4, <4>5, <4>6 DEF k
    <3> QED BY <3>1, <3>2
  <2> QED BY <1>step, <2>1 DEF LimitersFollow
<1>8. /\ recoveredUntil' \in Time /\ steps' \in Nat
      /\ (last412 # NoTime => ClockOfSteps)' /\ RecoveryPaced'
  <2>1. steps' * RecoveryCooldown = 0
    BY <1>step
  <2> QED BY <1>0, <1>step, <2>1 DEF Time, ClockOfSteps, RecoveryPaced
<1> QED BY <1>step, <1>4, <1>6, <1>7, <1>8 DEF Limits

\* Where the coroutines are and how long they sleep.
Coroutines == /\ now \in Nat /\ pausedUntil \in Time /\ last412 \in Time
              /\ pc \in [Requests -> PC] /\ ep \in [Requests -> Endpoints]
              /\ wake \in [Requests -> Nat] /\ hit \in [Requests -> Time]
              /\ PauseCovers /\ OwnPauseKept

LEMMA IInvParts == /\ IInv => Limits /\ Coroutines
                   /\ Limits' /\ Coroutines' => IInv'
BY DEF IInv, TypeOK, Limits, Coroutines

\* The gates a coroutine is sent through only after its pause.
Gates == {"globalGate", "endpointGate", "sent"}

\* One coroutine moves and sleeps, nobody is hit and the pause stays: enough that it
\* sleeps until the pause ends, or passes a gate when its own pause is over.
LEMMA MoveKeeps ==
  ASSUME Coroutines, UNCHANGED <<now, pausedUntil, last412, hit>>,
         NEW r \in Requests,
         NEW p \in PC, pc' = [pc EXCEPT ![r] = p],
         NEW w \in Nat, wake' = [wake EXCEPT ![r] = w],
         ep' \in [Requests -> Endpoints],
         p = "paused" => pausedUntil <= w,
         p \in Gates /\ hit[r] # NoTime => now >= hit[r] + PauseSeconds
  PROVE  Coroutines'
<1> USE RateLimitAssumption
<1>1. /\ now \in Nat /\ pausedUntil \in Time /\ last412 \in Time
      /\ hit \in [Requests -> Time] /\ wake \in [Requests -> Nat]
      /\ pc \in [Requests -> PC] /\ PauseSeconds \in Nat
  BY DEF Coroutines
<1>2. pc' \in [Requests -> PC] /\ wake' \in [Requests -> Nat]
  BY <1>1
<1>3. PauseCovers'
  <2> SUFFICES ASSUME NEW s \in Requests, hit[s] # NoTime
               PROVE  /\ hit[s] + PauseSeconds <= pausedUntil
                      /\ hit[s] <= now
                      /\ pc'[s] = "paused" => hit[s] + PauseSeconds <= wake'[s]
    BY DEF PauseCovers
  <2>1. /\ hit[s] + PauseSeconds <= pausedUntil /\ hit[s] <= now
        /\ pc[s] = "paused" => hit[s] + PauseSeconds <= wake[s]
    BY DEF Coroutines, PauseCovers
  <2>2. CASE s = r
    <3>1. pc'[s] = p /\ wake'[s] = w
      BY <1>1, <2>2
    <3>2. hit[s] \in Nat /\ pausedUntil \in Int
      BY <1>1 DEF Time, NoTime
    <3> QED BY <1>1, <2>1, <3>1, <3>2
  <2>3. CASE s # r
    BY <1>1, <2>1, <2>3
  <2> QED BY <2>2, <2>3
<1>4. OwnPauseKept'
  <2> SUFFICES ASSUME NEW s \in Requests, hit[s] # NoTime, pc'[s] \in Gates
               PROVE  now >= hit[s] + PauseSeconds
    BY DEF OwnPauseKept, Gates
  <2>1. CASE s = r
    BY <1>1, <2>1
  <2>2. CASE s # r
    <3>1. pc[s] \in Gates
      BY <1>1, <2>2
    <3> QED BY <3>1 DEF Coroutines, OwnPauseKept, Gates
  <2> QED BY <2>1, <2>2
<1> QED BY <1>1, <1>2, <1>3, <1>4 DEF Coroutines

\* A step that leaves the limiters, the recovery clock and the time alone keeps them.
LEMMA LimitsUnchanged ==
  ASSUME Limits, UNCHANGED <<rates, recoveredUntil, steps, now, last412>>
  PROVE  Limits'
<1>1. UNCHANGED <<qps, globalLimiter, limiter, recoveredUntil, steps, now, last412>>
  BY DEF rates
<1> QED BY <1>1 DEF Limits, QpsInBounds, LimitersFollow, ClockOfSteps, RecoveryPaced

\* The entry of acquire, taken for a first attempt and for a retry.
LEMMA AdmitKeeps ==
  ASSUME IInv, NEW r \in Requests, Admit(r), ep' \in [Requests -> Endpoints],
         UNCHANGED <<now, pausedUntil, last412, hit>>
  PROVE  IInv'
<1>1. Limits /\ Coroutines
  BY IInvParts
<1>2. /\ now \in Nat /\ pausedUntil \in Time /\ wake \in [Requests -> Nat]
      /\ hit \in [Requests -> Time]
  BY <1>1 DEF Coroutines
<1>3. CASE /\ pausedUntil > now
           /\ pc' = [pc EXCEPT ![r] = "paused"] /\ wake' = [wake EXCEPT ![r] = pausedUntil]
           /\ UNCHANGED <<rates, recoveredUntil, steps>>
  <2>1. Limits'
    BY <1>1, <1>3, LimitsUnchanged
  <2>2. pausedUntil \in Nat
    BY <1>2, <1>3 DEF Time, NoTime
  <2>3. "paused" \in PC /\ "paused" \notin Gates
    BY DEF PC, Gates
  <2>4. Coroutines'
    <3>1. pausedUntil <= pausedUntil
      BY <2>2
    <3>2. pc' = [pc EXCEPT ![r] = "paused"] /\ wake' = [wake EXCEPT ![r] = pausedUntil]
      BY <1>3
    <3> QED BY <1>1, <2>2, <2>3, <3>1, <3>2, MoveKeeps
  <2> QED BY <2>1, <2>4, IInvParts
<1>4. CASE /\ pausedUntil <= now
           /\ pc' = [pc EXCEPT ![r] = "globalGate"] /\ UNCHANGED wake
           /\ TryRecover
  <2>1. Limits'
    BY <1>4, TryRecoverKeeps
  <2>2. "globalGate" \in PC /\ wake[r] \in Nat /\ wake' = [wake EXCEPT ![r] = wake[r]]
    BY <1>2, <1>4 DEF PC
  <2>3. hit[r] # NoTime => now >= hit[r] + PauseSeconds
    <3>1. ASSUME hit[r] # NoTime PROVE hit[r] + PauseSeconds <= pausedUntil
      BY <1>1, <3>1 DEF Coroutines, PauseCovers
    <3>2. hit[r] \in Int /\ pausedUntil \in Int /\ PauseSeconds \in Nat
      BY <1>2, RateLimitAssumption DEF Time, NoTime
    <3> QED BY <1>2, <1>4, <3>1, <3>2
  <2>4. Coroutines'
    BY <1>1, <1>4, <2>2, <2>3, MoveKeeps, ZenonT(60)
  <2> QED BY <2>1, <2>4, IInvParts
<1> QED BY <1>3, <1>4 DEF Admit

------------------------------------------------------------------------------
(* Every step keeps the invariant.                                           *)

LEMMA NextInv == IInv /\ [Next]_vars => IInv'
<1> SUFFICES ASSUME IInv, [Next]_vars PROVE IInv'
  OBVIOUS
<1> USE RateLimitAssumption
<1>1. Limits /\ Coroutines
  BY IInvParts
<1>2. /\ now \in Nat /\ pausedUntil \in Time /\ wake \in [Requests -> Nat]
      /\ hit \in [Requests -> Time] /\ pc \in [Requests -> PC]
      /\ ep \in [Requests -> Endpoints] /\ last412 \in Time /\ PauseSeconds \in Nat
  BY <1>1 DEF Coroutines
<1>3. CASE Tick
  <2>1. /\ now' = now + 1
        /\ UNCHANGED <<qps, globalLimiter, limiter, pausedUntil, last412, recoveredUntil,
                       pc, ep, wake, steps, hit>>
    BY <1>3 DEF Tick, rates, times, request
  <2>2. Limits'
    <3>1. (last412 # NoTime => ClockOfSteps)'
      BY <1>1, <1>2, <2>1 DEF Limits, ClockOfSteps, Time, NoTime
    <3>2. RecoveryPaced'
      <4> SUFFICES ASSUME last412 # NoTime
                   PROVE  steps * RecoveryCooldown <= (now + 1) - last412
        BY <2>1 DEF RecoveryPaced
      <4>1. steps * RecoveryCooldown <= now - last412 /\ last412 \in Nat
        BY <1>1, <1>2 DEF Limits, RecoveryPaced, Time
      <4>2. steps * RecoveryCooldown \in Nat
        BY <1>1, Cooldowns DEF Limits
      <4> QED BY <1>2, <4>1, <4>2
    <3> QED BY <1>1, <2>1, <3>1, <3>2 DEF Limits, QpsInBounds, LimitersFollow
  <2>3. Coroutines'
    <3>1. PauseCovers' /\ OwnPauseKept'
      <4>1. \A r \in Requests : hit[r] \in Int
        BY <1>2 DEF Time, NoTime
      <4> QED BY <1>1, <1>2, <2>1, <4>1 DEF Coroutines, PauseCovers, OwnPauseKept
    <3> QED BY <1>1, <2>1, <3>1 DEF Coroutines
  <2> QED BY <2>2, <2>3, IInvParts
<1>4. ASSUME NEW r \in Requests, Begin(r) PROVE IInv'
  <2>1. ep' \in [Requests -> Endpoints]
    BY <1>2, <1>4 DEF Begin
  <2> QED BY <1>4, <2>1, AdmitKeeps DEF Begin
<1>5. ASSUME NEW r \in Requests, Resume(r) PROVE IInv'
  <2>1. Limits'
    BY <1>5, TryRecoverKeeps DEF Resume
  <2>2. /\ pc' = [pc EXCEPT ![r] = "globalGate"] /\ wake' = [wake EXCEPT ![r] = wake[r]]
        /\ UNCHANGED <<now, pausedUntil, last412, hit, ep>>
        /\ "globalGate" \in PC /\ wake[r] \in Nat
    BY <1>2, <1>5 DEF Resume, PC
  <2>3. hit[r] # NoTime => now >= hit[r] + PauseSeconds
    <3>1. ASSUME hit[r] # NoTime PROVE hit[r] + PauseSeconds <= wake[r]
      BY <1>1, <1>5, <3>1 DEF Coroutines, PauseCovers, Resume
    <3>2. wake[r] <= now /\ hit[r] \in Int
      BY <1>2, <1>5 DEF Resume, Time, NoTime
    <3> QED BY <1>2, <3>1, <3>2
  <2>4. Coroutines'
    BY <1>1, <1>2, <2>2, <2>3, MoveKeeps
  <2> QED BY <2>1, <2>4, IInvParts
<1>6. ASSUME NEW r \in Requests, PassGlobal(r) PROVE IInv'
  <2> DEFINE e == ep[r]
  <2>1. Limits'
    <3>1. /\ e \in Endpoints /\ ClassOf(e) \in Class
          /\ MaxRate(qps[ClassOf(e)]) \in Nat
      BY <1>1, <1>2, ClassOfType, MaxRatePositive DEF Limits
    <3>2. UNCHANGED <<qps, globalLimiter, recoveredUntil, steps, now, last412>>
      BY <1>6 DEF PassGlobal, times
    <3>3. /\ limiter \in [Endpoints -> Nat] /\ limiter' \in [Endpoints -> Nat]
          /\ \A d \in Endpoints : limiter'[d] =
               IF d = e /\ limiter[d] = NoLimiter THEN MaxRate(qps[ClassOf(d)])
                                                  ELSE limiter[d]
      BY <1>1, <1>6, <3>1 DEF Limits, PassGlobal
    <3>4. LimitersFollow'
      BY <1>1, <3>1, <3>2, <3>3 DEF Limits, LimitersFollow
    <3> QED BY <1>1, <3>2, <3>3, <3>4 DEF Limits, QpsInBounds, ClockOfSteps, RecoveryPaced
  <2>2. /\ pc' = [pc EXCEPT ![r] = "endpointGate"] /\ wake' = [wake EXCEPT ![r] = wake[r]]
        /\ UNCHANGED <<now, pausedUntil, last412, hit, ep>>
        /\ "endpointGate" \in PC /\ wake[r] \in Nat
    BY <1>2, <1>6 DEF PassGlobal, PC, times
  <2>3. hit[r] # NoTime => now >= hit[r] + PauseSeconds
    BY <1>1, <1>6 DEF Coroutines, OwnPauseKept, PassGlobal
  <2>4. Coroutines'
    BY <1>1, <1>2, <2>2, <2>3, MoveKeeps
  <2> QED BY <2>1, <2>4, IInvParts
<1>7. ASSUME NEW r \in Requests, PassEndpoint(r) \/ Answer(r) PROVE IInv'
  <2>1. /\ UNCHANGED <<rates, recoveredUntil, steps, now, last412>>
        /\ UNCHANGED <<now, pausedUntil, last412, hit, ep, wake>>
    BY <1>7 DEF PassEndpoint, Answer, times
  <2>2. Limits'
    BY <1>1, <2>1, LimitsUnchanged
  <2>3. PICK p \in {"sent", "idle"} : pc' = [pc EXCEPT ![r] = p]
    BY <1>7 DEF PassEndpoint, Answer
  <2>4. p \in PC /\ p # "paused" /\ wake[r] \in Nat /\ wake' = [wake EXCEPT ![r] = wake[r]]
    BY <1>2, <2>1 DEF PC
  <2>5. hit[r] # NoTime => now >= hit[r] + PauseSeconds
    BY <1>1, <1>7 DEF Coroutines, OwnPauseKept, PassEndpoint, Answer
  <2>6. Coroutines'
    BY <1>1, <1>2, <2>1, <2>3, <2>4, <2>5, MoveKeeps
  <2> QED BY <2>2, <2>6, IInvParts
<1>8. ASSUME NEW r \in Requests, Got412(r) PROVE IInv'
  <2>1. ep[r] \in Endpoints /\ Record412(ep[r]) /\ UNCHANGED <<now, ep>>
    BY <1>2, <1>8 DEF Got412
  <2>2. Limits' /\ last412' = now /\ pausedUntil' = now + PauseSeconds
    BY <2>1, Record412Keeps
  <2>3. /\ hit' = [hit EXCEPT ![r] = now] /\ hit' \in [Requests -> Time]
        /\ last412' \in Time /\ pausedUntil' \in Time
    BY <1>2, <1>8, <2>2 DEF Got412, Time
  <2>4. PICK p \in {"backoff", "idle"} : pc' = [pc EXCEPT ![r] = p]
    BY <1>8 DEF Got412
  <2>5. pc' \in [Requests -> PC] /\ \A s \in Requests \ {r} : pc'[s] = pc[s] /\ wake'[s] = wake[s]
    BY <1>2, <1>8, <2>4 DEF PC, Got412
  <2>6. wake' \in [Requests -> Nat]
    <3>1. now + Larger(PauseSeconds, RetryDelay) \in Nat
      BY <1>2 DEF Larger
    <3> QED BY <1>2, <1>8, <3>1 DEF Got412
  <2>7. PauseCovers'
    <3> SUFFICES ASSUME NEW s \in Requests, hit'[s] # NoTime
                 PROVE  /\ hit'[s] + PauseSeconds <= pausedUntil'
                        /\ hit'[s] <= now
                        /\ pc'[s] = "paused" => hit'[s] + PauseSeconds <= wake'[s]
      BY <2>1 DEF PauseCovers
    <3>1. CASE s = r
      <4>1. hit'[s] = now /\ pc'[s] # "paused"
        BY <1>2, <2>3, <2>4, <3>1
      <4> QED BY <1>2, <2>2, <4>1
    <3>2. CASE s # r
      <4>1. hit'[s] = hit[s] /\ hit[s] \in Nat
        BY <1>2, <2>3, <3>2 DEF Time, NoTime
      <4>2. hit[s] <= now /\ (pc[s] = "paused" => hit[s] + PauseSeconds <= wake[s])
        BY <1>1, <4>1 DEF Coroutines, PauseCovers
      <4> QED BY <1>2, <2>2, <2>5, <3>2, <4>1, <4>2
    <3> QED BY <3>1, <3>2
  <2>8. OwnPauseKept'
    <3> SUFFICES ASSUME NEW s \in Requests, hit'[s] # NoTime, pc'[s] \in Gates
                 PROVE  now >= hit'[s] + PauseSeconds
      BY <2>1 DEF OwnPauseKept, Gates
    <3>1. s # r
      BY <1>2, <2>4 DEF Gates
    <3>2. hit'[s] = hit[s] /\ pc'[s] = pc[s]
      BY <1>2, <2>3, <2>5, <3>1
    <3> QED BY <1>1, <3>2 DEF Coroutines, OwnPauseKept, Gates
  <2>9. Coroutines'
    BY <1>2, <2>1, <2>3, <2>5, <2>6, <2>7, <2>8 DEF Coroutines
  <2> QED BY <2>2, <2>9, IInvParts
<1>9. ASSUME NEW r \in Requests, Retry(r) PROVE IInv'
  BY <1>2, <1>9, AdmitKeeps DEF Retry
<1>10. CASE UNCHANGED vars
  <2>1. /\ UNCHANGED <<rates, recoveredUntil, steps, now, last412>>
        /\ UNCHANGED <<now, pausedUntil, last412, pc, ep, wake, hit>>
    BY <1>10 DEF vars, times, request
  <2>2. Limits'
    BY <1>1, <2>1, LimitsUnchanged
  <2>3. Coroutines'
    BY <1>1, <2>1 DEF Coroutines, PauseCovers, OwnPauseKept
  <2> QED BY <2>2, <2>3, IInvParts
<1> QED BY <1>3, <1>4, <1>5, <1>6, <1>7, <1>8, <1>9, <1>10 DEF Next, Step

------------------------------------------------------------------------------
(* The theorems.                                                             *)

\* The invariant holds in every reachable state.
THEOREM Invariance == Spec => []IInv
BY InitInv, NextInv, PTL DEF Spec

\* Every variable of the limiter and of the coroutines keeps its type.
THEOREM TypeCorrect == Spec => []TypeOK
<1>1. IInv => TypeOK
  BY DEF IInv
<1> QED BY Invariance, <1>1, PTL

\* For any configured rates, also ones below the floor, no sequence of 412s and recoveries
\* leaves the range between the floor and the configured rate; so a rate configured at or
\* above the floor is never exceeded, and one below it only by what lifts it to the floor.
THEOREM RatesStayInBounds == Spec => []QpsInBounds
<1>1. IInv => QpsInBounds
  BY DEF IInv
<1> QED BY Invariance, <1>1, PTL

\* For any cooldown n recovery steps take at least n cooldowns since the last 412.
THEOREM RecoveryIsPaced == Spec => []RecoveryPaced
<1>1. IInv => RecoveryPaced
  BY DEF IInv
<1> QED BY Invariance, <1>1, PTL

\* For any number of endpoints and coroutines no limiter is left behind by a recovery.
THEOREM LimitersFollowTheirClass == Spec => []LimitersFollow
<1>1. IInv => LimitersFollow
  BY DEF IInv
<1> QED BY Invariance, <1>1, PTL

\* For any number of coroutines the one that got a 412 is silent for pause_seconds.
THEOREM OwnPauseIsKept == Spec => []OwnPauseKept
<1>1. IInv => OwnPauseKept
  BY DEF IInv
<1> QED BY Invariance, <1>1, PTL
=============================================================================
