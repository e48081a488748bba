----------------------------- MODULE RateLimit ------------------------------
(***************************************************************************)
(* The adaptive rate limiter of the fetching stage together with the       *)
(* request coroutines that go through it: a shared 412 pause, a global and *)
(* a per-endpoint limiter, halving on every 412 and stepwise recovery.     *)
(*                                                                         *)
(* Rates are integers, 1600 to one request per second, so that every       *)
(* halving the instances reach is exact and the floor of 0.05 is 80.       *)
(***************************************************************************)
EXTENDS Integers

CONSTANTS
  Requests,      \* the request coroutines
  Endpoints,     \* rate_limit_key values
  ItemFanout,    \* those in _ITEM_FANOUT_ENDPOINTS
  Orig,          \* settings: class of limiter -> original rate, of any size
  PauseSeconds, RecoveryCooldown, RetryDelay,
  MaxTime        \* bound: the clock stops here

Floor == 80
Class == {"global", "endpoint", "video_detail"}

ASSUME RateLimitAssumption ==
  /\ ItemFanout \subseteq Endpoints
  /\ Orig \in [Class -> Int]
  /\ PauseSeconds \in Nat /\ RecoveryCooldown \in Nat /\ RetryDelay \in Nat
  /\ MaxTime \in Nat

VARIABLES
  now,             \* time.time()
  qps,             \* _global_qps, _endpoint_qps, _video_detail_qps by class
  globalLimiter,   \* max_rate of _global
  limiter,         \* max_rate of _endpoint_limiters[e], NoLimiter if there is none
  pausedUntil,     \* _paused_until
  last412,         \* _last_412_at
  recoveredUntil,  \* _recovered_until
  pc,              \* where each request coroutine is
  ep,              \* the endpoint it asks
  wake,            \* when its asyncio.sleep ends
  steps,           \* history: recovery steps since the last 412
  hit              \* history: when a coroutine last got a 412 itself

rates   == <<qps, globalLimiter, limiter>>
times   == <<pausedUntil, last412, recoveredUntil>>
request == <<pc, ep, wake>>
vars    == <<now, rates, times, request, steps, hit>>

NoTime    == -1      \* None: earlier than any time
NoLimiter == 0
ClassOf(e) == IF e \in ItemFanout THEN "video_detail" ELSE "endpoint"

\* Asleep before the gates, waiting at a gate, or in a backoff after a 412.
PC == {"idle", "paused", "globalGate", "endpointGate", "sent", "backoff"}

------------------------------------------------------------------------------
(* Arithmetic of the rates.                                                  *)

Larger(a, b) == IF a >= b THEN a ELSE b
Smaller(a, b) == IF a >= b THEN b ELSE a

\* max(round(qps * 10), 1), where round takes a tie to the even neighbour: 160 units
\* make one permit per period of ten seconds.
Rounded(q) ==
  LET down == q \div 160
      rest == q % 160
  IN IF rest > 80 \/ (rest = 80 /\ down % 2 = 1) THEN down + 1 ELSE down

MaxRate(q) == Larger(Rounded(q), 1)

Halved(q) == Larger(Floor, q \div 2)

\* Seeded fault: the result is not capped.
RecoverStep_NoCap(q, orig) == IF q >= orig THEN orig ELSE 2 * q

RecoverStep(q, orig) ==
  IF q >= orig \/ 40 * q >= 19 * orig THEN orig ELSE 2 * q

------------------------------------------------------------------------------
(* Recovery: the synchronous _try_recover.                                   *)

\* Seeded fault: recovery is due one cooldown after the 412, however often it ran.
Epoch_LastOnly == last412 + RecoveryCooldown

Epoch == Larger(last412 + RecoveryCooldown, recoveredUntil)
Due   == last412 # NoTime /\ now >= Epoch

\* Seeded fault: existing limiters of an endpoint class keep their rate.
Rebuilt_OnlyGlobal(e) == limiter[e]

\* The limiter of e after a step: rebuilt if its class was below its original rate.
Rebuilt(e) ==
  LET c == ClassOf(e)
  IN IF limiter[e] # NoLimiter /\ qps[c] < Orig[c]
     THEN MaxRate(RecoverStep(qps[c], Orig[c])) ELSE limiter[e]

Recover ==
  /\ qps' = [c \in Class |-> IF qps[c] < Orig[c] THEN RecoverStep(qps[c], Orig[c])
                                                 ELSE qps[c]]
  /\ globalLimiter' = IF qps["global"] < Orig["global"]
                      THEN MaxRate(qps'["global"]) ELSE globalLimiter
  /\ limiter' = [e \in Endpoints |-> Rebuilt(e)]
  /\ recoveredUntil' = Epoch + RecoveryCooldown
  /\ steps' = steps + 1

TryRecover ==
  \/ Due /\ Recover
  \/ ~Due /\ UNCHANGED <<rates, recoveredUntil, steps>>

------------------------------------------------------------------------------
(* acquire                                                                   *)

\* The pause is looked at once. Without one, recovery follows and the coroutine
\* queues at the global limiter.
Admit(r) ==
  \/ /\ pausedUntil > now
     /\ pc' = [pc EXCEPT ![r] = "paused"] /\ wake' = [wake EXCEPT ![r] = pausedUntil]
     /\ UNCHANGED <<rates, recoveredUntil, steps>>
  \/ /\ pausedUntil <= now
     /\ pc' = [pc EXCEPT ![r] = "globalGate"] /\ UNCHANGED wake
     /\ TryRecover

Begin(r) ==
  /\ pc[r] = "idle"
  /\ \E e \in Endpoints : ep' = [ep EXCEPT ![r] = e]
  /\ Admit(r)
  /\ UNCHANGED <<now, pausedUntil, last412, hit>>

\* asyncio.sleep(remaining) is over: the pause is not looked at again.
Resume(r) ==
  /\ pc[r] = "paused" /\ now >= wake[r]
  /\ pc' = [pc EXCEPT ![r] = "globalGate"]
  /\ TryRecover
  /\ UNCHANGED <<now, pausedUntil, last412, ep, wake, hit>>

\* The limiters are external (aiolimiter): a queued coroutine gets its permit at some
\* time. The endpoint's limiter is created at the rate of this moment.
PassGlobal(r) ==
  /\ pc[r] = "globalGate"
  /\ limiter' = IF limiter[ep[r]] = NoLimiter
                THEN [limiter EXCEPT ![ep[r]] = MaxRate(qps[ClassOf(ep[r])])]
                ELSE limiter
  /\ pc' = [pc EXCEPT ![r] = "endpointGate"]
  /\ UNCHANGED <<now, qps, globalLimiter, times, ep, wake, steps, hit>>

PassEndpoint(r) ==
  /\ pc[r] = "endpointGate"
  /\ pc' = [pc EXCEPT ![r] = "sent"]
  /\ UNCHANGED <<now, rates, times, ep, wake, steps, hit>>

------------------------------------------------------------------------------
(* The answer.                                                               *)

\* Any answer but a 412. (Other errors retry without touching the limiter.)
Answer(r) ==
  /\ pc[r] = "sent"
  /\ pc' = [pc EXCEPT ![r] = "idle"]
  /\ UNCHANGED <<now, rates, times, ep, wake, steps, hit>>

\* Seeded fault: the pause is left out.
Record412_NoPause(e) ==
  /\ last412' = now /\ recoveredUntil' = NoTime
  /\ qps' = [qps EXCEPT !["global"] = Halved(@), ![ClassOf(e)] = Halved(@)]
  /\ globalLimiter' = MaxRate(qps'["global"])
  /\ limiter' = [limiter EXCEPT ![e] = MaxRate(qps'[ClassOf(e)])]
  /\ UNCHANGED pausedUntil
  /\ steps' = 0

\* record_412: the whole class is halved, but only e's own limiter is rebuilt. e has a
\* limiter, because its request came through acquire.
Record412(e) ==
  /\ last412' = now /\ recoveredUntil' = NoTime
  /\ qps' = [qps EXCEPT !["global"] = Halved(@), ![ClassOf(e)] = Halved(@)]
  /\ globalLimiter' = MaxRate(qps'["global"])
  /\ limiter' = [limiter EXCEPT ![e] = MaxRate(qps'[ClassOf(e)])]
  /\ pausedUntil' = now + PauseSeconds
  /\ steps' = 0

\* Seeded fault: the coroutine sleeps until the pause that was in force before its 412.
Got412_OldPause(r) ==
  /\ pc[r] = "sent"
  /\ Record412(ep[r])
  /\ \/ /\ pc' = [pc EXCEPT ![r] = "backoff"]
        /\ wake' = [wake EXCEPT ![r] = pausedUntil]
     \/ pc' = [pc EXCEPT ![r] = "idle"] /\ UNCHANGED wake
  /\ hit' = [hit EXCEPT ![r] = now]
  /\ UNCHANGED <<now, ep>>

\* on_attempt_failed for an Http412Error: with an attempt left the coroutine sleeps
\* max(advice["wait_seconds"], delay), else its endpoint or item has failed.
Got412(r) ==
  /\ pc[r] = "sent"
  /\ Record412(ep[r])
  /\ \/ /\ pc' = [pc EXCEPT ![r] = "backoff"]
        /\ wake' = [wake EXCEPT ![r] = now + Larger(PauseSeconds, RetryDelay)]
     \/ pc' = [pc EXCEPT ![r] = "idle"] /\ UNCHANGED wake
  /\ hit' = [hit EXCEPT ![r] = now]
  /\ UNCHANGED <<now, ep>>

\* The next attempt calls acquire again.
Retry(r) ==
  /\ pc[r] = "backoff" /\ now >= wake[r]
  /\ Admit(r)
  /\ UNCHANGED <<now, pausedUntil, last412, ep, hit>>

Tick ==
  /\ now < MaxTime
  /\ now' = now + 1
  /\ UNCHANGED <<rates, times, request, steps, hit>>

------------------------------------------------------------------------------

Init ==
  /\ now = 0
  /\ qps = Orig
  /\ globalLimiter = MaxRate(Orig["global"])
  /\ limiter = [e \in Endpoints |-> NoLimiter]
  /\ pausedUntil = NoTime /\ last412 = NoTime /\ recoveredUntil = NoTime
  /\ pc = [r \in Requests |-> "idle"]
  /\ ep \in [Requests -> Endpoints]
  /\ wake = [r \in Requests |-> 0]
  /\ steps = 0
  /\ hit = [r \in Requests |-> NoTime]

Step(r) ==
  \/ Begin(r) \/ Resume(r) \/ PassGlobal(r) \/ PassEndpoint(r)
  \/ Answer(r) \/ Got412(r) \/ Retry(r)

Next == Tick \/ \E r \in Requests : Step(r)

Spec == Init /\ [][Next]_vars

------------------------------------------------------------------------------
(* Properties.                                                               *)

Time == Nat \union {NoTime}

TypeOK ==
  /\ now \in Nat
  /\ qps \in [Class -> Int]
  /\ globalLimiter \in Nat
  /\ limiter \in [Endpoints -> Nat]
  /\ pausedUntil \in Time /\ last412 \in Time /\ recoveredUntil \in Time
  /\ pc \in [Requests -> PC]
  /\ ep \in [Requests -> Endpoints]
  /\ wake \in [Requests -> Nat]
  /\ steps \in Nat
  /\ hit \in [Requests -> Time]

\* No sequence of 412s and recoveries takes a rate above the one the user configured
\* ("recovery never exceeds these", RateLimitController.__init__) or below the floor of
\* record_412; save that a 412 lifts a rate configured below the floor to the floor.
QpsInBounds ==
  \A c \in Class : qps[c] \in Smaller(Floor, Orig[c])..Larger(Floor, Orig[c])

\* Recovery is paced by the clock and not by the number of requests: after n steps at
\* least n cooldowns have passed since the last 412, also when idle time is caught up
\* with one step per request (_try_recover).
RecoveryPaced == last412 # NoTime => steps * RecoveryCooldown <= now - last412

\* No limiter is left behind by a recovery: none is slower than the budget of its
\* class, and once a class is back at its original rate all of its limiters are,
\* although a 412 rebuilds only the limiter it came through (record_412).
LimitersFollow ==
  /\ globalLimiter = MaxRate(qps["global"])
  /\ \A e \in Endpoints : limiter[e] # NoLimiter =>
       /\ MaxRate(qps[ClassOf(e)]) <= limiter[e]
       /\ qps[ClassOf(e)] = Orig[ClassOf(e)] => limiter[e] = MaxRate(Orig[ClassOf(e)])

\* A coroutine that got a 412 sends nothing for pause_seconds, although its backoff and
\* the shared pause are two timers, the pause is looked at once, and others move it.
OwnPauseKept ==
  \A r \in Requests :
    hit[r] # NoTime /\ pc[r] \in {"globalGate", "endpointGate", "sent"}
      => now >= hit[r] + PauseSeconds

\* "respect 412 pause" (comment in acquire): no coroutine goes on to the limiters while
\* a pause is in force.
PauseRespected ==
  [][\A r \in Requests : pc[r] = "paused" /\ pc'[r] = "globalGate" => pausedUntil <= now]_vars
=============================================================================
