------------------------- MODULE AdaptiveController -------------------------
(***************************************************************************)
(* AdaptiveController of app/capacity.py in full: the condition variable   *)
(* its callers wait on, the three sliding windows, and adjust_loop.  It    *)
(* implements the contract of CapacityController.                          *)
(*                                                                         *)
(* Callers that have acquired a slot hand it over (to a dispatch task) and *)
(* may come back for another one; whoever holds it releases it later.      *)
(***************************************************************************)
EXTENDS Integers, Sequences, FiniteSets

CONSTANTS
    MinLimit, MaxLimit, WindowSize, MinSamples, Latencies,
    InitialLimit,       \* initial_concurrency
    Callers,            \* tasks that call acquire()
    TargetP95,          \* target_p95_ms
    TimeoutPercent,     \* timeout_rate_threshold, in percent
    ErrorPercent,       \* error_rate_threshold, in percent
    Interval            \* seconds between two adjustments (30 in the code)

(* The configuration asks of the three limits that they are positive, and  *)
(* nothing of their order.                                                 *)
ASSUME AdaptiveAssumption ==
    /\ {MinLimit, InitialLimit, MaxLimit} \subseteq Nat \ {0}
    /\ WindowSize \in Nat \ {0} /\ MinSamples \in Nat \ {0}
    /\ Latencies \subseteq Nat
    /\ IsFiniteSet(Callers)
    /\ TargetP95 \in Nat \ {0}
    /\ TimeoutPercent \in 0..100 /\ ErrorPercent \in 0..100
    /\ Interval \in Nat \ {0}

VARIABLES
    limit, inFlight, latency,   \* as in CapacityController
    timeouts, errors,           \* RateWindow: one Boolean per release
    cooldown,                   \* seconds left of _cooldown_until at the last tick
    waiters,                    \* callers waiting on the condition, oldest first
    woken                       \* callers notified that have not yet run

vars == <<limit, inFlight, latency, timeouts, errors, cooldown, waiters, woken>>

AtMost(bound, n)  == IF n > bound THEN bound ELSE n
AtLeast(bound, n) == IF n < bound THEN bound ELSE n

(* The range the limit moves in: it starts anywhere, and a branch of       *)
(* _adjust() applies one of the two bounds.                                *)
Lowest  == AtMost(InitialLimit, AtMost(MaxLimit, MinLimit))
Highest == AtLeast(InitialLimit, AtLeast(MaxLimit, MinLimit))

Contract == INSTANCE CapacityController WITH MinLimit <- Lowest, MaxLimit <- Highest

Waiting == {waiters[k] : k \in DOMAIN waiters}

TypeOK ==
    /\ limit \in Nat /\ inFlight \in Nat
    /\ latency \in Seq(Latencies) /\ Len(latency) =< WindowSize
    /\ timeouts \in Seq(BOOLEAN) /\ Len(timeouts) =< WindowSize
    /\ errors \in Seq(BOOLEAN) /\ Len(errors) =< WindowSize
    /\ cooldown \in 0..60
    /\ waiters \in Seq(Callers) /\ woken \in SUBSET (Callers \ Waiting)

Init ==
    /\ limit = InitialLimit /\ inFlight = 0
    /\ latency = <<>> /\ timeouts = <<>> /\ errors = <<>>
    /\ cooldown = 0
    /\ waiters = <<>> /\ woken = {}

-----------------------------------------------------------------------------
(* acquire() and release()                                                 *)

CanAcquire == inFlight + 1 =< limit

(* wait_for(): take the slot if there is one, else wait for a notification. *)
TakeOrWait(c) ==
    \/ /\ CanAcquire
       /\ inFlight' = inFlight + 1
       /\ UNCHANGED waiters
    \/ /\ ~CanAcquire
       /\ waiters' = Append(waiters, c)
       /\ UNCHANGED inFlight

Acquire(c) ==
    /\ c \notin Waiting \union woken
    /\ TakeOrWait(c)
    /\ UNCHANGED <<limit, latency, timeouts, errors, cooldown, woken>>

(* A notified caller runs and tests the predicate again.                   *)
Resume(c) ==
    /\ c \in woken
    /\ woken' = woken \ {c}
    /\ TakeOrWait(c)
    /\ UNCHANGED <<limit, latency, timeouts, errors, cooldown>>

(* Mutant: nobody is notified unless there was room before the release.    *)
NotifyOneIfRoom ==
    IF waiters = <<>> \/ ~CanAcquire THEN UNCHANGED <<waiters, woken>>
    ELSE woken' = woken \union {Head(waiters)} /\ waiters' = Tail(waiters)

NotifyOne ==
    IF waiters = <<>> THEN UNCHANGED <<waiters, woken>>
    ELSE woken' = woken \union {Head(waiters)} /\ waiters' = Tail(waiters)

(* Mutant: the latency window has no maxlen.                               *)
ReleaseUnbounded(ms, status, timedOut) ==
    /\ inFlight > 0
    /\ inFlight' = inFlight - 1
    /\ timeouts' = Contract!Record(timeouts, timedOut)
    /\ errors' = Contract!Record(errors, status >= 500 /\ ~timedOut)
    /\ latency' = IF ~timedOut /\ status < 500 THEN Append(latency, ms) ELSE latency
    /\ NotifyOne
    /\ UNCHANGED <<limit, cooldown>>

Release(ms, status, timedOut) ==
    /\ inFlight > 0
    /\ inFlight' = inFlight - 1
    /\ timeouts' = Contract!Record(timeouts, timedOut)
    /\ errors' = Contract!Record(errors, status >= 500 /\ ~timedOut)
    /\ latency' = IF ~timedOut /\ status < 500
                  THEN Contract!Record(latency, ms) ELSE latency
    /\ NotifyOne
    /\ UNCHANGED <<limit, cooldown>>

-----------------------------------------------------------------------------
(* adjust_loop() and _adjust()                                             *)

HasP95 == Len(latency) >= MinSamples

(* The sample at index int(0.95 * n) of the sorted window.                 *)
P95 ==
    LET index == (95 * Len(latency)) \div 100
        CountOf(P(_)) == Cardinality({k \in DOMAIN latency : P(latency[k])})
    IN  CHOOSE x \in {latency[k] : k \in DOMAIN latency} :
            /\ CountOf(LAMBDA y : y < x) =< index
            /\ CountOf(LAMBDA y : y =< x) > index

(* RateWindow.rate() > percent / 100; an empty window has rate 0.          *)
RateAbove(window, percent) ==
    100 * Cardinality({k \in DOMAIN window : window[k]}) > percent * Len(window)

Verdict ==
    IF RateAbove(timeouts, TimeoutPercent) THEN "timeouts"
    ELSE IF RateAbove(errors, ErrorPercent) THEN "errors"
    ELSE IF P95 > 2 * TargetP95 THEN "very_slow"
    ELSE IF P95 > TargetP95 THEN "slow"
    ELSE IF 2 * P95 < TargetP95 THEN "fast"
    ELSE "steady"

Percent == [timeouts |-> 60, errors |-> 75, very_slow |-> 70, slow |-> 85,
            steady |-> 100, fast |-> 105]

(* int(l * percent / 100) in doubles.  0.70 is stored slightly below its   *)
(* value; where 0.70 * l should be whole and lies in the upper quarter of  *)
(* a binade, the product is the double below it and truncates to one less. *)
(* The other four factors truncate as exact products do.  The largest      *)
(* binade, 2^22, is enough for limits up to ten million.                   *)
FallsShort(l) ==
    /\ l % 10 = 0
    /\ \E k \in 0..22 : 175 * 2^k < 70 * l /\ 70 * l < 200 * 2^k

Truncated(l, percent) ==
    (l * percent) \div 100 - (IF percent = 70 /\ FallsShort(l) THEN 1 ELSE 0)

(* What Python computes for the limits of config/backends.yaml.            *)
ASSUME TruncationAssumption ==
    {l \in 1..500 : Truncated(l, 70) # (70 * l) \div 100}
        = {90, 170, 180, 330, 340, 350, 360}

(* Mutant: rounding up instead of truncating.                              *)
ScaledUp(verdict) == (limit * Percent[verdict] + 99) \div 100

Scaled(verdict) == Truncated(limit, Percent[verdict])

(* Mutant: the bounds are forgotten.                                       *)
NewLimitUnclamped(verdict) == IF verdict = "steady" THEN limit ELSE Scaled(verdict)

(* Shrinking stops at the minimum, growing at the maximum: a limit below   *)
(* the one is raised to it, a limit above the other lowered.               *)
NewLimit(verdict) ==
    IF verdict = "steady" THEN limit
    ELSE IF verdict = "fast" THEN AtMost(MaxLimit, Scaled(verdict))
    ELSE AtLeast(MinLimit, Scaled(verdict))

NewCooldown(verdict) ==
    IF verdict = "timeouts" THEN 60
    ELSE IF verdict \in {"errors", "very_slow"} THEN 30 ELSE 0

(* Mutant: a raise wakes nobody.                                           *)
NotifyNobody == UNCHANGED <<waiters, woken>>

(* A raised limit wakes every waiter; otherwise nobody can newly fit.      *)
NotifyAllIfRaised ==
    IF limit' > limit
    THEN woken' = woken \union Waiting /\ waiters' = <<>>
    ELSE UNCHANGED <<waiters, woken>>

CooldownLeft == AtLeast(0, cooldown - Interval)

Adjust ==
    /\ CooldownLeft = 0 /\ HasP95
    /\ limit' = NewLimit(Verdict)
    /\ cooldown' = NewCooldown(Verdict)
    /\ NotifyAllIfRaised
    /\ UNCHANGED <<inFlight, latency, timeouts, errors>>

(* Still cooling down, or too few samples: the tick changes nothing else.  *)
SkipAdjust ==
    /\ CooldownLeft > 0 \/ ~HasP95
    /\ cooldown' = CooldownLeft
    /\ UNCHANGED <<limit, inFlight, latency, timeouts, errors, waiters, woken>>

Tick == Adjust \/ SkipAdjust

-----------------------------------------------------------------------------
(* A response, or no response: status 0, timed out or failed otherwise.    *)
SomeRelease ==
    \E ms \in Latencies :
       \/ \E status \in {200, 503} : Release(ms, status, FALSE)
       \/ \E timedOut \in BOOLEAN : Release(ms, 0, timedOut)

Next ==
    \/ \E c \in Callers : Acquire(c) \/ Resume(c)
    \/ SomeRelease
    \/ Tick

Spec == Init /\ [][Next]_vars

(* The event loop runs notified callers and the adjustment task; dispatches *)
(* end.  Nothing obliges a caller to come for a slot.                      *)
FairSpec ==
    /\ Spec
    /\ \A c \in Callers : WF_vars(Resume(c))
    /\ WF_vars(SomeRelease)
    /\ WF_vars(Tick)

-----------------------------------------------------------------------------
(* No wake-up is lost: as long as a caller waits unnotified, every free    *)
(* slot is already promised to a notified one.  Waking one waiter per      *)
(* release is enough, with the limit moving under the waiters, because a   *)
(* raise wakes them all.                                                   *)
NoLostWakeup == waiters # <<>> => limit - inFlight =< Cardinality(woken)

(* acquire() never goes over the limit; a shrunk limit stops it until the  *)
(* slots above it have drained.                                            *)
NeverOverAdmits == [][inFlight' > inFlight => inFlight' =< limit']_vars

(* The detailed controller implements the contract the scheduler and the   *)
(* load balancer rely on, over the range its three configured limits span, *)
(* whatever their order.                                                   *)
ImplementsContract == Contract!ContractSpec

Overloaded == HasP95 /\ Verdict \in {"timeouts", "errors", "very_slow", "slow"}

(* No tick of adjust_loop in overload goes by for nothing, whatever the    *)
(* truncation and the cooldown make of it.                                 *)
OverloadedTicksShrink ==
    [][Overloaded /\ Tick =>
          \/ limit' = MinLimit
          \/ MinLimit < limit' /\ limit' < limit
          \/ limit' = limit /\ cooldown' < cooldown]_vars

(* Overload is answered: while the windows keep showing it, cooldowns and  *)
(* rounding included, the limit goes all the way down to the minimum.      *)
OverloadShrinksToMinimum == <>[]Overloaded => <>(limit = MinLimit)

(* Somebody who waits for a slot gets one.                                 *)
WaitersAcquire ==
    \A c \in Callers : c \in Waiting \union woken ~> c \notin Waiting \union woken
=============================================================================
