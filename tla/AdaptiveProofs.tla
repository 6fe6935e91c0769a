--------------------------- MODULE AdaptiveProofs ---------------------------
(***************************************************************************)
(* AdaptiveController for any number of callers, any limits, windows,      *)
(* thresholds and latencies: its types, that no wake-up is lost, that no   *)
(* caller goes over the limit, and that it implements CapacityController.  *)
(*                                                                         *)
(* The inductive invariant is TypeOK, NoLostWakeup and the fact that a     *)
(* caller waits once: a notification then moves one caller from the        *)
(* waiting to the notified, never a caller that is notified already.       *)
(***************************************************************************)
EXTENDS AdaptiveController, FiniteSetTheorems, TLAPS

WaitsOnce == \A m, n \in DOMAIN waiters : waiters[m] = waiters[n] => m = n

Verdicts == {"timeouts", "errors", "very_slow", "slow", "steady", "fast"}

-----------------------------------------------------------------------------
(* Operators                                                               *)

(* A window of bounded length takes a sample and stays one.                *)
LEMMA RecordType ==
    ASSUME NEW S, NEW window \in Seq(S), Len(window) =< WindowSize, NEW sample \in S
    PROVE  /\ Contract!Record(window, sample) \in Seq(S)
           /\ Len(Contract!Record(window, sample)) =< WindowSize
  <1>1. CASE Len(window) < WindowSize
    BY <1>1, AdaptiveAssumption DEF Contract!Record
  <1>2. CASE ~(Len(window) < WindowSize)
    <2>1. window # <<>> /\ Len(window) = WindowSize
      BY <1>2, AdaptiveAssumption
    <2>2. Tail(window) \in Seq(S) /\ Len(Tail(window)) = Len(window) - 1
      BY <2>1
    <2> QED BY <1>2, <2>1, <2>2, AdaptiveAssumption DEF Contract!Record
  <1> QED BY <1>1, <1>2

LEMMA VerdictType == Verdict \in Verdicts
  BY DEF Verdict, Verdicts

(* Truncation, one unit short or not, stays a natural number, and a factor *)
(* below one makes a positive limit smaller.                               *)
LEMMA TruncatedBelow ==
    ASSUME NEW l \in Nat, NEW percent \in {60, 70, 75, 85}
    PROVE  /\ Truncated(l, percent) \in Nat
           /\ Truncated(l, percent) =< l
           /\ l > 0 => Truncated(l, percent) < l
  <1>1. (l * percent) \div 100 \in Nat /\ (l * percent) \div 100 =< l
        /\ (l > 0 => (l * percent) \div 100 < l)
    OBVIOUS
  <1>2. CASE percent = 70 /\ FallsShort(l)
    <2>1. PICK k \in 0..22 : 175 * 2^k < 70 * l /\ 70 * l < 200 * 2^k
      BY <1>2 DEF FallsShort
    <2>2. l > 0
      <3>1. 2^k \in Int
        OBVIOUS
      <3> QED BY <2>1, <3>1
    <2>3. l >= 10
      BY <1>2, <2>2 DEF FallsShort
    <2>4. (l * 70) \div 100 >= 1
      BY <2>3
    <2> QED BY <1>1, <1>2, <2>4 DEF Truncated
  <1>3. CASE ~(percent = 70 /\ FallsShort(l))
    BY <1>1, <1>3 DEF Truncated
  <1> QED BY <1>2, <1>3

(* The three configured limits are in the range they span.                 *)
LEMMA RangeSpansLimits ==
    /\ Lowest \in Nat \ {0} /\ Highest \in Nat /\ Lowest =< Highest
    /\ {MinLimit, InitialLimit, MaxLimit} \subseteq Lowest..Highest
  BY AdaptiveAssumption DEF Lowest, Highest, AtMost, AtLeast

(* The limit stays in that range, one bound per branch being enough.       *)
LEMMA NewLimitType ==
    ASSUME limit \in Nat, NEW verdict \in Verdicts
    PROVE  /\ NewLimit(verdict) \in Nat
           /\ limit \in Lowest..Highest => NewLimit(verdict) \in Lowest..Highest
  <1>1. /\ MinLimit \in Nat /\ MaxLimit \in Nat /\ Lowest \in Nat /\ Highest \in Nat
        /\ MinLimit \in Lowest..Highest /\ MaxLimit \in Lowest..Highest
    BY AdaptiveAssumption, RangeSpansLimits
  <1>2. /\ verdict = "fast" => Percent[verdict] = 105
        /\ verdict \notin {"steady", "fast"} => Percent[verdict] \in {60, 70, 75, 85}
    BY DEF Percent, Verdicts
  <1>3. CASE verdict = "steady"
    BY <1>1, <1>3 DEF NewLimit
  <1>4. CASE verdict = "fast"
    <2>1. Scaled(verdict) = (limit * 105) \div 100
      BY <1>2, <1>4 DEF Scaled, Truncated
    <2>2. Scaled(verdict) \in Nat /\ Scaled(verdict) >= limit
      BY <2>1
    <2> QED BY <1>1, <1>4, <2>2 DEF NewLimit, AtMost
  <1>5. CASE verdict \notin {"steady", "fast"}
    <2>1. Scaled(verdict) \in Nat /\ Scaled(verdict) =< limit
      BY <1>2, <1>5, TruncatedBelow DEF Scaled
    <2> QED BY <1>1, <1>5, <2>1 DEF NewLimit, AtLeast
  <1> QED BY <1>3, <1>4, <1>5

LEMMA NewCooldownType ==
    ASSUME NEW verdict PROVE NewCooldown(verdict) \in 0..60
  BY DEF NewCooldown

LEMMA CooldownLeftType == cooldown \in 0..60 => CooldownLeft \in 0..60
  BY AdaptiveAssumption DEF CooldownLeft, AtLeast

(* Every outcome of a dispatch is a release with one of three statuses.    *)
LEMMA ReleaseOutcome ==
    ASSUME SomeRelease
    PROVE  \E ms \in Latencies, status \in {0, 200, 503}, timedOut \in BOOLEAN :
              Release(ms, status, timedOut)
  <1>1. PICK ms \in Latencies :
           \/ \E status \in {200, 503} : Release(ms, status, FALSE)
           \/ \E timedOut \in BOOLEAN : Release(ms, 0, timedOut)
    BY DEF SomeRelease
  <1>2. CASE \E status \in {200, 503} : Release(ms, status, FALSE)
    <2>1. PICK status \in {200, 503} : Release(ms, status, FALSE)
      BY <1>2
    <2>2. PICK timedOut \in BOOLEAN : Release(ms, status, timedOut)
      BY <2>1, Zenon
    <2> WITNESS ms \in Latencies, status \in {0, 200, 503}, timedOut \in BOOLEAN
    <2> QED BY <2>2
  <1>3. CASE \E timedOut \in BOOLEAN : Release(ms, 0, timedOut)
    <2>1. PICK timedOut \in BOOLEAN : Release(ms, 0, timedOut)
      BY <1>3
    <2> WITNESS ms \in Latencies, 0 \in {0, 200, 503}, timedOut \in BOOLEAN
    <2> QED BY <2>1
  <1> QED BY <1>1, <1>2, <1>3

-----------------------------------------------------------------------------
(* Waiters                                                                 *)

LEMMA WokenFinite ==
    ASSUME woken \in SUBSET Callers
    PROVE  IsFiniteSet(woken) /\ Cardinality(woken) \in Nat
  BY AdaptiveAssumption, FS_Subset, FS_CardinalityType

(* A caller that joins the queue is its last member.                       *)
LEMMA WaiterJoins ==
    ASSUME waiters \in Seq(Callers), WaitsOnce, NEW c \in Callers \ Waiting,
           waiters' = Append(waiters, c)
    PROVE  waiters' \in Seq(Callers) /\ WaitsOnce' /\ Waiting' = Waiting \union {c}
  <1>1. /\ waiters' \in Seq(Callers)
        /\ DOMAIN waiters' = 1..(Len(waiters) + 1)
        /\ \A k \in DOMAIN waiters : waiters'[k] = waiters[k]
        /\ waiters'[Len(waiters) + 1] = c
        /\ DOMAIN waiters = 1..Len(waiters) /\ Len(waiters) \in Nat
    OBVIOUS
  <1>2. WaitsOnce'
    BY <1>1 DEF WaitsOnce, Waiting
  <1>3. Waiting' = Waiting \union {c}
    BY <1>1 DEF Waiting
  <1> QED BY <1>1, <1>2, <1>3

(* The head of the queue leaves it, and is waiting no longer.              *)
LEMMA WaiterLeaves ==
    ASSUME waiters \in Seq(Callers), WaitsOnce, waiters # <<>>,
           waiters' = Tail(waiters)
    PROVE  /\ waiters' \in Seq(Callers) /\ WaitsOnce'
           /\ Head(waiters) \in Waiting
           /\ Waiting' = Waiting \ {Head(waiters)}
  <1>1. /\ waiters' \in Seq(Callers)
        /\ Len(waiters) \in Nat \ {0}
        /\ DOMAIN waiters = 1..Len(waiters)
        /\ DOMAIN waiters' = 1..(Len(waiters) - 1)
        /\ \A k \in DOMAIN waiters' : waiters'[k] = waiters[k + 1]
        /\ Head(waiters) = waiters[1]
    OBVIOUS
  <1>2. WaitsOnce'
    BY <1>1 DEF WaitsOnce
  <1>3. Head(waiters) \in Waiting
    BY <1>1 DEF Waiting
  <1>4. ASSUME NEW k \in DOMAIN waiters, k # 1
        PROVE  waiters[k] \in Waiting'
    <2>1. k - 1 \in DOMAIN waiters' /\ waiters'[k - 1] = waiters[k]
      BY <1>1, <1>4
    <2> QED BY <2>1 DEF Waiting
  <1>5. Waiting \ {Head(waiters)} \subseteq Waiting'
    BY <1>1, <1>4 DEF Waiting
  <1>6. Waiting' \subseteq Waiting \ {Head(waiters)}
    <2>1. \A k \in DOMAIN waiters' : k + 1 \in DOMAIN waiters /\ k + 1 # 1
      BY <1>1
    <2> QED BY <1>1, <2>1 DEF Waiting, WaitsOnce
  <1> QED BY <1>1, <1>2, <1>3, <1>5, <1>6

-----------------------------------------------------------------------------
(* The inductive invariant                                                 *)

AdaptiveInv == TypeOK /\ WaitsOnce /\ NoLostWakeup

LEMMA InitInv == Init => AdaptiveInv
  <1> SUFFICES ASSUME Init PROVE AdaptiveInv
    OBVIOUS
  <1>1. InitialLimit \in Nat /\ WindowSize \in Nat
    BY AdaptiveAssumption
  <1>2. TypeOK
    BY <1>1 DEF Init, TypeOK, Waiting
  <1> QED BY <1>2 DEF Init, AdaptiveInv, WaitsOnce, NoLostWakeup

(* acquire(): a caller takes a slot, or joins those who wait.              *)
LEMMA AcquireKeeps ==
    ASSUME AdaptiveInv, NEW c \in Callers, Acquire(c)
    PROVE  AdaptiveInv'
  <1> USE DEF AdaptiveInv, TypeOK, Acquire, TakeOrWait, CanAcquire
  <1>1. Cardinality(woken) \in Nat
    BY WokenFinite
  <1>2. CASE CanAcquire
    BY <1>1, <1>2 DEF WaitsOnce, NoLostWakeup, Waiting
  <1>3. CASE ~CanAcquire
    <2>1. waiters' \in Seq(Callers) /\ WaitsOnce' /\ Waiting' = Waiting \union {c}
      BY <1>3, WaiterJoins
    <2>2. TypeOK'
      BY <1>3, <2>1
    <2>3. NoLostWakeup'
      BY <1>1, <1>3 DEF NoLostWakeup
    <2> QED BY <2>1, <2>2, <2>3
  <1> QED BY <1>2, <1>3

(* A notified caller takes the slot it was promised, or waits again.       *)
LEMMA ResumeKeeps ==
    ASSUME AdaptiveInv, NEW c \in Callers, Resume(c)
    PROVE  AdaptiveInv'
  <1> USE DEF AdaptiveInv, TypeOK, Resume, TakeOrWait, CanAcquire
  <1>1. /\ Cardinality(woken) \in Nat /\ Cardinality(woken') \in Nat
        /\ Cardinality(woken') = Cardinality(woken) - 1
    BY WokenFinite, FS_RemoveElement, FS_CardinalityType
  <1>2. CASE CanAcquire
    BY <1>1, <1>2 DEF WaitsOnce, NoLostWakeup, Waiting
  <1>3. CASE ~CanAcquire
    <2>1. waiters' \in Seq(Callers) /\ WaitsOnce' /\ Waiting' = Waiting \union {c}
      BY <1>3, WaiterJoins
    <2>2. TypeOK'
      BY <1>3, <2>1
    <2>3. NoLostWakeup'
      BY <1>1, <1>3 DEF NoLostWakeup
    <2> QED BY <2>1, <2>2, <2>3
  <1> QED BY <1>2, <1>3

(* release(): the freed slot is promised to the waiter that is notified.   *)
LEMMA ReleaseKeeps ==
    ASSUME AdaptiveInv, NEW ms \in Latencies, NEW status \in Nat,
           NEW timedOut \in BOOLEAN, Release(ms, status, timedOut)
    PROVE  AdaptiveInv'
  <1> USE DEF AdaptiveInv, TypeOK, Release
  <1>1. /\ latency' \in Seq(Latencies) /\ Len(latency') =< WindowSize
        /\ timeouts' \in Seq(BOOLEAN) /\ Len(timeouts') =< WindowSize
        /\ errors' \in Seq(BOOLEAN) /\ Len(errors') =< WindowSize
    BY RecordType
  <1>2. inFlight' \in Nat /\ inFlight' = inFlight - 1 /\ UNCHANGED <<limit, cooldown>>
    OBVIOUS
  <1>3. CASE waiters = <<>>
    BY <1>1, <1>2, <1>3 DEF NotifyOne, WaitsOnce, NoLostWakeup, Waiting
  <1>4. CASE waiters # <<>>
    <2>1. woken' = woken \union {Head(waiters)} /\ waiters' = Tail(waiters)
      BY <1>4 DEF NotifyOne
    <2>2. /\ waiters' \in Seq(Callers) /\ WaitsOnce'
          /\ Head(waiters) \in Waiting
          /\ Waiting' = Waiting \ {Head(waiters)}
      BY <1>4, <2>1, WaiterLeaves
    <2>3. Waiting \subseteq Callers
      BY DEF Waiting
    <2>4. TypeOK'
      BY <1>1, <1>2, <2>1, <2>2, <2>3
    <2>5. Cardinality(woken') = Cardinality(woken) + 1 /\ Cardinality(woken) \in Nat
      BY <2>1, <2>2, WokenFinite, FS_AddElement
    <2>6. NoLostWakeup'
      BY <1>2, <1>4, <2>5 DEF NoLostWakeup
    <2> QED BY <2>2, <2>4, <2>6
  <1> QED BY <1>3, <1>4

(* adjust_loop: a raise promises slots to everybody; otherwise there are   *)
(* no more to promise than before.                                         *)
LEMMA TickKeeps ==
    ASSUME AdaptiveInv, Tick
    PROVE  AdaptiveInv'
  <1> USE DEF AdaptiveInv, TypeOK
  <1>1. CASE SkipAdjust
    BY <1>1, CooldownLeftType DEF SkipAdjust, WaitsOnce, NoLostWakeup, Waiting
  <1>2. CASE Adjust
    <2>1. /\ limit' \in Nat /\ cooldown' \in 0..60
          /\ UNCHANGED <<inFlight, latency, timeouts, errors>>
      BY <1>2, VerdictType, NewLimitType, NewCooldownType DEF Adjust
    <2>2. CASE limit' > limit
      <3>1. woken' = woken \union Waiting /\ waiters' = <<>>
        BY <1>2, <2>2 DEF Adjust, NotifyAllIfRaised
      <3>2. Waiting' = {} /\ Waiting \subseteq Callers
        BY <3>1 DEF Waiting
      <3> QED BY <2>1, <3>1, <3>2 DEF WaitsOnce, NoLostWakeup
    <2>3. CASE ~(limit' > limit)
      <3>1. UNCHANGED <<waiters, woken>>
        BY <1>2, <2>3 DEF Adjust, NotifyAllIfRaised
      <3>2. Cardinality(woken) \in Nat
        BY WokenFinite
      <3> QED BY <2>1, <2>3, <3>1, <3>2 DEF WaitsOnce, NoLostWakeup, Waiting
    <2> QED BY <2>2, <2>3
  <1> QED BY <1>1, <1>2 DEF Tick

LEMMA StepKeepsInv == AdaptiveInv /\ [Next]_vars => AdaptiveInv'
  <1>1. ASSUME AdaptiveInv, UNCHANGED vars
        PROVE  AdaptiveInv'
    BY <1>1 DEF AdaptiveInv, TypeOK, WaitsOnce, NoLostWakeup, Waiting, vars
  <1>2. ASSUME AdaptiveInv, SomeRelease
        PROVE  AdaptiveInv'
    <2>1. PICK ms \in Latencies, status \in {0, 200, 503}, timedOut \in BOOLEAN :
             Release(ms, status, timedOut)
      BY <1>2, ReleaseOutcome
    <2>2. status \in Nat
      BY <2>1
    <2> QED BY <1>2, <2>1, <2>2, ReleaseKeeps
  <1> QED BY <1>1, <1>2, AcquireKeeps, ResumeKeeps, TickKeeps DEF Next

LEMMA AlwaysInv == Spec => []AdaptiveInv
  BY InitInv, StepKeepsInv, PTL DEF Spec

-----------------------------------------------------------------------------
(* The state of the controller keeps its types: windows of bounded length, *)
(* a cooldown of at most a minute, callers waiting or notified, not both.  *)
THEOREM AdaptiveTypes == Spec => []TypeOK
  BY AlwaysInv, PTL DEF AdaptiveInv

(* One notification per release and one for all per raise lose no wake-up  *)
(* (the condition variable of acquire(), release() and _adjust()).         *)
THEOREM NoWakeupIsLost == Spec => []NoLostWakeup
  BY AlwaysInv, PTL DEF AdaptiveInv

(* No step of acquire() takes a slot above the limit, which adjust_loop    *)
(* moves at any time.                                                      *)
THEOREM NeverAboveTheLimit == Spec => NeverOverAdmits
  <1>1. AdaptiveInv /\ [Next]_vars => (inFlight' > inFlight => inFlight' =< limit')
    <2> SUFFICES ASSUME AdaptiveInv, [Next]_vars, inFlight' > inFlight
                 PROVE  inFlight' =< limit'
      OBVIOUS
    <2> USE DEF AdaptiveInv, TypeOK
    <2>1. ASSUME NEW c \in Callers, Acquire(c) \/ Resume(c)
          PROVE  inFlight' =< limit'
      BY <2>1 DEF Acquire, Resume, TakeOrWait, CanAcquire
    <2>2. CASE SomeRelease
      <3>1. PICK ms \in Latencies, status \in {0, 200, 503}, timedOut \in BOOLEAN :
               Release(ms, status, timedOut)
        BY <2>2, ReleaseOutcome
      <3> QED BY <3>1 DEF Release
    <2>3. CASE Tick \/ UNCHANGED vars
      BY <2>3 DEF Tick, Adjust, SkipAdjust, vars
    <2> QED BY <2>1, <2>2, <2>3 DEF Next
  <1> QED BY <1>1, AlwaysInv, PTL DEF Spec, NeverOverAdmits

-----------------------------------------------------------------------------
(* The refinement                                                          *)

LEMMA StepMeetsContract ==
    ASSUME AdaptiveInv, limit \in Lowest..Highest, [Next]_vars
    PROVE  /\ limit' \in Lowest..Highest
           /\ [Contract!ContractNext]_(Contract!controllerVars)
  <1> USE DEF AdaptiveInv, TypeOK, Contract!controllerVars
  <1>1. ASSUME NEW c \in Callers, Acquire(c) \/ Resume(c)
        PROVE  UNCHANGED limit /\ [Contract!ContractNext]_(Contract!controllerVars)
    <2>1. UNCHANGED limit /\ (Contract!AcquireSlot \/ UNCHANGED Contract!controllerVars)
      BY <1>1 DEF Acquire, Resume, TakeOrWait, CanAcquire, Contract!AcquireSlot, Contract!CanAcquire
    <2> QED BY <2>1 DEF Contract!ContractNext
  <1>2. ASSUME NEW ms \in Latencies, NEW status \in {0, 200, 503},
               NEW timedOut \in BOOLEAN, Release(ms, status, timedOut)
        PROVE  UNCHANGED limit /\ inFlight > 0 /\ Contract!ReleaseSlot(ms, status, timedOut)
    BY <1>2 DEF Release, Contract!ReleaseSlot, Contract!RecordOutcome, Contract!Sampled
  <1>3. ASSUME SomeRelease
        PROVE  UNCHANGED limit /\ Contract!ContractNext
    <2>1. PICK ms \in Latencies, status \in {0, 200, 503}, timedOut \in BOOLEAN :
             Release(ms, status, timedOut)
      BY <1>3, ReleaseOutcome
    <2>2. UNCHANGED limit /\ inFlight > 0 /\ Contract!ReleaseSlot(ms, status, timedOut)
      BY <1>2, <2>1
    <2>3. ms \in Latencies \union {0}
      BY <2>1
    <2>4. \E m \in Latencies \union {0}, st \in {0, 200, 503}, to \in BOOLEAN :
             Contract!ReleaseSlot(m, st, to)
      <3> WITNESS ms \in Latencies \union {0}, status \in {0, 200, 503}, timedOut \in BOOLEAN
      <3> QED BY <2>2
    <2> QED BY <2>2, <2>4 DEF Contract!ContractNext
  <1>4. CASE Adjust
    <2>1. limit' \in Lowest..Highest /\ UNCHANGED <<inFlight, latency>>
      BY <1>4, VerdictType, NewLimitType DEF Adjust
    <2>2. limit' # limit => Contract!ChangeLimit(limit')
      BY <2>1 DEF Contract!ChangeLimit
    <2> QED BY <2>1, <2>2 DEF Contract!ContractNext
  <1>5. CASE SkipAdjust \/ UNCHANGED vars
    BY <1>5 DEF SkipAdjust, vars
  <1> QED BY <1>1, <1>3, <1>4, <1>5 DEF Next, Tick

(* The adaptive controller implements the contract that dispatcher,        *)
(* scheduler and balancer are modelled and proved against, over the range  *)
(* that min_, initial_ and max_concurrency span: wherever it starts, which *)
(* the configuration does not check, _adjust() never leaves that range.    *)
THEOREM AdaptiveMeetsContract == Spec => ImplementsContract
  <1>1. Init => Contract!ControllerInit /\ limit \in Lowest..Highest
    BY RangeSpansLimits DEF Init, Contract!ControllerInit
  <1>2. AdaptiveInv /\ limit \in Lowest..Highest /\ [Next]_vars =>
           /\ (limit \in Lowest..Highest)'
           /\ [Contract!ContractNext]_(Contract!controllerVars)
    BY StepMeetsContract
  <1> QED BY <1>1, <1>2, AlwaysInv, PTL DEF Spec, ImplementsContract, Contract!ContractSpec

-----------------------------------------------------------------------------
(* A scaled limit is smaller, truncation included, unless the minimum      *)
(* stops it.                                                               *)
LEMMA OverloadShrinks ==
    ASSUME limit \in Nat, NEW verdict \in {"timeouts", "errors", "very_slow", "slow"}
    PROVE  \/ NewLimit(verdict) = MinLimit
           \/ MinLimit < NewLimit(verdict) /\ NewLimit(verdict) < limit
  <1>1. MinLimit \in Nat \ {0}
    BY AdaptiveAssumption
  <1>2. NewLimit(verdict) = AtLeast(MinLimit, Scaled(verdict))
    BY DEF NewLimit
  <1>3. Percent[verdict] \in {60, 70, 75, 85}
    BY DEF Percent
  <1>4. Scaled(verdict) \in Nat /\ (limit > 0 => Scaled(verdict) < limit)
        /\ Scaled(verdict) =< limit
    BY <1>3, TruncatedBelow DEF Scaled
  <1>5. CASE Scaled(verdict) > MinLimit
    BY <1>1, <1>2, <1>4, <1>5 DEF AtLeast
  <1>6. CASE Scaled(verdict) =< MinLimit
    <2>1. AtLeast(MinLimit, Scaled(verdict)) = MinLimit
      BY <1>1, <1>4, <1>6 DEF AtLeast
    <2> QED BY <1>2, <2>1
  <1> QED BY <1>1, <1>4, <1>5, <1>6

(* For any limits, windows and thresholds, every tick in overload lowers   *)
(* the limit to the minimum or towards it, or brings the end of the        *)
(* cooldown nearer (_adjust): a fair loop therefore reaches the minimum.   *)
THEOREM OverloadMakesProgress == Spec => OverloadedTicksShrink
  <1> DEFINE Shrinks == Overloaded /\ Tick =>
                \/ limit' = MinLimit
                \/ MinLimit < limit' /\ limit' < limit
                \/ limit' = limit /\ cooldown' < cooldown
  <1>1. ASSUME AdaptiveInv
        PROVE  Shrinks
    <2> SUFFICES ASSUME Overloaded, Tick
                 PROVE  \/ limit' = MinLimit
                        \/ MinLimit < limit' /\ limit' < limit
                        \/ limit' = limit /\ cooldown' < cooldown
      OBVIOUS
    <2>1. limit \in Nat /\ cooldown \in 0..60
      BY <1>1 DEF AdaptiveInv, TypeOK
    <2>2. CASE Adjust
      <3>1. limit' = NewLimit(Verdict) /\ Verdict \in {"timeouts", "errors", "very_slow", "slow"}
        BY <2>2 DEF Adjust, Overloaded
      <3> QED BY <2>1, <3>1, OverloadShrinks
    <2>3. CASE SkipAdjust
      <3>1. CooldownLeft > 0 /\ limit' = limit /\ cooldown' = CooldownLeft
        BY <2>3 DEF SkipAdjust, Overloaded
      <3>2. CooldownLeft < cooldown
        BY <2>1, <3>1, AdaptiveAssumption DEF CooldownLeft, AtLeast
      <3> QED BY <3>1, <3>2
    <2> QED BY <2>2, <2>3 DEF Tick
  <1> QED BY <1>1, AlwaysInv, PTL DEF Spec, OverloadedTicksShrink
=============================================================================
