------------------------- MODULE CapacityController -------------------------
(***************************************************************************)
(* The capacity controller of one backend, as its callers see it: the      *)
(* contract of app/interfaces.py CapacityController that both the fixed    *)
(* and the adaptive controller of app/capacity.py implement.  A slot is    *)
(* acquired only below the limit, a release gives it back and may record   *)
(* one latency sample, and the limit may be moved between MinLimit and     *)
(* MaxLimit (a FixedController has MinLimit = MaxLimit).                    *)
(*                                                                         *)
(* Every request costs one slot (decision log A3).  asyncio runs each of   *)
(* these critical sections without a suspension, so each is one step.      *)
(*                                                                         *)
(* The module holds state and operations only; Backend and                 *)
(* AdaptiveController say who performs them and when.                      *)
(***************************************************************************)
EXTENDS Integers, Sequences
LOCAL INSTANCE Functions

CONSTANTS
    MinLimit, MaxLimit,   \* the range the concurrency limit moves in
    WindowSize,           \* LatencyWindow maxlen (100 in the code)
    MinSamples,           \* _MIN_SAMPLES (10 in the code)
    Latencies             \* the backend response times that are distinguished

ASSUME ControllerAssumption ==
    /\ MinLimit \in Nat \ {0} /\ MaxLimit \in Nat /\ MinLimit =< MaxLimit
    /\ WindowSize \in Nat \ {0} /\ MinSamples \in Nat \ {0}
    /\ Latencies \subseteq Nat

VARIABLES
    limit,      \* _limit
    inFlight,   \* _in_flight
    latency     \* LatencyWindow._samples, oldest first

controllerVars == <<limit, inFlight, latency>>

ControllerTypeOK ==
    /\ limit \in MinLimit..MaxLimit
    /\ inFlight \in Int
    /\ latency \in Seq(Nat)

ControllerInit ==
    /\ limit \in MinLimit..MaxLimit
    /\ inFlight = 0
    /\ latency = <<>>

-----------------------------------------------------------------------------
(* deque(maxlen = WindowSize).append                                       *)
Record(window, sample) ==
    IF Len(window) < WindowSize THEN Append(window, sample)
                                ELSE Append(Tail(window), sample)

(* LatencyWindow.mean, kept as a fraction: the window has a mean once it    *)
(* holds MinSamples samples, and it is Total(latency) / Len(latency).      *)
HasMean == Len(latency) >= MinSamples
Total(window) == FoldFunction(+, 0, window)

(* The predicate acquire() waits for.                                      *)
CanAcquire == inFlight + 1 =< limit

(* release(): does the finished request leave a latency sample?  Failures  *)
(* to connect or to read, and discarded queue entries, report status 0.    *)
Sampled(status, timedOut) == ~timedOut /\ status < 500

RecordOutcome(ms, status, timedOut) ==
    latency' = IF Sampled(status, timedOut) THEN Record(latency, ms) ELSE latency

AcquireSlot ==
    /\ CanAcquire
    /\ inFlight' = inFlight + 1
    /\ UNCHANGED <<limit, latency>>

(* Mutant: a timed-out dispatch keeps its slot.                            *)
ReleaseSlotUnlessTimedOut(ms, status, timedOut) ==
    /\ inFlight' = IF timedOut THEN inFlight ELSE inFlight - 1
    /\ RecordOutcome(ms, status, timedOut)
    /\ UNCHANGED limit

ReleaseSlot(ms, status, timedOut) ==
    /\ inFlight' = inFlight - 1
    /\ RecordOutcome(ms, status, timedOut)
    /\ UNCHANGED limit

(* AdaptiveController._adjust as the rest of the backend sees it.          *)
ChangeLimit(l) ==
    /\ l # limit
    /\ limit' = l
    /\ UNCHANGED <<inFlight, latency>>

(* The contract as a specification of its own.                             *)
ContractNext ==
    \/ AcquireSlot
    \/ /\ inFlight > 0
       /\ \E ms \in Latencies \union {0}, status \in {0, 200, 503}, timedOut \in BOOLEAN :
             ReleaseSlot(ms, status, timedOut)
    \/ \E l \in MinLimit..MaxLimit : ChangeLimit(l)

ContractSpec == ControllerInit /\ [][ContractNext]_controllerVars
=============================================================================
