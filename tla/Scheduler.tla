----------------------------- MODULE Scheduler -----------------------------
(***************************************************************************)
(* PriorityScheduler of app/scheduler.py: the priority queue of one        *)
(* backend, the refusals at its entry, and the single worker that takes a  *)
(* slot first and an entry second.                                         *)
(*                                                                         *)
(* Requests are numbered by arrival_time, the monotonic clock reading that *)
(* breaks ties between equal scores.  It is taken before scoring, which    *)
(* awaits Redis, so requests may be enqueued in another order.             *)
(***************************************************************************)
EXTENDS CapacityController, FiniteSets

CONSTANTS
    Requests,       \* arrival times of the requests considered
    Scores,         \* priorities the score engine may give
    QueueMaxSize,   \* queue_max_size
    QueueTimeout    \* queue_timeout, in the unit of Latencies

ASSUME SchedulerAssumption ==
    /\ Requests \subseteq Nat /\ IsFiniteSet(Requests)
    /\ Scores \subseteq Int
    /\ QueueMaxSize \in Nat \ {0} /\ QueueTimeout \in Nat

VARIABLES
    score,    \* ctx.score of each request
    queue,    \* requests with an entry in _queue
    future,   \* the future enqueue() returned: none, pending, cancelled, done
    worker    \* run_worker: awaiting acquire() or, with a slot, queue.get()

schedulerVars == <<score, queue, future, worker>>

SchedulerTypeOK ==
    /\ score \in [Requests -> Scores]
    /\ queue \in SUBSET Requests
    /\ future \in [Requests -> {"none", "pending", "cancelled", "done"}]
    /\ worker \in {"acquiring", "getting"}

SchedulerInit ==
    /\ score \in [Requests -> Scores]
    /\ queue = {}
    /\ future = [r \in Requests |-> "none"]
    /\ worker = "acquiring"

-----------------------------------------------------------------------------
(* enqueue()                                                               *)

(* projected_wait > timeout, with depth * mean / limit cleared of its      *)
(* divisions.  Without a mean the projection is zero and never refuses.    *)
WaitExceeded ==
    /\ HasMean
    /\ Cardinality(queue) * Total(latency) > QueueTimeout * limit * Len(latency)

QueueFull == Cardinality(queue) >= QueueMaxSize

PutEntry(r) ==
    /\ ~WaitExceeded /\ ~QueueFull
    /\ queue' = queue \union {r}
    /\ future' = [future EXCEPT ![r] = "pending"]
    /\ UNCHANGED <<score, worker>>

-----------------------------------------------------------------------------
(* run_worker().  One iteration runs without a suspension, except that it  *)
(* waits for a slot and then for an entry: WaitForEntry is the case where  *)
(* a slot is taken while the queue is empty.                               *)

(* Mutant: ties go to the latest arrival.                                  *)
BeforeLatest(q, r) == score[q] > score[r] \/ (score[q] = score[r] /\ q > r)

Before(q, r) == score[q] > score[r] \/ (score[q] = score[r] /\ q < r)

(* Mutant: the queue is first in, first out.                               *)
IsFirstByArrival(r) == r \in queue /\ \A q \in queue \ {r} : r < q

IsFirst(r) == r \in queue /\ \A q \in queue \ {r} : Before(r, q)

(* Mutant: the entry is popped before the slot is checked.                 *)
MayTakeEarly == worker = "getting" \/ inFlight =< limit

MayTake == worker = "getting" \/ CanAcquire

(* The slots in use once the worker holds one for the entry it takes.      *)
SlotsTaken == IF worker = "getting" THEN inFlight ELSE inFlight + 1

WaitForEntry ==
    /\ worker = "acquiring" /\ queue = {}
    /\ AcquireSlot
    /\ worker' = "getting"
    /\ UNCHANGED <<score, queue, future>>

TakeEntry(r) ==
    /\ MayTake
    /\ IsFirst(r)
    /\ queue' = queue \ {r}
    /\ worker' = "acquiring"
    /\ UNCHANGED <<score, future>>

(* Mutant: the slot of a discarded entry is not released.                  *)
DiscardEntryKeepsSlot(r) ==
    /\ future[r] = "cancelled"
    /\ TakeEntry(r)
    /\ inFlight' = SlotsTaken
    /\ UNCHANGED <<limit, latency>>

(* The entry's request has given up: its slot is released at once, as an   *)
(* outcome of status 0 and no duration.                                    *)
DiscardEntry(r) ==
    /\ future[r] = "cancelled"
    /\ TakeEntry(r)
    /\ inFlight' = SlotsTaken - 1
    /\ RecordOutcome(0, 0, FALSE)
    /\ UNCHANGED limit

(* The entry's request is live: its dispatch task is created and inherits  *)
(* the slot.                                                               *)
HandOver(r) ==
    /\ future[r] # "cancelled"
    /\ TakeEntry(r)
    /\ inFlight' = SlotsTaken
    /\ UNCHANGED <<limit, latency>>
=============================================================================
