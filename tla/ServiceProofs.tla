--------------------------- MODULE ServiceProofs ---------------------------
(***************************************************************************)
(* The refinement: Backend implements PriorityService, for any number of   *)
(* requests, instances and clients, any limits and any queue parameters.   *)
(* The invariants of BackendProofs say which backend states a service      *)
(* status stands for; a step of the backend then moves the status of one   *)
(* request or of none.                                                     *)
(***************************************************************************)
EXTENDS BackendProofs

Status == [r \in Requests |-> StatusOf(r)]

-----------------------------------------------------------------------------
(* What else the statuses rest on: a result means the exit path has run,   *)
(* and a pending future that its handler still waits for it.               *)

FutureTold ==
    /\ \A r \in Requests : future[r] = "done" => task[r] \in {"closing", "finished"}
    /\ \A r \in Requests : future[r] = "pending" => handler[r] = "waiting"

ServiceInv == SlotInv /\ AdmissionBound /\ FutureTold

LEMMA StepKeepsFutureTold ==
    ASSUME SlotInv, FutureTold, [Next]_vars
    PROVE  FutureTold'
  <1> USE DEF SlotInv, Typed, TypeOK, SchedulerTypeOK, Lifecycle, FutureTold
  <1>1. ASSUME NEW r \in Requests, HandlerStep(r)
        PROVE  FutureTold'
    <2>1. CASE Admit(r)
      BY <2>1 DEF Admit, Moves, PutEntry
    <2>2. CASE Refuse(r)
      BY <2>2 DEF Refuse, Moves, schedulerVars
    <2>3. CASE QueueTimer(r)
      BY <2>3 DEF QueueTimer, Moves, CancelIfPending
    <2>4. CASE Respond(r)
      BY <2>4 DEF Respond, Moves, schedulerVars
    <2>5. CASE StreamEnds(r)
      BY <2>5 DEF StreamEnds, schedulerVars
    <2> QED BY <1>1, <2>1, <2>2, <2>3, <2>4, <2>5 DEF HandlerStep
  <1>2. ASSUME NEW r \in Requests, DispatchStep(r)
        PROVE  FutureTold'
    <2>1. ASSUME NEW v \in {"closing", "finished"}, task' = [task EXCEPT ![r] = v],
                 NEW failed, NEW ms, NEW status, NEW timedOut,
                 Settle(r, failed, ms, status, timedOut)
          PROVE  FutureTold'
      BY <2>1 DEF Settle, Resolved
    <2>2. CASE HeadersArrive(r)
      BY <2>1, <2>2 DEF HeadersArrive
    <2>3. ASSUME NEW failed, NEW timedOut, Fails(r, failed, timedOut)
          PROVE  FutureTold'
      BY <2>1, <2>3 DEF Fails
    <2>4. CASE StartSend(r) \/ BodySent(r) \/ Raise(r) \/ CloseDone(r)
      BY <2>4 DEF StartSend, BodySent, Raise, CloseDone, schedulerVars
    <2> QED BY <1>2, <2>2, <2>3, <2>4
            DEF DispatchStep, SendEnds, ConnectFails, BackendTimesOut, SendBreaks
  <1>3. CASE WorkerStep
    <2>1. CASE WorkerWaits
      BY <2>1 DEF WorkerWaits, WaitForEntry
    <2>2. ASSUME NEW r \in Requests, WorkerDiscards(r)
          PROVE  FutureTold'
      BY <2>2 DEF WorkerDiscards, DiscardEntry, TakeEntry
    <2>3. ASSUME NEW r \in Requests, WorkerDispatches(r)
          PROVE  FutureTold'
      BY <2>3 DEF WorkerDispatches, HandOver, TakeEntry, IsFirst, QueuedNotDispatched
    <2> QED BY <1>3, <2>1, <2>2, <2>3 DEF WorkerStep
  <1>4. CASE LimitMoves \/ BalancerTicks \/ UNCHANGED vars
    BY <1>4 DEF LimitMoves, BalancerTicks, vars, schedulerVars
  <1> QED BY <1>1, <1>2, <1>3, <1>4 DEF Next

LEMMA AlwaysServiceInv == Spec => []ServiceInv
  <1>1. Init => FutureTold
    BY DEF Init, SchedulerInit, FutureTold
  <1> QED BY <1>1, StepKeepsFutureTold, AlwaysSlotInv, AdmissionBounded, PTL
          DEF Spec, ServiceInv

-----------------------------------------------------------------------------
(* Open responses                                                          *)

LEMMA OthersKeepOwners ==
    ASSUME NEW r, NEW q \in Requests \ {r}, ~Unowned(q),
           handler'[q] = handler[q], task'[q] = task[q],
           future'[q] = future[q], upstream'[q] = upstream[q]
    PROVE  ~Unowned(q)'
  BY DEF Unowned

(* Headers that arrive for a pending future find its handler waiting; the  *)
(* response of a cancelled one is the task's own to close.                 *)
LEMMA ArrivalIsOwned ==
    ASSUME ServiceInv, NEW r \in Requests, HeadersArrive(r), NEW q \in Requests, ~Unowned(q)
    PROVE  ~Unowned(q)'
  <1> USE DEF ServiceInv, SlotInv, Typed, TypeOK, SchedulerTypeOK
  <1>1. /\ task[r] = "awaiting" /\ UNCHANGED handler
        /\ future' = [future EXCEPT ![r] = Resolved(@)]
        /\ upstream' = [upstream EXCEPT ![r] = "open"]
        /\ task' = [task EXCEPT ![r] =
                       IF future[r] = "cancelled" THEN "closing" ELSE "finished"]
    BY DEF HeadersArrive, Settle
  <1>2. CASE q = r
    <2>1. CASE future[r] = "cancelled"
      BY <1>1, <1>2, <2>1 DEF Unowned
    <2>2. CASE future[r] # "cancelled"
      <3>1. future[r] = "pending" /\ handler[r] = "waiting"
        BY <1>1, <2>2 DEF FutureTold, Lifecycle
      <3>2. future'[r] = "done" /\ handler'[r] = "waiting"
        BY <1>1, <3>1 DEF Resolved
      <3> QED BY <1>2, <3>2 DEF Unowned
    <2> QED BY <2>1, <2>2
  <1>3. CASE q # r
    BY <1>1, <1>3, OthersKeepOwners
  <1> QED BY <1>2, <1>3

LEMMA HandlerKeepsOwners ==
    ASSUME ServiceInv, NEW r \in Requests, HandlerStep(r), NEW q \in Requests, ~Unowned(q),
           ~(QueueTimer(q) /\ future[q] = "done")
    PROVE  ~Unowned(q)'
  <1> USE DEF ServiceInv, SlotInv, Typed, TypeOK, SchedulerTypeOK, Unowned
  <1>1. CASE Admit(r)
    BY <1>1 DEF Admit, Moves, PutEntry, Lifecycle
  <1>2. CASE Refuse(r)
    BY <1>2 DEF Refuse, Moves, schedulerVars, Lifecycle
  <1>3. CASE QueueTimer(r)
    BY <1>3 DEF QueueTimer, Moves, CancelIfPending, Lifecycle
  <1>4. CASE Respond(r)
    BY <1>4 DEF Respond, Moves, schedulerVars
  <1>5. CASE StreamEnds(r)
    BY <1>5 DEF StreamEnds, schedulerVars
  <1> QED BY <1>1, <1>2, <1>3, <1>4, <1>5 DEF HandlerStep

LEMMA DispatchKeepsOwners ==
    ASSUME ServiceInv, NEW r \in Requests, DispatchStep(r), NEW q \in Requests, ~Unowned(q)
    PROVE  ~Unowned(q)'
  <1> USE DEF ServiceInv, SlotInv, Typed, TypeOK, SchedulerTypeOK
  <1>1. ASSUME NEW failed, NEW timedOut, Fails(r, failed, timedOut)
        PROVE  ~Unowned(q)'
    BY <1>1 DEF Fails, Settle, Resolved, InSend, Unowned
  <1>2. CASE StartSend(r) \/ BodySent(r) \/ Raise(r)
    BY <1>2 DEF StartSend, BodySent, Raise, schedulerVars, Unowned
  <1>3. CASE CloseDone(r)
    BY <1>3 DEF CloseDone, schedulerVars, Unowned
  <1> QED BY <1>1, <1>2, <1>3, ArrivalIsOwned
          DEF DispatchStep, SendEnds, ConnectFails, BackendTimesOut, SendBreaks

LEMMA OthersKeepAllOwners ==
    ASSUME ServiceInv, WorkerStep \/ LimitMoves \/ BalancerTicks \/ UNCHANGED vars,
           NEW q \in Requests, ~Unowned(q)
    PROVE  ~Unowned(q)'
  <1>1. CASE WorkerStep
    <2>1. UNCHANGED <<handler, upstream, future>>
      BY <1>1 DEF WorkerStep, WorkerWaits, WorkerDiscards, WorkerDispatches, WaitForEntry,
                  DiscardEntry, HandOver, TakeEntry
    <2>2. task[q] = "closing" => task'[q] = "closing"
      BY <1>1 DEF WorkerStep, WorkerWaits, WorkerDiscards, WorkerDispatches, HandOver,
                  TakeEntry, IsFirst, ServiceInv, SlotInv, Lifecycle, QueuedNotDispatched,
                  Typed, TypeOK
    <2> QED BY <2>1, <2>2 DEF Unowned
  <1>2. CASE LimitMoves \/ BalancerTicks \/ UNCHANGED vars
    BY <1>2 DEF LimitMoves, BalancerTicks, vars, schedulerVars, Unowned
  <1> QED BY <1>1, <1>2

(* For any requests and limits, the only way a response is left open with  *)
(* nobody to close it is a queue timer that fires on a future that has its *)
(* result already: the gap in proxy_handler, and there is no other.        *)
THEOREM LeaksComeFromLateTimers == Spec => OnlyLateTimersLeak
  <1> DEFINE Kept == \A r \in Requests : ~Unowned(r) /\ Unowned(r)'
                        => QueueTimer(r) /\ future[r] = "done"
  <1>1. ServiceInv /\ [Next]_vars => Kept
    <2> SUFFICES ASSUME ServiceInv, [Next]_vars, NEW q \in Requests, ~Unowned(q),
                        ~(QueueTimer(q) /\ future[q] = "done")
                 PROVE  ~Unowned(q)'
      OBVIOUS
    <2> QED BY HandlerKeepsOwners, DispatchKeepsOwners, OthersKeepAllOwners DEF Next
  <1> QED BY <1>1, AlwaysServiceInv, PTL DEF Spec, OnlyLateTimersLeak

-----------------------------------------------------------------------------
(* Responses nobody will read                                              *)

(* A future that has no result yet has no response behind it either, and   *)
(* no dispatch on its way to close one.                                    *)
UnresolvedIsUnread ==
    \A r \in Requests :
       future[r] \in {"none", "pending"} => upstream[r] = "none" /\ task[r] # "closing"

ClosingInv == CancelledIsClosing /\ UnresolvedIsUnread

LEMMA StepKeepsClosing ==
    ASSUME SlotInv, ClosingInv, [Next]_vars
    PROVE  ClosingInv'
  <1> USE DEF SlotInv, Typed, TypeOK, SchedulerTypeOK, ClosingInv, CancelledIsClosing,
              UnresolvedIsUnread
  <1>1. ASSUME NEW r \in Requests, HandlerStep(r)
        PROVE  ClosingInv'
    <2>1. CASE Admit(r)
      BY <2>1 DEF Admit, Moves, PutEntry, Lifecycle
    <2>2. CASE Refuse(r)
      BY <2>2 DEF Refuse, schedulerVars
    <2>3. CASE QueueTimer(r)
      BY <2>3 DEF QueueTimer, CancelIfPending
    <2>4. CASE Respond(r)
      BY <2>4 DEF Respond, schedulerVars
    <2>5. CASE StreamEnds(r)
      BY <2>5 DEF StreamEnds, schedulerVars
    <2> QED BY <1>1, <2>1, <2>2, <2>3, <2>4, <2>5 DEF HandlerStep
  <1>2. ASSUME NEW r \in Requests, DispatchStep(r)
        PROVE  ClosingInv'
    <2>1. CASE HeadersArrive(r)
      BY <2>1 DEF HeadersArrive, Settle, Resolved
    <2>2. ASSUME NEW failed, NEW timedOut, Fails(r, failed, timedOut)
          PROVE  ClosingInv'
      BY <2>2 DEF Fails, Settle, Resolved, InSend
    <2>3. CASE StartSend(r) \/ BodySent(r) \/ Raise(r)
      BY <2>3 DEF StartSend, BodySent, Raise, schedulerVars
    <2>4. CASE CloseDone(r)
      BY <2>4 DEF CloseDone, schedulerVars
    <2> QED BY <1>2, <2>1, <2>2, <2>3, <2>4
            DEF DispatchStep, SendEnds, ConnectFails, BackendTimesOut, SendBreaks
  <1>3. CASE WorkerStep
    <2>1. UNCHANGED <<future, upstream>>
      BY <1>3 DEF WorkerStep, WorkerWaits, WorkerDiscards, WorkerDispatches, WaitForEntry,
                  DiscardEntry, HandOver, TakeEntry
    <2>2. UNCHANGED task \/ \E r \in Requests : /\ future[r] # "cancelled"
                                               /\ task' = [task EXCEPT ![r] = "created"]
      BY <1>3 DEF WorkerStep, WorkerWaits, WorkerDiscards, WorkerDispatches, HandOver
    <2> QED BY <2>1, <2>2
  <1>4. CASE LimitMoves \/ BalancerTicks \/ UNCHANGED vars
    BY <1>4 DEF LimitMoves, BalancerTicks, vars, schedulerVars
  <1> QED BY <1>1, <1>2, <1>3, <1>4 DEF Next

(* For any requests and limits, the response that comes for a request that *)
(* has given up during its dispatch stays with the dispatch task until it  *)
(* is closed: dispatch_queued looks at the future as it sets its result,   *)
(* and nothing suspends in between.                                        *)
THEOREM GivenUpResponsesAreClosing == Spec => []CancelledIsClosing
  <1>1. Init => ClosingInv
    BY DEF Init, SchedulerInit, ClosingInv, CancelledIsClosing, UnresolvedIsUnread
  <1> QED BY <1>1, StepKeepsClosing, AlwaysSlotInv, PTL DEF Spec, ClosingInv

-----------------------------------------------------------------------------
(* How the statuses follow handlers and tasks.                             *)

(* The abstract module counts with the same operator.                      *)
LEMMA SameCardinality ==
    ASSUME NEW S
    PROVE  Service!Cardinality(S) = Cardinality(S)
  BY DEF Service!Cardinality, Cardinality

LEMMA NoStatusMoves ==
    ASSUME \A q \in Requests : StatusOf(q)' = StatusOf(q), UNCHANGED score
    PROVE  UNCHANGED <<score, Status>>
  BY DEF Status

LEMMA OneStatusMoves ==
    ASSUME NEW r \in Requests, NEW from, NEW to, from # to,
           \A q \in Requests \ {r} : StatusOf(q)' = StatusOf(q),
           StatusOf(r) = from, StatusOf(r)' = to, UNCHANGED score
    PROVE  Service!Becomes(r, from, to) /\ Status'[r] # Status[r]
  <1>1. Status[r] = from /\ Status'[r] = to
    BY DEF Status
  <1>2. Status' = [Status EXCEPT ![r] = to]
    <2>1. Status' = [q \in Requests |-> IF q = r THEN to ELSE Status[q]]
      BY DEF Status
    <2> QED BY <2>1 DEF Status
  <1>3. Service!Becomes(r, from, to)
    BY <1>1, <1>2 DEF Status, Service!Becomes
  <1> QED BY <1>1, <1>3

(* A step of r alone leaves the status of every other request.             *)
LEMMA OthersKeepStatus ==
    ASSUME NEW r, NEW q \in Requests \ {r},
           handler'[q] = handler[q], task'[q] = task[q]
    PROVE  StatusOf(q)' = StatusOf(q)
  BY DEF StatusOf

(* The steps of r that move its status follow the service.                 *)
LEMMA StatusFollows ==
    ASSUME NEW r \in Requests, UNCHANGED score,
           \A q \in Requests \ {r} : StatusOf(q)' = StatusOf(q),
           \/ StatusOf(r)' = StatusOf(r)
           \/ StatusOf(r) = "new" /\ StatusOf(r)' \in {"waiting", "refused"}
           \/ StatusOf(r) = "waiting" /\ StatusOf(r)' = "gave_up"
           \/ StatusOf(r) = "in_service" /\ StatusOf(r)' \in {"abandoned", "ready"}
           \/ StatusOf(r) = "abandoned" /\ StatusOf(r)' = "missed"
           \/ StatusOf(r) = "ready" /\ StatusOf(r)' \in {"answered", "missed"}
    PROVE  [Service!ServiceNext]_<<score, Status>>
  <1>1. CASE StatusOf(r)' = StatusOf(r)
    BY <1>1, NoStatusMoves
  <1>2. ASSUME NEW from, NEW to, from # to, StatusOf(r) = from, StatusOf(r)' = to,
               Service!Becomes(r, from, to) => Service!ServiceStep(r)
        PROVE  Service!ServiceNext
    BY <1>2, OneStatusMoves DEF Status, Service!ServiceNext
  <1>3. CASE StatusOf(r) = "new" /\ StatusOf(r)' \in {"waiting", "refused"}
    BY <1>2, <1>3 DEF Service!ServiceStep, Service!Accept, Service!TurnAway
  <1>4. CASE StatusOf(r) = "waiting" /\ StatusOf(r)' = "gave_up"
    BY <1>2, <1>4 DEF Service!ServiceStep, Service!GiveUp
  <1>5. CASE StatusOf(r) = "in_service" /\ StatusOf(r)' \in {"abandoned", "ready"}
    BY <1>2, <1>5 DEF Service!ServiceStep, Service!Abandon, Service!Complete
  <1>6. CASE StatusOf(r) = "abandoned" /\ StatusOf(r)' = "missed"
    BY <1>2, <1>6 DEF Service!ServiceStep, Service!Complete
  <1>7. CASE StatusOf(r) = "ready" /\ StatusOf(r)' \in {"answered", "missed"}
    BY <1>2, <1>7 DEF Service!ServiceStep, Service!Deliver
  <1> QED BY <1>1, <1>3, <1>4, <1>5, <1>6, <1>7

-----------------------------------------------------------------------------
(* Step by step                                                            *)

LEMMA HandlerStepServes ==
    ASSUME ServiceInv, NEW r \in Requests, HandlerStep(r)
    PROVE  [Service!ServiceNext]_<<score, Status>>
  <1>1. UNCHANGED <<score, task>>
    BY DEF HandlerStep, Admit, PutEntry, Refuse, QueueTimer, Respond, StreamEnds,
           schedulerVars
  <1>2. \A q \in Requests \ {r} : handler'[q] = handler[q]
    BY DEF ServiceInv, SlotInv, Typed, TypeOK, HandlerStep, Admit, Refuse, QueueTimer, Respond, StreamEnds, Moves
  <1>3. \A q \in Requests \ {r} : StatusOf(q)' = StatusOf(q)
    BY <1>1, <1>2, OthersKeepStatus
  <1> USE DEF ServiceInv, SlotInv, Typed, TypeOK, Lifecycle, FutureTold
  <1>4. CASE Admit(r)
    <2>1. StatusOf(r) = "new" /\ StatusOf(r)' = "waiting"
      BY <1>1, <1>4 DEF Admit, Moves, StatusOf
    <2> QED BY <1>1, <1>3, <2>1, StatusFollows
  <1>5. CASE Refuse(r)
    <2>1. StatusOf(r) = "new" /\ StatusOf(r)' = "refused"
      BY <1>5 DEF Refuse, Moves, StatusOf
    <2> QED BY <1>1, <1>3, <2>1, StatusFollows
  <1>6. CASE QueueTimer(r)
    <2>1. \/ StatusOf(r) = "waiting" /\ StatusOf(r)' = "gave_up"
          \/ StatusOf(r) = "in_service" /\ StatusOf(r)' = "abandoned"
          \/ StatusOf(r) = "ready" /\ StatusOf(r)' = "missed"
      BY <1>1, <1>6 DEF QueueTimer, Moves, StatusOf
    <2> QED BY <1>1, <1>3, <2>1, StatusFollows
  <1>7. CASE Respond(r)
    <2>1. StatusOf(r) = "ready" /\ StatusOf(r)' = "answered"
      BY <1>1, <1>7 DEF Respond, Moves, StatusOf, HasSlot
    <2> QED BY <1>1, <1>3, <2>1, StatusFollows
  <1>8. CASE StreamEnds(r)
    <2>1. StatusOf(r)' = StatusOf(r)
      BY <1>1, <1>8 DEF StreamEnds, StatusOf
    <2> QED BY <1>1, <1>3, <2>1, StatusFollows
  <1> QED BY <1>4, <1>5, <1>6, <1>7, <1>8 DEF HandlerStep

(* A dispatch that gives back its slot completes the service; its other    *)
(* steps are not seen.                                                     *)
LEMMA DispatchStepServes ==
    ASSUME ServiceInv, NEW r \in Requests, DispatchStep(r)
    PROVE  [Service!ServiceNext]_<<score, Status>>
  <1> USE DEF ServiceInv, SlotInv, Typed, TypeOK
  <1>1. UNCHANGED <<score, handler>>
    BY DEF DispatchStep, StartSend, BodySent, SendEnds, HeadersArrive, ConnectFails,
           BackendTimesOut, SendBreaks, Fails, Settle, Raise, CloseDone, schedulerVars
  <1>2. \A q \in Requests \ {r} : task'[q] = task[q]
    BY DEF DispatchStep, StartSend, BodySent, SendEnds, HeadersArrive, ConnectFails,
           BackendTimesOut, SendBreaks, Fails, Raise, CloseDone
  <1>3. \A q \in Requests \ {r} : StatusOf(q)' = StatusOf(q)
    BY <1>1, <1>2, OthersKeepStatus
  <1>4. CASE task[r] \in HasSlot /\ task'[r] \in {"closing", "finished"}
    <2>1. \/ StatusOf(r)' = StatusOf(r)
          \/ StatusOf(r) = "in_service" /\ StatusOf(r)' = "ready"
          \/ StatusOf(r) = "abandoned" /\ StatusOf(r)' = "missed"
      BY <1>1, <1>4 DEF StatusOf, HasSlot
    <2> QED BY <1>1, <1>3, <2>1, StatusFollows
  <1>5. CASE /\ task[r] # "none" /\ task'[r] # "none"
             /\ task'[r] \in HasSlot <=> task[r] \in HasSlot
    <2>1. StatusOf(r)' = StatusOf(r)
      BY <1>1, <1>5 DEF StatusOf, HasSlot
    <2> QED BY <1>1, <1>3, <2>1, StatusFollows
  <1>6. CASE HeadersArrive(r)
    BY <1>4, <1>6 DEF HeadersArrive, HasSlot
  <1>7. ASSUME NEW failed, NEW timedOut, Fails(r, failed, timedOut)
        PROVE  [Service!ServiceNext]_<<score, Status>>
    BY <1>4, <1>7 DEF Fails, Settle, InSend, HasSlot
  <1>8. CASE StartSend(r) \/ BodySent(r) \/ Raise(r) \/ CloseDone(r)
    BY <1>5, <1>8 DEF StartSend, BodySent, Raise, CloseDone, HasSlot
  <1> QED BY <1>6, <1>7, <1>8
          DEF DispatchStep, SendEnds, ConnectFails, BackendTimesOut, SendBreaks

(* The worker serves the best waiting request, below the capacity; an      *)
(* entry it discards is not seen.                                          *)
LEMMA WorkerStepServes ==
    ASSUME ServiceInv, AdmissionBound', SlotAccounting', WorkerStep
    PROVE  [Service!ServiceNext]_<<score, Status>>
  <1> USE DEF ServiceInv, SlotInv, Typed, TypeOK
  <1>1. ASSUME UNCHANGED <<score, handler, task>>
        PROVE  [Service!ServiceNext]_<<score, Status>>
    BY <1>1, NoStatusMoves DEF StatusOf
  <1>2. ASSUME NEW r \in Requests, WorkerDispatches(r)
        PROVE  [Service!ServiceNext]_<<score, Status>>
    <2>1. UNCHANGED <<score, handler>> /\ task[r] = "none" /\ handler[r] = "waiting"
      BY <1>2 DEF WorkerDispatches, HandOver, TakeEntry, IsFirst, Lifecycle,
                  QueuedNotDispatched, FutureTold, SchedulerTypeOK
    <2>2. task' = [task EXCEPT ![r] = "created"]
      BY <1>2 DEF WorkerDispatches
    <2>3. \A q \in Requests \ {r} : StatusOf(q)' = StatusOf(q)
      BY <2>1, <2>2, OthersKeepStatus
    <2>4. StatusOf(r) = "waiting" /\ StatusOf(r)' = "in_service"
      BY <2>1, <2>2 DEF StatusOf, HasSlot
    <2>5. Service!Becomes(r, "waiting", "in_service") /\ Status'[r] # Status[r]
      BY <2>1, <2>3, <2>4, OneStatusMoves
    <2>6. Cardinality(Service!InService) < MaxLimit
      <3>1. Service!InService \subseteq Holders
        BY DEF Service!InService, Status, StatusOf, Holders
      <3>2. Cardinality(Service!InService) =< Cardinality(Holders)
            /\ Cardinality(Service!InService) \in Nat
        BY <3>1, HoldersFinite, FS_Subset, FS_CardinalityType
      <3>3. Cardinality(Holders') = Cardinality(Holders) + 1
        BY <2>1, <2>2, HolderJoins DEF HasSlot
      <3>4. Cardinality(Holders') =< MaxLimit
        <4>1. WorkerSlots' = 0
          BY <1>2 DEF WorkerDispatches, HandOver, TakeEntry, WorkerSlots
        <4>2. inFlight' = Cardinality(Holders') + WorkerSlots'
          BY DEF SlotAccounting
        <4> QED BY <4>1, <4>2, <3>3, HoldersFinite DEF AdmissionBound
      <3> QED BY <3>2, <3>3, <3>4, HoldersFinite, ControllerAssumption
    <2>7. ASSUME NEW q \in Requests \ {r}, Status[q] = "waiting"
          PROVE  Service!ComesBefore(r, q)
      <3>1. handler[q] = "waiting" /\ task[q] = "none"
        BY <2>7 DEF Status, StatusOf
      <3>2. Before(r, q)
        BY <1>2, <3>1 DEF Lifecycle, WorkerDispatches, HandOver, TakeEntry, IsFirst
      <3> QED BY <3>2 DEF Before, Service!ComesBefore
    <2>8. Service!Serve(r)
      BY <2>5, <2>6, <2>7, SameCardinality DEF Service!Serve, Status
    <2> QED BY <2>5, <2>8 DEF Service!ServiceNext, Service!ServiceStep, Status
  <1>3. CASE WorkerWaits
    BY <1>1, <1>3 DEF WorkerWaits, WaitForEntry
  <1>4. ASSUME NEW r \in Requests, WorkerDiscards(r)
        PROVE  [Service!ServiceNext]_<<score, Status>>
    BY <1>1, <1>4 DEF WorkerDiscards, DiscardEntry, TakeEntry
  <1> QED BY <1>2, <1>3, <1>4 DEF WorkerStep

LEMMA StepServes ==
    ASSUME ServiceInv, ServiceInv', [Next]_vars
    PROVE  [Service!ServiceNext]_<<score, Status>>
  <1>1. ASSUME LimitMoves \/ BalancerTicks \/ UNCHANGED vars
        PROVE  [Service!ServiceNext]_<<score, Status>>
    <2>1. UNCHANGED <<score, handler, task>>
      BY <1>1 DEF LimitMoves, BalancerTicks, vars, schedulerVars
    <2> QED BY <2>1, NoStatusMoves DEF StatusOf
  <1> QED BY <1>1, HandlerStepServes, DispatchStepServes, WorkerStepServes
          DEF Next, ServiceInv, SlotInv

LEMMA InitServes == Init => Service!ServiceInit
  <1> SUFFICES ASSUME Init PROVE Service!ServiceInit
    OBVIOUS
  <1>1. score \in [Requests -> Int]
    BY SchedulerAssumption DEF Init, SchedulerInit
  <1>2. \A r \in Requests : StatusOf(r) = "new"
    BY DEF Init, StatusOf
  <1> QED BY <1>1, <1>2 DEF Service!ServiceInit

(* Seen from its requests the backend is the priority service: whatever    *)
(* queue, worker, balancer, controller and give-ups do, a request only     *)
(* meets what PriorityService allows, in its order and within its bound.   *)
THEOREM BackendIsService == Spec => ImplementsService
  <1>1. ServiceInv /\ ServiceInv' /\ [Next]_vars => [Service!ServiceNext]_<<score, Status>>
    BY StepServes
  <1> QED BY <1>1, InitServes, AlwaysServiceInv, PTL
          DEF Spec, ImplementsService, Service!ServiceSpec, Status
=============================================================================
