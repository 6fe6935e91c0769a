--------------------------- MODULE BackendProofs ---------------------------
(***************************************************************************)
(* Theorems about Backend, for any number of requests, instances and       *)
(* clients, any limits and any queue parameters.                           *)
(***************************************************************************)
EXTENDS Backend, LoadBalancerProofs

-----------------------------------------------------------------------------
(* The operations of the components preserve the components' types.        *)

LEMMA RecordKeepsType ==
    ASSUME NEW w \in Seq(Nat), NEW x \in Nat
    PROVE  Record(w, x) \in Seq(Nat)
  <1>1. CASE Len(w) < WindowSize
    BY <1>1 DEF Record
  <1>2. CASE ~(Len(w) < WindowSize)
    <2>1. w # <<>>
      BY <1>2, ControllerAssumption
    <2>2. Tail(w) \in Seq(Nat)
      BY <2>1
    <2> QED BY <1>2, <2>2 DEF Record
  <1> QED BY <1>1, <1>2

LEMMA ReleaseSlotKeepsType ==
    ASSUME ControllerTypeOK, NEW ms \in Nat, NEW status, NEW timedOut,
           ReleaseSlot(ms, status, timedOut)
    PROVE  ControllerTypeOK'
  <1>1. Record(latency, ms) \in Seq(Nat)
    BY RecordKeepsType DEF ControllerTypeOK
  <1>2. latency' \in Seq(Nat)
    BY <1>1 DEF ReleaseSlot, RecordOutcome, ControllerTypeOK
  <1> QED BY <1>2 DEF ReleaseSlot, ControllerTypeOK

LEMMA BalancerTicksKeepType ==
    ASSUME LBTypeOK, BalancerTicks
    PROVE  LBTypeOK'
  BY HealthTickKeepsType, ProbeKeepsType, PinExpiresKeepsType DEF BalancerTicks

-----------------------------------------------------------------------------
(* Every outcome of a dispatch keeps the types of all it touches.          *)
LEMMA SettleKeepsType ==
    ASSUME TypeOK, NEW r \in Requests, instance[r] \in Instances,
           NEW failed \in BOOLEAN, NEW ms \in Latencies, NEW status, NEW timedOut,
           Settle(r, failed, ms, status, timedOut)
    PROVE  /\ ControllerTypeOK' /\ SchedulerTypeOK' /\ LBTypeOK'
           /\ instance' \in [Requests -> Instances \union {NoInstance}]
           /\ UNCHANGED <<client, handler>>
  <1>1. ms \in Nat
    BY ControllerAssumption
  <1>2. ControllerTypeOK'
    BY <1>1, ReleaseSlotKeepsType DEF TypeOK, Settle
  <1>3. LBTypeOK'
    BY ReleaseInstanceKeepsType DEF TypeOK, Settle
  <1>4. SchedulerTypeOK'
    BY DEF TypeOK, SchedulerTypeOK, Settle, Resolved
  <1> QED BY <1>2, <1>3, <1>4 DEF TypeOK, Settle

(* A task inside send() has selected an instance and not released it.      *)
SendersHaveInstance == \A r \in Requests : task[r] \in InSend => instance[r] \in Instances

Typed == TypeOK /\ SendersHaveInstance

LEMMA HandlerStepKeepsTyped ==
    ASSUME Typed, NEW r \in Requests, HandlerStep(r)
    PROVE  Typed'
  <1> USE DEF Typed
  <1>1. CASE Admit(r)
    BY <1>1 DEF Admit, Moves, PutEntry, TypeOK, SchedulerTypeOK, ControllerTypeOK,
                LBTypeOK, controllerVars, lbVars, SendersHaveInstance, Instances
  <1>2. CASE Refuse(r)
    BY <1>2 DEF Refuse, Moves, TypeOK, SchedulerTypeOK, ControllerTypeOK, LBTypeOK,
                controllerVars, lbVars, schedulerVars, SendersHaveInstance, Instances
  <1>3. CASE QueueTimer(r)
    BY <1>3 DEF QueueTimer, Moves, CancelIfPending, TypeOK, SchedulerTypeOK,
                ControllerTypeOK, LBTypeOK, controllerVars, lbVars,
                SendersHaveInstance, Instances
  <1>4. CASE Respond(r)
    BY <1>4 DEF Respond, Moves, TypeOK, SchedulerTypeOK, ControllerTypeOK, LBTypeOK,
                controllerVars, lbVars, schedulerVars, SendersHaveInstance, Instances
  <1>5. CASE StreamEnds(r)
    BY <1>5 DEF StreamEnds, TypeOK, SchedulerTypeOK, ControllerTypeOK, LBTypeOK,
                controllerVars, lbVars, schedulerVars, SendersHaveInstance, Instances
  <1> QED BY <1>1, <1>2, <1>3, <1>4, <1>5 DEF HandlerStep

LEMMA DispatchStepKeepsTyped ==
    ASSUME Typed, NEW r \in Requests, DispatchStep(r)
    PROVE  Typed'
  <1> USE DEF Typed
  <1>1. CASE StartSend(r)
    <2>1. PICK i \in Instances : /\ Select(client[r], i, limit)
                                 /\ instance' = [instance EXCEPT ![r] = i]
      BY <1>1 DEF StartSend
    <2>2. LBTypeOK'
      BY <2>1, SelectKeepsType DEF TypeOK
    <2>3. ControllerTypeOK' /\ SchedulerTypeOK'
      BY <1>1 DEF StartSend, TypeOK, SchedulerTypeOK, ControllerTypeOK,
                  controllerVars, schedulerVars
    <2>4. SendersHaveInstance'
      BY <1>1, <2>1 DEF StartSend, TypeOK, SendersHaveInstance, InSend, Instances
    <2> QED BY <1>1, <2>1, <2>2, <2>3, <2>4 DEF StartSend, TypeOK
  <1>2. CASE HeadersArrive(r)
    <2>1. task[r] \in InSend /\ instance[r] \in Instances
      BY <1>2 DEF HeadersArrive, Settle, SendersHaveInstance
    <2>2. PICK ms \in Latencies, status \in Statuses : Settle(r, FALSE, ms, status, FALSE)
      BY <1>2 DEF HeadersArrive
    <2>3. /\ ControllerTypeOK' /\ SchedulerTypeOK' /\ LBTypeOK'
          /\ instance' \in [Requests -> Instances \union {NoInstance}]
          /\ UNCHANGED <<client, handler>>
      BY <2>1, <2>2, SettleKeepsType
    <2>4. SendersHaveInstance'
      BY <1>2, <2>2 DEF HeadersArrive, Settle, TypeOK, SendersHaveInstance, InSend
    <2> QED BY <1>2, <2>3, <2>4 DEF HeadersArrive, TypeOK
  <1>3. ASSUME NEW failed \in BOOLEAN, NEW timedOut \in BOOLEAN, Fails(r, failed, timedOut)
        PROVE  Typed'
    <2>1. task[r] \in InSend /\ instance[r] \in Instances
      BY <1>3 DEF Fails, Settle, SendersHaveInstance
    <2>2. PICK ms \in Latencies : Settle(r, failed, ms, 0, timedOut)
      BY <1>3 DEF Fails
    <2>3. /\ ControllerTypeOK' /\ SchedulerTypeOK' /\ LBTypeOK'
          /\ instance' \in [Requests -> Instances \union {NoInstance}]
          /\ UNCHANGED <<client, handler>>
      BY <2>1, <2>2, SettleKeepsType
    <2>4. SendersHaveInstance'
      BY <1>3, <2>2 DEF Fails, Settle, TypeOK, SendersHaveInstance, InSend
    <2> QED BY <1>3, <2>3, <2>4 DEF Fails, TypeOK
  <1>4. CASE Raise(r) \/ BodySent(r)
    BY <1>4 DEF Raise, BodySent, TypeOK, SchedulerTypeOK, ControllerTypeOK, LBTypeOK,
                controllerVars, lbVars, schedulerVars, SendersHaveInstance, InSend, Instances
  <1>5. CASE CloseDone(r)
    BY <1>5 DEF CloseDone, TypeOK, SchedulerTypeOK, ControllerTypeOK, LBTypeOK,
                controllerVars, lbVars, schedulerVars, SendersHaveInstance, InSend, Instances
  <1> QED BY <1>1, <1>2, <1>3, <1>4, <1>5
          DEF DispatchStep, SendEnds, ConnectFails, BackendTimesOut, SendBreaks

LEMMA WorkerStepKeepsTyped ==
    ASSUME Typed, WorkerStep
    PROVE  Typed'
  <1> USE DEF Typed
  <1>1. CASE WorkerWaits
    BY <1>1 DEF WorkerWaits, WaitForEntry, AcquireSlot, TypeOK, SchedulerTypeOK,
                ControllerTypeOK, LBTypeOK, lbVars, SendersHaveInstance, Instances
  <1>2. ASSUME NEW r \in Requests, WorkerDiscards(r)
        PROVE  Typed'
    <2>1. Record(latency, 0) \in Seq(Nat)
      BY RecordKeepsType DEF TypeOK, ControllerTypeOK
    <2>2. ControllerTypeOK'
      <3>1. latency' \in Seq(Nat)
        BY <1>2, <2>1 DEF WorkerDiscards, DiscardEntry, RecordOutcome, TypeOK,
                          ControllerTypeOK
      <3>2. inFlight' \in Int
        BY <1>2 DEF WorkerDiscards, DiscardEntry, SlotsTaken, TypeOK, ControllerTypeOK
      <3>3. limit' \in MinLimit..MaxLimit
        BY <1>2 DEF WorkerDiscards, DiscardEntry, TypeOK, ControllerTypeOK
      <3> QED BY <3>1, <3>2, <3>3 DEF ControllerTypeOK
    <2> QED BY <1>2, <2>2 DEF WorkerDiscards, DiscardEntry, TakeEntry, TypeOK,
                SchedulerTypeOK, LBTypeOK, lbVars, SendersHaveInstance, Instances
  <1>3. ASSUME NEW r \in Requests, WorkerDispatches(r)
        PROVE  Typed'
    BY <1>3 DEF WorkerDispatches, HandOver, TakeEntry, SlotsTaken, TypeOK,
                SchedulerTypeOK, ControllerTypeOK, LBTypeOK, lbVars,
                SendersHaveInstance, InSend, Instances
  <1> QED BY <1>1, <1>2, <1>3 DEF WorkerStep

LEMMA BackgroundKeepsTyped ==
    ASSUME Typed, LimitMoves \/ BalancerTicks
    PROVE  Typed'
  <1> USE DEF Typed
  <1>1. CASE LimitMoves
    BY <1>1 DEF LimitMoves, ChangeLimit, TypeOK, SchedulerTypeOK, ControllerTypeOK,
                LBTypeOK, lbVars, schedulerVars, SendersHaveInstance, Instances
  <1>2. CASE BalancerTicks
    <2>1. LBTypeOK'
      BY <1>2, BalancerTicksKeepType DEF TypeOK
    <2> QED BY <1>2, <2>1 DEF BalancerTicks, TypeOK, SchedulerTypeOK,
                ControllerTypeOK, controllerVars, schedulerVars,
                SendersHaveInstance, Instances
  <1> QED BY <1>1, <1>2

LEMMA StutterKeepsTyped ==
    ASSUME Typed, UNCHANGED vars
    PROVE  Typed'
  BY DEF Typed, vars, TypeOK, SchedulerTypeOK, ControllerTypeOK, LBTypeOK,
         controllerVars, schedulerVars, lbVars, SendersHaveInstance, Instances

LEMMA InitTyped == Init => Typed
  BY ControllerAssumption, LoadBalancerAssumption
     DEF Init, ControllerInit, SchedulerInit, LBInit, Typed, TypeOK, SchedulerTypeOK,
         ControllerTypeOK, LBTypeOK, SendersHaveInstance, InSend, Instances, NoPin,
         NoInstance

LEMMA StepKeepsTyped == Typed /\ [Next]_vars => Typed'
  BY HandlerStepKeepsTyped, DispatchStepKeepsTyped, WorkerStepKeepsTyped,
     BackgroundKeepsTyped, StutterKeepsTyped DEF Next

LEMMA AlwaysTyped == Spec => []Typed
  BY InitTyped, StepKeepsTyped, PTL DEF Spec

(* The types of the whole backend hold in every reachable state.           *)
THEOREM TypeCorrect == Spec => []TypeOK
  <1>1. Typed => TypeOK
    BY DEF Typed
  <1> QED BY <1>1, AlwaysTyped, PTL

-----------------------------------------------------------------------------
(* How the number of slot holders follows the task of one request.         *)

LEMMA HoldersFinite == IsFiniteSet(Holders) /\ Cardinality(Holders) \in Nat
  <1>1. IsFiniteSet(Holders)
    BY SchedulerAssumption, FS_Subset DEF Holders
  <1> QED BY <1>1, FS_CardinalityType

LEMMA HolderJoins ==
    ASSUME TypeOK, NEW r \in Requests, NEW v \in HasSlot,
           task[r] \notin HasSlot, task' = [task EXCEPT ![r] = v]
    PROVE  Cardinality(Holders') = Cardinality(Holders) + 1
  <1>1. Holders' = Holders \union {r} /\ r \notin Holders
    BY DEF Holders, HasSlot, TypeOK
  <1> QED BY <1>1, HoldersFinite, FS_AddElement

LEMMA HolderLeaves ==
    ASSUME TypeOK, NEW r \in Requests, NEW v, v \notin HasSlot,
           task[r] \in HasSlot, task' = [task EXCEPT ![r] = v]
    PROVE  Cardinality(Holders') = Cardinality(Holders) - 1
  <1>1. Holders' = Holders \ {r} /\ r \in Holders
    BY DEF Holders, HasSlot, TypeOK
  <1> QED BY <1>1, HoldersFinite, FS_RemoveElement

LEMMA HolderStays ==
    ASSUME TypeOK, NEW r \in Requests, NEW v,
           v \in HasSlot <=> task[r] \in HasSlot, task' = [task EXCEPT ![r] = v]
    PROVE  Holders' = Holders
  BY DEF Holders, HasSlot, TypeOK

LEMMA DispatchStepKeepsSlots ==
    ASSUME Typed, SlotAccounting, NEW r \in Requests, DispatchStep(r)
    PROVE  SlotAccounting'
  <1> USE DEF Typed
  <1>1. CASE StartSend(r)
    <2>1. Holders' = Holders
      BY <1>1, HolderStays DEF StartSend, HasSlot
    <2> QED BY <1>1, <2>1 DEF StartSend, SlotAccounting, WorkerSlots,
                              controllerVars, schedulerVars
  <1>2. ASSUME NEW v, v \notin HasSlot, task' = [task EXCEPT ![r] = v],
               NEW failed, NEW ms, NEW status, NEW timedOut,
               Settle(r, failed, ms, status, timedOut)
        PROVE  SlotAccounting'
    <2>1. Cardinality(Holders') = Cardinality(Holders) - 1
      BY <1>2, HolderLeaves DEF Settle, InSend, HasSlot
    <2>2. inFlight' = inFlight - 1 /\ worker' = worker
      BY <1>2 DEF Settle, ReleaseSlot
    <2> QED BY <2>1, <2>2, HoldersFinite DEF SlotAccounting, WorkerSlots
  <1>3. CASE HeadersArrive(r)
    <2>1. \E v \in {"closing", "finished"} : task' = [task EXCEPT ![r] = v]
      BY <1>3 DEF HeadersArrive
    <2> QED BY <1>2, <1>3, <2>1 DEF HeadersArrive, HasSlot
  <1>4. ASSUME NEW failed, NEW timedOut, Fails(r, failed, timedOut)
        PROVE  SlotAccounting'
    BY <1>2, <1>4 DEF Fails, HasSlot
  <1>5. CASE Raise(r) \/ BodySent(r)
    <2>1. Holders' = Holders
      BY <1>5, HolderStays DEF Raise, BodySent, HasSlot
    <2> QED BY <1>5, <2>1 DEF Raise, BodySent, SlotAccounting, WorkerSlots,
                              controllerVars, schedulerVars
  <1>6. CASE CloseDone(r)
    <2>1. Holders' = Holders
      BY <1>6, HolderStays DEF CloseDone, HasSlot
    <2> QED BY <1>6, <2>1 DEF CloseDone, SlotAccounting, WorkerSlots,
                              controllerVars, schedulerVars
  <1> QED BY <1>1, <1>3, <1>4, <1>5, <1>6
          DEF DispatchStep, SendEnds, ConnectFails, BackendTimesOut, SendBreaks

(* A queued request has no dispatch task yet.                              *)
QueuedNotDispatched == \A r \in queue : task[r] = "none"

LEMMA WorkerStepKeepsSlots ==
    ASSUME Typed, SlotAccounting, QueuedNotDispatched, WorkerStep
    PROVE  SlotAccounting'
  <1> USE DEF Typed
  <1>1. CASE WorkerWaits
    <2>1. Holders' = Holders
      BY <1>1 DEF WorkerWaits, Holders
    <2> QED BY <1>1, <2>1, HoldersFinite
            DEF WorkerWaits, WaitForEntry, AcquireSlot, SlotAccounting, WorkerSlots
  <1>2. ASSUME NEW r \in Requests, WorkerDiscards(r)
        PROVE  SlotAccounting'
    <2>1. Holders' = Holders
      BY <1>2 DEF WorkerDiscards, Holders
    <2>2. worker' = "acquiring" /\ inFlight' = SlotsTaken - 1
      BY <1>2 DEF WorkerDiscards, DiscardEntry, TakeEntry
    <2> QED BY <2>1, <2>2, HoldersFinite
            DEF SlotsTaken, SlotAccounting, WorkerSlots, TypeOK, ControllerTypeOK
  <1>3. ASSUME NEW r \in Requests, WorkerDispatches(r)
        PROVE  SlotAccounting'
    <2>1. task[r] = "none"
      BY <1>3 DEF WorkerDispatches, HandOver, TakeEntry, IsFirst, QueuedNotDispatched
    <2>2. Cardinality(Holders') = Cardinality(Holders) + 1
      BY <1>3, <2>1, HolderJoins DEF WorkerDispatches, HasSlot
    <2>3. worker' = "acquiring" /\ inFlight' = SlotsTaken
      BY <1>3 DEF WorkerDispatches, HandOver, TakeEntry
    <2> QED BY <2>2, <2>3, HoldersFinite
            DEF SlotsTaken, SlotAccounting, WorkerSlots, TypeOK, ControllerTypeOK
  <1> QED BY <1>1, <1>2, <1>3 DEF WorkerStep

LEMMA OthersKeepSlots ==
    ASSUME SlotAccounting,
           \/ \E r \in Requests : HandlerStep(r)
           \/ LimitMoves \/ BalancerTicks \/ UNCHANGED vars
    PROVE  SlotAccounting'
  <1>1. UNCHANGED <<inFlight, worker, task>>
    BY DEF HandlerStep, Admit, PutEntry, Refuse, QueueTimer, Respond, StreamEnds,
           LimitMoves, ChangeLimit, BalancerTicks, vars, controllerVars, schedulerVars
  <1> QED BY <1>1 DEF SlotAccounting, Holders, WorkerSlots

-----------------------------------------------------------------------------
(* How handler, future, queue entry and task of one request go together:   *)
(* a future exists once the request is admitted, an entry has no task, a   *)
(* handler that waits without a task has an entry, and only a timed-out    *)
(* handler leaves a cancelled future.                                      *)
Lifecycle ==
    /\ \A r \in Requests : handler[r] = "new" => future[r] = "none"
    /\ \A r \in Requests : future[r] = "none" => task[r] = "none"
    /\ QueuedNotDispatched
    /\ \A r \in Requests : handler[r] = "waiting" /\ task[r] = "none" => r \in queue
    /\ \A r \in Requests : future[r] = "cancelled" => handler[r] = "timed_out"
    /\ \A r \in queue : future[r] # "none"

LEMMA HandlerStepKeepsLifecycle ==
    ASSUME Typed, Lifecycle, NEW r \in Requests, HandlerStep(r)
    PROVE  Lifecycle'
  <1> USE DEF Typed, TypeOK, SchedulerTypeOK, Lifecycle, QueuedNotDispatched
  <1>1. CASE Admit(r)
    BY <1>1 DEF Admit, Moves, PutEntry
  <1>2. CASE Refuse(r)
    BY <1>2 DEF Refuse, Moves, schedulerVars
  <1>3. CASE QueueTimer(r)
    BY <1>3 DEF QueueTimer, Moves, CancelIfPending
  <1>4. CASE Respond(r)
    BY <1>4 DEF Respond, Moves, schedulerVars
  <1>5. CASE StreamEnds(r)
    BY <1>5 DEF StreamEnds, schedulerVars
  <1> QED BY <1>1, <1>2, <1>3, <1>4, <1>5 DEF HandlerStep

LEMMA DispatchStepKeepsLifecycle ==
    ASSUME Typed, Lifecycle, NEW r \in Requests, DispatchStep(r)
    PROVE  Lifecycle'
  <1> USE DEF Typed, TypeOK, SchedulerTypeOK, Lifecycle, QueuedNotDispatched
  <1>1. CASE StartSend(r)
    BY <1>1 DEF StartSend, schedulerVars
  <1>2. ASSUME NEW v \in {"closing", "finished"}, task' = [task EXCEPT ![r] = v],
               NEW failed, NEW ms, NEW status, NEW timedOut,
               Settle(r, failed, ms, status, timedOut)
        PROVE  Lifecycle'
    BY <1>2 DEF Settle, Resolved, InSend
  <1>3. CASE HeadersArrive(r)
    <2>1. \E v \in {"closing", "finished"} : task' = [task EXCEPT ![r] = v]
      BY <1>3 DEF HeadersArrive
    <2> QED BY <1>2, <1>3, <2>1 DEF HeadersArrive
  <1>4. ASSUME NEW failed, NEW timedOut, Fails(r, failed, timedOut)
        PROVE  Lifecycle'
    BY <1>2, <1>4 DEF Fails
  <1>5. CASE Raise(r) \/ BodySent(r)
    BY <1>5 DEF Raise, BodySent, schedulerVars
  <1>6. CASE CloseDone(r)
    BY <1>6 DEF CloseDone, schedulerVars
  <1> QED BY <1>1, <1>3, <1>4, <1>5, <1>6
          DEF DispatchStep, SendEnds, ConnectFails, BackendTimesOut, SendBreaks

LEMMA WorkerStepKeepsLifecycle ==
    ASSUME Typed, Lifecycle, WorkerStep
    PROVE  Lifecycle'
  <1> USE DEF Typed, TypeOK, SchedulerTypeOK, Lifecycle, QueuedNotDispatched
  <1>1. CASE WorkerWaits
    BY <1>1 DEF WorkerWaits, WaitForEntry
  <1>2. ASSUME NEW r \in Requests, WorkerDiscards(r)
        PROVE  Lifecycle'
    BY <1>2 DEF WorkerDiscards, DiscardEntry, TakeEntry
  <1>3. ASSUME NEW r \in Requests, WorkerDispatches(r)
        PROVE  Lifecycle'
    BY <1>3 DEF WorkerDispatches, HandOver, TakeEntry, IsFirst
  <1> QED BY <1>1, <1>2, <1>3 DEF WorkerStep

LEMMA OthersKeepLifecycle ==
    ASSUME Lifecycle, LimitMoves \/ BalancerTicks \/ UNCHANGED vars
    PROVE  Lifecycle'
  <1>1. UNCHANGED <<queue, future, handler, task>>
    BY DEF LimitMoves, BalancerTicks, vars, schedulerVars
  <1> QED BY <1>1 DEF Lifecycle, QueuedNotDispatched

-----------------------------------------------------------------------------
(* The slots: types, lifecycle and the count itself are inductive together. *)

SlotInv == Typed /\ Lifecycle /\ SlotAccounting

LEMMA InitSlotInv == Init => SlotInv
  <1> SUFFICES ASSUME Init PROVE SlotInv
    OBVIOUS
  <1>1. Lifecycle
    BY DEF Init, SchedulerInit, Lifecycle, QueuedNotDispatched
  <1>2. SlotAccounting
    <2>1. Holders = {}
      BY DEF Init, Holders, HasSlot
    <2> QED BY <2>1, FS_EmptySet
            DEF Init, ControllerInit, SchedulerInit, SlotAccounting, WorkerSlots
  <1> QED BY <1>1, <1>2, InitTyped DEF SlotInv

LEMMA StepKeepsSlotInv == SlotInv /\ [Next]_vars => SlotInv'
  <1> SUFFICES ASSUME SlotInv, [Next]_vars PROVE SlotInv'
    OBVIOUS
  <1> USE DEF SlotInv
  <1>1. Typed'
    BY StepKeepsTyped
  <1>2. ASSUME NEW r \in Requests, HandlerStep(r)
        PROVE  SlotInv'
    BY <1>1, <1>2, HandlerStepKeepsLifecycle, OthersKeepSlots
  <1>3. ASSUME NEW r \in Requests, DispatchStep(r)
        PROVE  SlotInv'
    BY <1>1, <1>3, DispatchStepKeepsLifecycle, DispatchStepKeepsSlots
  <1>4. CASE WorkerStep
    BY <1>1, <1>4, WorkerStepKeepsLifecycle, WorkerStepKeepsSlots DEF Lifecycle
  <1>5. CASE LimitMoves \/ BalancerTicks \/ UNCHANGED vars
    BY <1>1, <1>5, OthersKeepLifecycle, OthersKeepSlots
  <1> QED BY <1>2, <1>3, <1>4, <1>5 DEF Next

LEMMA AlwaysSlotInv == Spec => []SlotInv
  BY InitSlotInv, StepKeepsSlotInv, PTL DEF Spec

(* The controller counts exactly the slots of unfinished or raised         *)
(* dispatches and of the worker: no handled outcome loses or doubles one.  *)
THEOREM SlotsAccounted == Spec => []SlotAccounting
  <1>1. SlotInv => SlotAccounting
    BY DEF SlotInv
  <1> QED BY <1>1, AlwaysSlotInv, PTL

-----------------------------------------------------------------------------
(* For any requests and limits, a waiting request, and an entry that still *)
(* counts, always has something to wait for: were no dispatch to give a    *)
(* slot back, the slots in use would be those of the raised ones and the   *)
(* worker's own, and the worker could take an entry, such as the one that  *)
(* Lifecycle says the waiting request has.                                 *)
THEOREM SomebodyIsToServe == Spec => []WaitersHaveProspects
  <1> DEFINE Raised == {r \in Requests : task[r] = "raised"}
  <1>1. SlotInv => WaitersHaveProspects
    <2> SUFFICES ASSUME SlotInv, NEW r \in Requests,
                        r \in queue \/ (handler[r] = "waiting" /\ task[r] = "none"),
                        \A q \in Requests : task[q] \notin {"created", "uploading", "awaiting"},
                        ~Wedged
                 PROVE  queue # {} /\ MayTake
      BY DEF WaitersHaveProspects
    <2>1. queue # {}
      BY DEF SlotInv, Lifecycle
    <2>2. Holders = Raised
      BY DEF Holders, HasSlot
    <2>3. inFlight = Cardinality(Raised) + WorkerSlots
      BY <2>2 DEF SlotInv, SlotAccounting
    <2>4. Cardinality(Raised) \in Nat /\ limit \in Nat /\ Cardinality(Raised) < limit
      <3>1. Cardinality(Raised) \in Nat
        BY <2>2, HoldersFinite
      <3>2. limit \in Nat
        BY ControllerAssumption DEF SlotInv, Typed, TypeOK, ControllerTypeOK
      <3> QED BY <3>1, <3>2 DEF Wedged
    <2>5. MayTake
      BY <2>3, <2>4 DEF MayTake, CanAcquire, WorkerSlots, SlotInv, Typed, TypeOK, SchedulerTypeOK
    <2> QED BY <2>1, <2>5
  <1> QED BY <1>1, AlwaysSlotInv, PTL

-----------------------------------------------------------------------------
(* The bound on the slots in use.                                          *)

LEMMA StepOverAdmitsNever ==
    ASSUME Typed, [Next]_vars
    PROVE  /\ inFlight' > inFlight => inFlight' =< limit'
           /\ limit' \in MinLimit..MaxLimit
  <1> USE DEF Typed, TypeOK, ControllerTypeOK
  <1>1. limit' \in MinLimit..MaxLimit /\ inFlight \in Int /\ inFlight' \in Int
    BY StepKeepsTyped
  <1> DEFINE Admits == inFlight' > inFlight => inFlight' =< limit'
  <1>2. ASSUME NEW r \in Requests, HandlerStep(r)
        PROVE  Admits
    BY <1>1, <1>2 DEF HandlerStep, Admit, Refuse, QueueTimer, Respond, StreamEnds, controllerVars
  <1>3. ASSUME NEW r \in Requests, DispatchStep(r)
        PROVE  Admits
    <2>1. ASSUME NEW failed, NEW ms, NEW status, NEW timedOut,
                 Settle(r, failed, ms, status, timedOut)
          PROVE  Admits
      BY <1>1, <2>1 DEF Settle, ReleaseSlot
    <2>2. ASSUME NEW failed, NEW timedOut, Fails(r, failed, timedOut)
          PROVE  Admits
      BY <2>1, <2>2 DEF Fails
    <2>3. CASE HeadersArrive(r)
      BY <2>1, <2>3 DEF HeadersArrive
    <2>4. CASE StartSend(r) \/ Raise(r) \/ BodySent(r) \/ CloseDone(r)
      BY <1>1, <2>4 DEF StartSend, Raise, BodySent, CloseDone, controllerVars
    <2> QED BY <1>3, <2>2, <2>3, <2>4
            DEF DispatchStep, SendEnds, ConnectFails, BackendTimesOut, SendBreaks
  <1>4. ASSUME WorkerStep
        PROVE  Admits
    <2>1. ASSUME WorkerWaits PROVE Admits
      BY <2>1 DEF WorkerWaits, WaitForEntry, AcquireSlot, CanAcquire
    <2>2. ASSUME NEW r \in Requests, WorkerDiscards(r)
          PROVE  Admits
      BY <1>1, <2>2 DEF WorkerDiscards, DiscardEntry, SlotsTaken
    <2>3. ASSUME NEW r \in Requests, WorkerDispatches(r)
          PROVE  Admits
      <3>1. inFlight' = SlotsTaken /\ limit' = limit /\ MayTake
        BY <2>3 DEF WorkerDispatches, HandOver, TakeEntry
      <3>2. CASE worker = "getting"
        BY <1>1, <3>1, <3>2 DEF SlotsTaken
      <3>3. CASE worker # "getting"
        BY <1>1, <3>1, <3>3 DEF SlotsTaken, MayTake, CanAcquire
      <3> QED BY <3>2, <3>3
    <2> QED BY <1>4, <2>1, <2>2, <2>3 DEF WorkerStep
  <1>5. ASSUME LimitMoves \/ BalancerTicks \/ UNCHANGED vars
        PROVE  Admits
    BY <1>1, <1>5 DEF LimitMoves, ChangeLimit, BalancerTicks, vars, controllerVars
  <1> QED BY <1>1, <1>2, <1>3, <1>4, <1>5 DEF Next

(* However the limit moves, slots in use stay within its range.            *)
THEOREM AdmissionBounded == Spec => []AdmissionBound
  <1>1. Init => AdmissionBound
    BY ControllerAssumption DEF Init, ControllerInit, AdmissionBound
  <1>2. Typed /\ AdmissionBound /\ [Next]_vars => AdmissionBound'
    <2> SUFFICES ASSUME Typed, AdmissionBound, [Next]_vars PROVE AdmissionBound'
      OBVIOUS
    <2>1. Typed'
      BY StepKeepsTyped
    <2> QED BY <2>1, StepOverAdmitsNever, ControllerAssumption
            DEF AdmissionBound, Typed, TypeOK, ControllerTypeOK
  <1> QED BY <1>1, <1>2, AlwaysTyped, PTL DEF Spec

(* No step takes a slot above the limit of its moment, whatever the limit  *)
(* has been before.                                                        *)
THEOREM NeverOverAdmitted == Spec => NeverOverAdmits
  <1>1. Typed /\ [Next]_vars => [inFlight' > inFlight => inFlight' =< limit']_vars
    BY StepOverAdmitsNever
  <1> QED BY <1>1, AlwaysTyped, PTL DEF Spec, NeverOverAdmits

-----------------------------------------------------------------------------
(* The order of dispatch, and the requests that give up.                   *)

(* Only the worker creates dispatch tasks, one at a time, for the first    *)
(* entry of the queue, and only if its request has not given up.           *)
LEMMA OnlyWorkerCreates ==
    ASSUME Typed, [Next]_vars, NEW q \in Requests, task[q] = "none", task'[q] # "none"
    PROVE  WorkerDispatches(q)
  <1> USE DEF Typed, TypeOK
  <1>1. ASSUME NEW r \in Requests, HandlerStep(r)
        PROVE  FALSE
    BY <1>1 DEF HandlerStep, Admit, Refuse, QueueTimer, Respond, StreamEnds
  <1>2. ASSUME NEW r \in Requests, DispatchStep(r)
        PROVE  FALSE
    <2>1. r # q
      BY <1>2 DEF DispatchStep, StartSend, SendEnds, HeadersArrive, ConnectFails,
                  BackendTimesOut, SendBreaks, Fails, Settle, InSend, Raise, BodySent,
                  CloseDone
    <2>2. task'[q] = task[q]
      BY <1>2, <2>1 DEF DispatchStep, StartSend, SendEnds, HeadersArrive, ConnectFails,
                  BackendTimesOut, SendBreaks, Fails, Raise, BodySent, CloseDone
    <2> QED BY <2>2
  <1>3. ASSUME NEW r \in Requests, WorkerDispatches(r)
        PROVE  WorkerDispatches(q)
    BY <1>3 DEF WorkerDispatches
  <1>4. CASE WorkerStep
    BY <1>3, <1>4 DEF WorkerStep, WorkerWaits, WorkerDiscards
  <1>5. CASE LimitMoves \/ BalancerTicks \/ UNCHANGED vars
    BY <1>5 DEF LimitMoves, BalancerTicks, vars
  <1> QED BY <1>1, <1>2, <1>4, <1>5 DEF Next

(* A dispatch never overtakes a better request that is still waiting.      *)
THEOREM NobodyOvertakes == Spec => NoOvertaking
  <1> DEFINE Fair == \A r \in Requests : task[r] = "none" /\ task'[r] = "created" =>
                       \A q \in Requests \ {r} :
                          handler[q] = "waiting" /\ task[q] = "none" => Before(r, q)
  <1>1. SlotInv /\ [Next]_vars => Fair
    <2> SUFFICES ASSUME SlotInv, [Next]_vars,
                        NEW r \in Requests, task[r] = "none", task'[r] = "created",
                        NEW q \in Requests \ {r}, handler[q] = "waiting", task[q] = "none"
                 PROVE  Before(r, q)
      OBVIOUS
    <2>1. WorkerDispatches(r)
      BY OnlyWorkerCreates DEF SlotInv
    <2>2. q \in queue
      BY DEF SlotInv, Lifecycle
    <2> QED BY <2>1, <2>2 DEF WorkerDispatches, HandOver, TakeEntry, IsFirst
  <1>2. SlotInv /\ [Next]_vars => [Fair]_vars
    BY <1>1
  <1> QED BY <1>2, AlwaysSlotInv, PTL DEF Spec, NoOvertaking

(* A request that gave up in the queue is never sent.                      *)
THEOREM GivenUpRequestsAreNotSent == Spec => GivenUpNeverSent
  <1> DEFINE Kept == \A r \in Requests :
                       future[r] = "cancelled" /\ task[r] = "none" => task'[r] = "none"
  <1>1. Typed /\ [Next]_vars => Kept
    <2> SUFFICES ASSUME Typed, [Next]_vars, NEW r \in Requests,
                        future[r] = "cancelled", task[r] = "none", task'[r] # "none"
                 PROVE  FALSE
      OBVIOUS
    <2>1. WorkerDispatches(r)
      BY OnlyWorkerCreates
    <2> QED BY <2>1 DEF WorkerDispatches, HandOver
  <1>2. Typed /\ [Next]_vars => [Kept]_vars
    BY <1>1
  <1> QED BY <1>2, AlwaysTyped, PTL DEF Spec, GivenUpNeverSent

-----------------------------------------------------------------------------
(* The load balancer's counts.                                             *)

HeldBy(i) == {r \in Requests : instance[r] = i}

(* A dispatch outside its send has no instance.                            *)
OnlySendersHold ==
    \A r \in Requests :
       task[r] \in {"none", "created", "closing", "finished"} => instance[r] = NoInstance

InstanceInv == Typed /\ OnlySendersHold /\ InstanceAccounting

LEMMA HeldByFinite ==
    ASSUME NEW i
    PROVE  IsFiniteSet(HeldBy(i)) /\ Cardinality(HeldBy(i)) \in Nat
  <1>1. IsFiniteSet(HeldBy(i))
    BY SchedulerAssumption, FS_Subset DEF HeldBy
  <1> QED BY <1>1, FS_CardinalityType

LEMMA NoInstanceIsNone == NoInstance \notin Instances
  BY LoadBalancerAssumption DEF NoInstance, Instances, Primaries, Backups

LEMMA InstancesUntouched ==
    ASSUME InstanceInv, UNCHANGED <<lbInFlight, instance>>
    PROVE  InstanceAccounting'
  BY DEF InstanceInv, InstanceAccounting

(* select(): the dispatch moves from no instance to the selected one.      *)
LEMMA StartSendKeepsInstances ==
    ASSUME InstanceInv, NEW r \in Requests, StartSend(r)
    PROVE  InstanceAccounting'
  <1> USE DEF InstanceInv, Typed, TypeOK, LBTypeOK
  <1>1. PICK i \in Instances : /\ Select(client[r], i, limit)
                               /\ instance' = [instance EXCEPT ![r] = i]
    BY DEF StartSend
  <1>2. instance[r] = NoInstance
    BY DEF StartSend, OnlySendersHold
  <1>3. lbInFlight' = [lbInFlight EXCEPT ![i] = lbInFlight[i] + 1]
    BY <1>1 DEF Select
  <1>4. ASSUME NEW j \in Instances
        PROVE  lbInFlight'[j] = Cardinality(HeldBy(j)')
    <2>1. CASE j = i
      <3>1. HeldBy(j)' = HeldBy(j) \union {r} /\ r \notin HeldBy(j)
        BY <1>1, <1>2, <2>1, NoInstanceIsNone DEF HeldBy
      <3>2. Cardinality(HeldBy(j)') = Cardinality(HeldBy(j)) + 1
        BY <3>1, HeldByFinite, FS_AddElement
      <3> QED BY <1>3, <2>1, <3>2 DEF InstanceAccounting, HeldBy
    <2>2. CASE j # i
      <3>1. HeldBy(j)' = HeldBy(j)
        BY <1>1, <1>2, <2>2, NoInstanceIsNone DEF HeldBy
      <3> QED BY <1>3, <2>2, <3>1 DEF InstanceAccounting, HeldBy
    <2> QED BY <2>1, <2>2
  <1> QED BY <1>4 DEF InstanceAccounting, HeldBy

(* release(): the instance of a sending dispatch counts at least one, so   *)
(* the clamp at zero is never taken.                                       *)
LEMMA SettleKeepsInstances ==
    ASSUME InstanceInv, NEW r \in Requests, NEW failed, NEW ms, NEW status, NEW timedOut,
           Settle(r, failed, ms, status, timedOut)
    PROVE  InstanceAccounting'
  <1> USE DEF InstanceInv, Typed, TypeOK, LBTypeOK
  <1>1. PICK i \in Instances : instance[r] = i
    BY DEF Settle, SendersHaveInstance
  <1>2. HeldBy(i)' = HeldBy(i) \ {r} /\ r \in HeldBy(i)
    BY <1>1, NoInstanceIsNone DEF Settle, HeldBy
  <1>3. Cardinality(HeldBy(i)') = Cardinality(HeldBy(i)) - 1
    BY <1>2, HeldByFinite, FS_RemoveElement
  <1>4. Cardinality(HeldBy(i)) > 0
    BY <1>2, HeldByFinite, FS_EmptySet
  <1>5. lbInFlight[i] = Cardinality(HeldBy(i))
    BY <1>1 DEF InstanceAccounting, HeldBy
  <1>6. lbInFlight' = [lbInFlight EXCEPT ![i] = lbInFlight[i] - 1]
    BY <1>1, <1>4, <1>5 DEF Settle, ReleaseInstance
  <1>7. ASSUME NEW j \in Instances
        PROVE  lbInFlight'[j] = Cardinality(HeldBy(j)')
    <2>1. CASE j = i
      BY <1>1, <1>3, <1>5, <1>6, <2>1
    <2>2. CASE j # i
      <3>1. HeldBy(j)' = HeldBy(j)
        BY <1>1, <2>2, NoInstanceIsNone DEF Settle, HeldBy
      <3> QED BY <1>6, <2>2, <3>1 DEF InstanceAccounting, HeldBy
    <2> QED BY <2>1, <2>2
  <1> QED BY <1>7 DEF InstanceAccounting, HeldBy

LEMMA StepKeepsOnlySendersHold ==
    ASSUME Typed, QueuedNotDispatched, OnlySendersHold, [Next]_vars
    PROVE  OnlySendersHold'
  <1> USE DEF Typed, TypeOK
  <1>1. ASSUME NEW r \in Requests, HandlerStep(r)
        PROVE  OnlySendersHold'
    BY <1>1 DEF HandlerStep, Admit, Refuse, QueueTimer, Respond, StreamEnds, OnlySendersHold
  <1>2. ASSUME NEW r \in Requests, DispatchStep(r)
        PROVE  OnlySendersHold'
    <2>1. CASE StartSend(r)
      BY <2>1 DEF StartSend, OnlySendersHold
    <2>2. ASSUME NEW v \in {"closing", "finished"}, task' = [task EXCEPT ![r] = v],
                 instance' = [instance EXCEPT ![r] = NoInstance]
          PROVE  OnlySendersHold'
      BY <2>2 DEF OnlySendersHold
    <2>3. CASE HeadersArrive(r)
      BY <2>2, <2>3 DEF HeadersArrive, Settle
    <2>4. ASSUME NEW failed, NEW timedOut, Fails(r, failed, timedOut)
          PROVE  OnlySendersHold'
      BY <2>2, <2>4 DEF Fails, Settle
    <2>5. CASE Raise(r) \/ BodySent(r) \/ CloseDone(r)
      BY <2>5 DEF Raise, BodySent, CloseDone, OnlySendersHold
    <2> QED BY <1>2, <2>1, <2>3, <2>4, <2>5
            DEF DispatchStep, SendEnds, ConnectFails, BackendTimesOut, SendBreaks
  <1>3. CASE WorkerStep
    <2>1. CASE UNCHANGED <<task, instance>>
      BY <2>1 DEF OnlySendersHold
    <2>2. ASSUME NEW r \in Requests, WorkerDispatches(r)
          PROVE  OnlySendersHold'
      <3>1. task[r] = "none"
        BY <2>2 DEF WorkerDispatches, HandOver, TakeEntry, IsFirst, QueuedNotDispatched
      <3> QED BY <2>2, <3>1 DEF WorkerDispatches, OnlySendersHold
    <2> QED BY <1>3, <2>1, <2>2
            DEF WorkerStep, WorkerWaits, WorkerDiscards
  <1>4. CASE LimitMoves \/ BalancerTicks \/ UNCHANGED vars
    BY <1>4 DEF LimitMoves, BalancerTicks, vars, OnlySendersHold
  <1> QED BY <1>1, <1>2, <1>3, <1>4 DEF Next

LEMMA StepKeepsInstanceInv == SlotInv /\ InstanceInv /\ [Next]_vars => InstanceInv'
  <1> SUFFICES ASSUME SlotInv, InstanceInv, [Next]_vars PROVE InstanceInv'
    OBVIOUS
  <1>1. Typed' /\ OnlySendersHold'
    BY StepKeepsTyped, StepKeepsOnlySendersHold DEF InstanceInv, SlotInv, Lifecycle
  <1>2. ASSUME NEW r \in Requests, HandlerStep(r)
        PROVE  InstanceAccounting'
    BY <1>2, InstancesUntouched
       DEF HandlerStep, Admit, Refuse, QueueTimer, Respond, StreamEnds, lbVars
  <1>3. ASSUME NEW r \in Requests, DispatchStep(r)
        PROVE  InstanceAccounting'
    <2>1. CASE StartSend(r)
      BY <2>1, StartSendKeepsInstances
    <2>2. CASE HeadersArrive(r)
      BY <2>2, SettleKeepsInstances DEF HeadersArrive
    <2>3. ASSUME NEW failed, NEW timedOut, Fails(r, failed, timedOut)
          PROVE  InstanceAccounting'
      BY <2>3, SettleKeepsInstances DEF Fails
    <2>4. CASE Raise(r) \/ BodySent(r) \/ CloseDone(r)
      BY <2>4, InstancesUntouched DEF Raise, BodySent, CloseDone, lbVars
    <2> QED BY <1>3, <2>1, <2>2, <2>3, <2>4
            DEF DispatchStep, SendEnds, ConnectFails, BackendTimesOut, SendBreaks
  <1>4. ASSUME WorkerStep
        PROVE  InstanceAccounting'
    BY <1>4, InstancesUntouched
       DEF WorkerStep, WorkerWaits, WorkerDiscards, WorkerDispatches, lbVars
  <1>5. ASSUME LimitMoves \/ BalancerTicks \/ UNCHANGED vars
        PROVE  InstanceAccounting'
    BY <1>5, InstancesUntouched
       DEF LimitMoves, BalancerTicks, HealthTick, ProbeDone, PinExpires, vars, lbVars
  <1>6. InstanceAccounting'
    BY <1>2, <1>3, <1>4, <1>5 DEF Next
  <1> QED BY <1>1, <1>6 DEF InstanceInv

LEMMA AlwaysInstanceInv == Spec => []InstanceInv
  <1>1. Init => InstanceInv
    <2> SUFFICES ASSUME Init PROVE InstanceInv
      OBVIOUS
    <2>1. OnlySendersHold
      BY DEF Init, OnlySendersHold
    <2>2. ASSUME NEW i \in Instances
          PROVE  lbInFlight[i] = Cardinality({r \in Requests : instance[r] = i})
      <3>1. {r \in Requests : instance[r] = i} = {}
        BY NoInstanceIsNone DEF Init
      <3> QED BY <3>1, FS_EmptySet DEF Init, LBInit
    <2> QED BY <2>1, <2>2, InitTyped DEF InstanceInv, InstanceAccounting
  <1> QED BY <1>1, StepKeepsInstanceInv, AlwaysSlotInv, PTL DEF Spec

(* The load balancer counts per instance exactly the dispatches that hold  *)
(* it: least-loaded selection compares real loads.                         *)
THEOREM InstancesAccounted == Spec => []InstanceAccounting
  <1>1. InstanceInv => InstanceAccounting
    BY DEF InstanceInv
  <1> QED BY <1>1, AlwaysInstanceInv, PTL

-----------------------------------------------------------------------------
(* Fair shares: what controller and balancer promise together.             *)

(* A dispatch about to select has its slot and no instance; the others     *)
(* that hold an instance have their slots too.                             *)
LEMMA SendersWithinSlots ==
    ASSUME SlotInv, InstanceInv, NEW r \in Requests, task[r] = "created"
    PROVE  Cardinality(Placed(Requests, instance)) < inFlight
  <1>1. Placed(Requests, instance) \subseteq Holders \ {r} /\ r \in Holders
    BY NoInstanceIsNone
       DEF Placed, Holders, HasSlot, SlotInv, InstanceInv, OnlySendersHold, Typed, TypeOK
  <1>2. /\ Cardinality(Placed(Requests, instance)) =< Cardinality(Holders \ {r})
        /\ Cardinality(Placed(Requests, instance)) \in Nat
        /\ Cardinality(Holders \ {r}) = Cardinality(Holders) - 1
        /\ Cardinality(Holders) \in Nat
    <2>1. IsFiniteSet(Holders \ {r})
      BY HoldersFinite, FS_Subset
    <2> QED BY <1>1, <2>1, HoldersFinite, FS_Subset, FS_CardinalityType, FS_RemoveElement
  <1> QED BY <1>2 DEF SlotInv, SlotAccounting, WorkerSlots

LEMMA OnlyStartSends ==
    ASSUME Typed, [Next]_vars, NEW r \in Requests,
           instance[r] = NoInstance, instance'[r] # NoInstance
    PROVE  StartSend(r)
  <1> USE DEF Typed, TypeOK
  <1>1. ASSUME NEW q \in Requests, HandlerStep(q)
        PROVE  instance' = instance
    BY <1>1 DEF HandlerStep, Admit, Refuse, QueueTimer, Respond, StreamEnds
  <1>2. ASSUME NEW q \in Requests, DispatchStep(q), ~StartSend(q)
        PROVE  \/ instance' = instance
               \/ instance' = [instance EXCEPT ![q] = NoInstance]
    BY <1>2 DEF DispatchStep, SendEnds, HeadersArrive, ConnectFails, BackendTimesOut,
                SendBreaks, Fails, Settle, BodySent, Raise, CloseDone
  <1>3. ASSUME NEW q \in Requests, StartSend(q)
        PROVE  q = r
    BY <1>3 DEF StartSend
  <1>4. ASSUME WorkerStep \/ LimitMoves \/ BalancerTicks \/ UNCHANGED vars
        PROVE  instance' = instance
    BY <1>4 DEF WorkerStep, WorkerWaits, WorkerDiscards, WorkerDispatches, LimitMoves,
                BalancerTicks, vars
  <1> QED BY <1>1, <1>2, <1>3, <1>4 DEF Next

(* For any requests, instances and limits: as long as no shrink of the     *)
(* limit is still to be absorbed, the slots keep every instance within its *)
(* fair share, whatever is pinned, down or left behind by raised tasks.    *)
THEOREM SendsAreFair == Spec => SendsWithinFairShare
  <1> DEFINE Fair == \A r \in Requests :
                        instance[r] = NoInstance /\ instance'[r] # NoInstance /\ inFlight =< limit
                           => lbInFlight'[instance'[r]] =< FairShare(limit)
  <1>1. SlotInv /\ InstanceInv /\ [Next]_vars => Fair
    <2> SUFFICES ASSUME SlotInv, InstanceInv, [Next]_vars, NEW r \in Requests,
                        instance[r] = NoInstance, instance'[r] # NoInstance, inFlight =< limit
                 PROVE  lbInFlight'[instance'[r]] =< FairShare(limit)
      OBVIOUS
    <2> USE DEF SlotInv, Typed, TypeOK
    <2>1. StartSend(r)
      BY OnlyStartSends
    <2>2. PICK i \in Instances : /\ Select(client[r], i, limit)
                                 /\ instance' = [instance EXCEPT ![r] = i]
      BY <2>1 DEF StartSend
    <2>3. /\ LBTypeOK /\ IsFiniteSet(Requests) /\ client[r] \in Clients
          /\ limit \in Nat /\ inFlight \in Int /\ Counts(Requests, instance)
      <3>1. Counts(Requests, instance)
        BY DEF InstanceInv, InstanceAccounting, Counts
      <3>2. limit \in Nat /\ inFlight \in Int
        BY ControllerAssumption DEF ControllerTypeOK
      <3> QED BY <3>1, <3>2, SchedulerAssumption
    <2>4. /\ Cardinality(Placed(Requests, instance)) < inFlight
          /\ Cardinality(Placed(Requests, instance)) \in Nat
      <3>1. IsFiniteSet(Placed(Requests, instance))
        BY <2>3, FS_Subset DEF Placed
      <3> QED BY <2>1, <3>1, SendersWithinSlots, FS_CardinalityType DEF StartSend
    <2>5. lbInFlight[i] + 1 =< FairShare(limit)
      <3>1. Cardinality(Placed(Requests, instance)) < limit
        BY <2>3, <2>4
      <3> QED BY <2>2, <2>3, <3>1, ChosenHasRoom DEF Select
    <2>6. lbInFlight'[i] = lbInFlight[i] + 1 /\ instance'[r] = i
      BY <2>2 DEF Select, LBTypeOK
    <2> QED BY <2>5, <2>6
  <1> QED BY <1>1, AlwaysSlotInv, AlwaysInstanceInv, PTL DEF Spec, SendsWithinFairShare
=============================================================================
