------------------------------ MODULE Backend ------------------------------
(***************************************************************************)
(* One backend of the proxy: proxy_handler (app/main.py), the priority     *)
(* scheduler and its worker, the detached dispatch tasks                   *)
(* (app/dispatcher.py), the capacity controller and the load balancer,     *)
(* interleaved on one asyncio event loop.                                  *)
(*                                                                         *)
(* A step is what one task does between two suspensions.  In particular    *)
(* the whole exit path of a dispatch task, from the outcome of the send to *)
(* the resolution of the future, is one step: none of the locks it takes   *)
(* is ever held across a suspension, so taking one never suspends.         *)
(***************************************************************************)
EXTENDS Scheduler, LoadBalancer

Statuses == {200, 503}    \* upstream status codes: a success, a server error
NoInstance == 0

VARIABLES
    client,     \* ctx.source_ip of each request
    handler,    \* proxy_handler
    task,       \* dispatch_queued
    instance,   \* the instance a dispatch has selected and not yet released
    upstream    \* the streamed httpx response

vars == <<controllerVars, schedulerVars, lbVars, client, handler, task,
          instance, upstream>>

TypeOK ==
    /\ ControllerTypeOK
    /\ SchedulerTypeOK
    /\ LBTypeOK
    /\ client \in [Requests -> Clients]
    /\ handler \in [Requests -> {"new", "waiting", "answered", "timed_out",
                                 "refused_wait", "refused_full"}]
    /\ task \in [Requests -> {"none", "created", "uploading", "awaiting", "closing",
                              "finished", "raised"}]
    /\ instance \in [Requests -> Instances \union {NoInstance}]
    /\ upstream \in [Requests -> {"none", "open", "closed"}]

Init ==
    /\ ControllerInit
    /\ SchedulerInit
    /\ LBInit
    /\ client \in [Requests -> Clients]
    /\ handler = [r \in Requests |-> "new"]
    /\ task = [r \in Requests |-> "none"]
    /\ instance = [r \in Requests |-> NoInstance]
    /\ upstream = [r \in Requests |-> "none"]

-----------------------------------------------------------------------------
(* proxy_handler                                                           *)

Moves(r, from, to) == handler[r] = from /\ handler' = [handler EXCEPT ![r] = to]

(* enqueue() accepts: the handler awaits the future under wait_for.        *)
Admit(r) ==
    /\ Moves(r, "new", "waiting")
    /\ PutEntry(r)
    /\ UNCHANGED <<controllerVars, lbVars, client, task, instance, upstream>>

(* enqueue() refuses with 429, reason queue_wait_exceeded or queue_full.   *)
Refuse(r) ==
    /\ \/ WaitExceeded /\ Moves(r, "new", "refused_wait")
       \/ ~WaitExceeded /\ QueueFull /\ Moves(r, "new", "refused_full")
    /\ UNCHANGED <<controllerVars, schedulerVars, lbVars, client, task,
                   instance, upstream>>

CancelIfPending(f) == IF f = "pending" THEN "cancelled" ELSE f

(* wait_for's timer fires before the handler has resumed.  It cancels a    *)
(* pending future; a result that is already there is dropped with the      *)
(* cancelled await.  Either way the handler answers 503 queue_timeout.     *)
(* The timer and the except branch it leads to are one step: no other task *)
(* reads anything the branch writes.                                       *)
QueueTimer(r) ==
    /\ Moves(r, "waiting", "timed_out")
    /\ future' = [future EXCEPT ![r] = CancelIfPending(@)]
    /\ UNCHANGED <<controllerVars, score, queue, worker, lbVars, client,
                   task, instance, upstream>>

(* The handler resumes with the response of the dispatch.                  *)
Respond(r) ==
    /\ future[r] = "done"
    /\ Moves(r, "waiting", "answered")
    /\ UNCHANGED <<controllerVars, schedulerVars, lbVars, client, task,
                   instance, upstream>>

(* The response body has been streamed or abandoned: body() runs its       *)
(* finally clause.                                                         *)
StreamEnds(r) ==
    /\ handler[r] = "answered" /\ upstream[r] = "open"
    /\ upstream' = [upstream EXCEPT ![r] = "closed"]
    /\ UNCHANGED <<controllerVars, schedulerVars, lbVars, client, handler,
                   task, instance>>

-----------------------------------------------------------------------------
(* the worker                                                              *)

WorkerWaits ==
    /\ WaitForEntry
    /\ UNCHANGED <<lbVars, client, handler, task, instance, upstream>>

WorkerDiscards(r) ==
    /\ DiscardEntry(r)
    /\ UNCHANGED <<lbVars, client, handler, task, instance, upstream>>

WorkerDispatches(r) ==
    /\ HandOver(r)
    /\ task' = [task EXCEPT ![r] = "created"]
    /\ UNCHANGED <<lbVars, client, handler, instance, upstream>>

-----------------------------------------------------------------------------
(* dispatch_queued                                                         *)

(* The task starts: it selects an instance and connects to it, whether or  *)
(* not its request is still waiting.                                       *)
StartSend(r) ==
    /\ task[r] = "created"
    /\ task' = [task EXCEPT ![r] = "uploading"]
    /\ \E i \in Instances : /\ Select(client[r], i, limit)
                            /\ instance' = [instance EXCEPT ![r] = i]
    /\ UNCHANGED <<controllerVars, schedulerVars, client, handler, upstream>>

(* send() has connected and has read the body from request.stream(), which *)
(* it does only now: the response is awaited.                              *)
BodySent(r) ==
    /\ task[r] = "uploading"
    /\ task' = [task EXCEPT ![r] = "awaiting"]
    /\ UNCHANGED <<controllerVars, schedulerVars, lbVars, client, handler,
                   instance, upstream>>

Resolved(f) == IF f = "cancelled" THEN f ELSE "done"

InSend == {"uploading", "awaiting"}

(* What every handled outcome of the send does.                            *)
Settle(r, connectFailed, ms, status, timedOut) ==
    /\ task[r] \in InSend
    /\ ReleaseInstance(instance[r], connectFailed)
    /\ ReleaseSlot(ms, status, timedOut)
    /\ instance' = [instance EXCEPT ![r] = NoInstance]
    /\ future' = [future EXCEPT ![r] = Resolved(@)]
    /\ UNCHANGED <<score, queue, worker, client, handler>>

(* Mutant: the response is handed to a request that has given up.          *)
HeadersArriveUnclosed(r) ==
    /\ task[r] = "awaiting"
    /\ \E ms \in Latencies, status \in Statuses :
          Settle(r, FALSE, ms, status, FALSE)
    /\ upstream' = [upstream EXCEPT ![r] = "open"]
    /\ task' = [task EXCEPT ![r] = "finished"]

(* A response: a cancelled request has it closed by the task, which        *)
(* suspends in aclose().                                                   *)
HeadersArrive(r) ==
    /\ task[r] = "awaiting"
    /\ \E ms \in Latencies, status \in Statuses :
          Settle(r, FALSE, ms, status, FALSE)
    /\ upstream' = [upstream EXCEPT ![r] = "open"]
    /\ task' = [task EXCEPT ![r] =
                   IF future[r] = "cancelled" THEN "closing" ELSE "finished"]

Fails(r, connectFailed, timedOut) ==
    /\ \E ms \in Latencies : Settle(r, connectFailed, ms, 0, timedOut)
    /\ task' = [task EXCEPT ![r] = "finished"]
    /\ UNCHANGED upstream

(* ConnectError or ConnectTimeout, 502; another TimeoutException, 503; any *)
(* other HTTPError, 502.                                                   *)
ConnectFails(r)    == task[r] = "uploading" /\ Fails(r, TRUE, FALSE)
BackendTimesOut(r) == Fails(r, FALSE, TRUE)
SendBreaks(r)      == Fails(r, FALSE, FALSE)

CloseDone(r) ==
    /\ task[r] = "closing"
    /\ task' = [task EXCEPT ![r] = "finished"]
    /\ upstream' = [upstream EXCEPT ![r] = "closed"]
    /\ UNCHANGED <<controllerVars, schedulerVars, lbVars, client, handler,
                   instance>>

(* An exception outside httpx.HTTPError ends the task: request.stream()    *)
(* raises ClientDisconnect when the client leaves during its upload, and   *)
(* also when the handler has answered 503 before the body is read, since   *)
(* an answered request only receives http.disconnect.                      *)
Raise(r) ==
    /\ task[r] = "uploading"
    /\ task' = [task EXCEPT ![r] = "raised"]
    /\ UNCHANGED <<controllerVars, schedulerVars, lbVars, client, handler,
                   instance, upstream>>

-----------------------------------------------------------------------------
(* background tasks: the adaptive controller, the health loop, the clock   *)

(* Mutant: growth overshoots the maximum.                                  *)
LimitMovesOver ==
    /\ \E l \in MinLimit..MaxLimit + 1 : ChangeLimit(l)
    /\ UNCHANGED <<schedulerVars, lbVars, client, handler, task, instance,
                   upstream>>

LimitMoves ==
    /\ \E l \in MinLimit..MaxLimit : ChangeLimit(l)
    /\ UNCHANGED <<schedulerVars, lbVars, client, handler, task, instance,
                   upstream>>

BalancerTicks ==
    /\ \/ HealthTick
       \/ \E i \in Instances, ok \in BOOLEAN : ProbeDone(i, ok)
       \/ \E c \in Clients : PinExpires(c)
    /\ UNCHANGED <<controllerVars, schedulerVars, client, handler, task,
                   instance, upstream>>

-----------------------------------------------------------------------------
WorkerStep == WorkerWaits \/ \E r \in Requests : WorkerDiscards(r) \/ WorkerDispatches(r)

SendEnds(r) == \/ HeadersArrive(r) \/ ConnectFails(r) \/ BackendTimesOut(r)
               \/ SendBreaks(r) \/ Raise(r)

DispatchStep(r) == StartSend(r) \/ BodySent(r) \/ SendEnds(r) \/ CloseDone(r)

HandlerStep(r) == Admit(r) \/ Refuse(r) \/ QueueTimer(r) \/ Respond(r) \/ StreamEnds(r)

Next ==
    \/ \E r \in Requests : HandlerStep(r) \/ DispatchStep(r)
    \/ WorkerStep
    \/ LimitMoves
    \/ BalancerTicks

Spec == Init /\ [][Next]_vars

(* The event loop runs every ready task; httpx bounds every wait for the   *)
(* instance by its timeouts, and an upload ends with its body or, once the *)
(* client has left or been answered, in Raise.  Nothing is assumed of      *)
(* limit or health loop, nor that a waiting request's timer ever fires.    *)
Fairness ==
    /\ WF_vars(WorkerStep)
    /\ \A r \in Requests : WF_vars(DispatchStep(r)) /\ WF_vars(Respond(r))

FairSpec == Spec /\ Fairness
-----------------------------------------------------------------------------
(* Safety                                                                  *)

(* The requests whose dispatch task owns a slot: it has not run its exit   *)
(* path, or never will.                                                    *)
HasSlot == {"created", "uploading", "awaiting", "raised"}

Holders == {r \in Requests : task[r] \in HasSlot}

WorkerSlots == IF worker = "getting" THEN 1 ELSE 0

(* The controller's count is exactly the slots somebody owns: each of the  *)
(* outcomes dispatch_queued handles, and the discard in run_worker, gives  *)
(* back one slot, once, whatever happens to the request meanwhile; a       *)
(* dispatch that raises (Raise) remains the owner of its slot for ever.    *)
SlotAccounting == inFlight = Cardinality(Holders) + WorkerSlots

(* However the limit moves, the slots in use never exceed its range, and a *)
(* slot is never handed out above the limit of that moment (acquire(), the *)
(* over-admission bug its docstring recalls).                              *)
AdmissionBound == inFlight =< MaxLimit

NeverOverAdmits == [][inFlight' > inFlight => inFlight' =< limit']_vars

(* As many tasks have ended without their exit path as there are slots.    *)
Wedged == Cardinality({r \in Requests : task[r] = "raised"}) >= limit

(* Nobody waits for nothing: while a request waits for its dispatch, or an *)
(* entry is left that counts against new ones, some dispatch has a slot    *)
(* that its exit path will give back, or the worker has an entry to take   *)
(* and a slot for it, wherever the limit has moved and whatever else has   *)
(* been given up (run_worker and release()).                               *)
WaitersHaveProspects ==
    (\E r \in Requests : r \in queue \/ (handler[r] = "waiting" /\ task[r] = "none")) =>
       \/ \E r \in Requests : task[r] \in {"created", "uploading", "awaiting"}
       \/ queue # {} /\ MayTake
       \/ Wedged

(* The load balancer's count per instance is exactly the dispatches that   *)
(* selected it and have not reported back; the double-release clamp of     *)
(* release() is never needed.                                              *)
InstanceAccounting ==
    \A i \in Instances : lbInFlight[i] = Cardinality({r \in Requests : instance[r] = i})

(* While the slots in use are within the limit, no dispatch is sent to an  *)
(* instance beyond its fair share of that limit, pinned client or not: the *)
(* slots the controller hands out are enough to keep the balancer fair.    *)
SendsWithinFairShare ==
    [][\A r \in Requests :
          instance[r] = NoInstance /\ instance'[r] # NoInstance /\ inFlight =< limit
             => lbInFlight'[instance'[r]] =< FairShare(limit)]_vars

(* A dispatch never overtakes: when a request gets its slot, every other   *)
(* handler still waiting for one has a lower score, or the same score and  *)
(* a later arrival.                                                        *)
NoOvertaking ==
    [][\A r \in Requests : task[r] = "none" /\ task'[r] = "created" =>
          \A q \in Requests \ {r} :
             handler[q] = "waiting" /\ task[q] = "none" => Before(r, q)]_vars

(* A request that gave up in the queue is never sent to the backend.       *)
GivenUpNeverSent ==
    [][\A r \in Requests :
          future[r] = "cancelled" /\ task[r] = "none" => task'[r] = "none"]_vars

(* An open response is closed by its dispatch, which is about to, or read  *)
(* by its handler, which is streaming it or about to resume with it.       *)
Unowned(r) ==
    /\ upstream[r] = "open" /\ task[r] # "closing"
    /\ ~(handler[r] = "answered" \/ (handler[r] = "waiting" /\ future[r] = "done"))

(* A response that comes for a request that has given up during its        *)
(* dispatch is being closed by that dispatch for as long as it is open.    *)
CancelledIsClosing ==
    \A r \in Requests :
       future[r] = "cancelled" /\ upstream[r] = "open" => task[r] = "closing"

(* Nothing leaves an open response to nobody but a timer that fires        *)
(* between the set_result of dispatch_queued and the handler's resumption. *)
OnlyLateTimersLeak ==
    [][\A r \in Requests : ~Unowned(r) /\ Unowned(r)'
          => QueueTimer(r) /\ future[r] = "done"]_vars

(* Seen from its requests the backend is a priority service: the entries   *)
(* of those that gave up, the slot the worker holds in advance, instances, *)
(* a moving limit and raised dispatches change nothing in what a request   *)
(* may be told, in the order of service or in its bound.                   *)
StatusOf(r) ==
    IF handler[r] = "new" THEN "new"
    ELSE IF handler[r] \in {"refused_wait", "refused_full"} THEN "refused"
    ELSE IF handler[r] = "answered" THEN "answered"
    ELSE IF handler[r] = "waiting"
         THEN IF task[r] = "none" THEN "waiting"
              ELSE IF task[r] \in HasSlot THEN "in_service" ELSE "ready"
         ELSE IF task[r] = "none" THEN "gave_up"
              ELSE IF task[r] \in HasSlot THEN "abandoned" ELSE "missed"

Service == INSTANCE PriorityService WITH
    Capacity <- MaxLimit,
    priority <- score,
    status <- [r \in Requests |-> StatusOf(r)]

ImplementsService == Service!ServiceSpec

-----------------------------------------------------------------------------
(* Liveness, under FairSpec                                                *)

(* Slots are not lost otherwise: a waiting handler is answered even if its *)
(* timer never fires, unless its own dispatch raised or such dispatches    *)
(* hold every slot.  Requests are finitely many, and so are those that can *)
(* be served before it.  Against an endless stream of higher scores only   *)
(* the timer ends its wait: the heap neither ages nor shares               *)
(* (docs/old/requirements.md, FR-035 and section 14).                      *)
WaitersAreServed ==
    \A r \in Requests :
       handler[r] = "waiting" ~> handler[r] # "waiting" \/ task[r] = "raised" \/ Wedged

(* Refusals are temporary: the queue drains, given-up entries included, to *)
(* where the projected wait and the queue length admit again.              *)
AdmissionReopens == WaitExceeded \/ QueueFull ~> (~WaitExceeded /\ ~QueueFull) \/ Wedged

(* The response of a request that gave up during its dispatch is closed.   *)
CancelledResponseCloses ==
    \A r \in Requests :
       future[r] = "cancelled" /\ upstream[r] = "open" ~> upstream[r] = "closed"
=============================================================================
