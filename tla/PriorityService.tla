-------------------------- MODULE PriorityService --------------------------
(***************************************************************************)
(* What a backend of the proxy promises, whatever its queue, worker and    *)
(* controller do: a request is refused at once or waits; those waiting are *)
(* taken into service one at a time, best first, while fewer than Capacity *)
(* are in it; and each gets exactly one answer, its own or, if it has      *)
(* given up, none.  Backend is shown to implement this specification.      *)
(***************************************************************************)
EXTENDS Integers, FiniteSets

CONSTANTS
    Requests,   \* named by their arrival times
    Capacity    \* max_concurrency, or the limit of a fixed controller

VARIABLES
    priority,   \* the score of each request
    status      \* where each request stands

Statuses == {"new", "refused", "waiting", "gave_up", "in_service", "abandoned",
             "ready", "answered", "missed"}

ServiceInit ==
    /\ priority \in [Requests -> Int]
    /\ status = [r \in Requests |-> "new"]

Becomes(r, from, to) ==
    /\ status[r] = from
    /\ status' = [status EXCEPT ![r] = to]
    /\ UNCHANGED priority

Accept(r)  == Becomes(r, "new", "waiting")
TurnAway(r) == Becomes(r, "new", "refused")
GiveUp(r)  == Becomes(r, "waiting", "gave_up")

(* A request in service counts until its dispatch ends, even after it has  *)
(* given up.                                                               *)
InService == {r \in Requests : status[r] \in {"in_service", "abandoned"}}

(* Higher priority first, then earlier arrival.                            *)
ComesBefore(p, q) ==
    priority[p] > priority[q] \/ (priority[p] = priority[q] /\ p < q)

Serve(r) ==
    /\ Becomes(r, "waiting", "in_service")
    /\ Cardinality(InService) < Capacity
    /\ \A q \in Requests \ {r} : status[q] = "waiting" => ComesBefore(r, q)

Abandon(r) == Becomes(r, "in_service", "abandoned")

Complete(r) == Becomes(r, "in_service", "ready") \/ Becomes(r, "abandoned", "missed")

(* The request sees its response, or has given up just before.             *)
Deliver(r) == Becomes(r, "ready", "answered") \/ Becomes(r, "ready", "missed")

ServiceStep(r) ==
    \/ Accept(r) \/ TurnAway(r) \/ GiveUp(r) \/ Serve(r)
    \/ Abandon(r) \/ Complete(r) \/ Deliver(r)

(* Every such step moves its request; saying so first lets TLC dismiss the *)
(* other requests at once when it checks an implementation.                *)
ServiceNext == \E r \in Requests : status'[r] # status[r] /\ ServiceStep(r)

ServiceSpec == ServiceInit /\ [][ServiceNext]_<<priority, status>>
=============================================================================
