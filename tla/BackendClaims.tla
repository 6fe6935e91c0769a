--------------------------- MODULE BackendClaims ---------------------------
(***************************************************************************)
(* What the repository's documents, docstrings and tests say of a backend  *)
(* and the code does not do.  Each is checked by a run that expects its    *)
(* violation; Backend.tla states what holds instead.                       *)
(***************************************************************************)
EXTENDS Backend

(* dispatch_queued's docstring: "Always releases the slot".  A request     *)
(* that is answered by its queue timer before its body has been read makes *)
(* request.stream() raise in its dispatch, which then ends with the slot   *)
(* still counted, although nobody has misbehaved: the queue was slow.      *)
LateDispatchesReleaseSlots ==
    [][\A r \in Requests :
          handler[r] = "timed_out" /\ task[r] \in InSend /\ task'[r] \notin InSend
             => inFlight' < inFlight]_vars

(* dispatch_queued's docstring: when the request gave up first, an already *)
(* open upstream response is closed.  The timer may also fire between      *)
(* set_result and the handler's resumption; the future is then done, not   *)
(* cancelled, and nobody closes the response.                              *)
GivenUpResponsesAreClosed ==
    \A r \in Requests :
       handler[r] = "timed_out" /\ upstream[r] = "open" => task[r] = "closing"
=============================================================================
