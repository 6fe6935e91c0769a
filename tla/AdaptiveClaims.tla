--------------------------- MODULE AdaptiveClaims ---------------------------
(***************************************************************************)
(* What docs/architecture.md says of the adaptive controller and the code  *)
(* does not do.  Each is checked by a run that expects its violation.      *)
(***************************************************************************)
EXTENDS AdaptiveController

(* "p95 latency < 0.5x target -> grow by 5%, capped at max_concurrency".   *)
(* int(limit * 1.05) is the limit itself as long as the limit is below 20. *)
FastBackendsGrow ==
    [][Adjust /\ Verdict = "fast" /\ limit < MaxLimit => limit' > limit]_vars
=============================================================================
