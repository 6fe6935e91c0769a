--------------------------- MODULE Configuration ---------------------------
(***************************************************************************)
(* app/config.py: what load_config() accepts, and what start-up makes of   *)
(* it for each backend: resolve_scoring_config(), which merges a backend's *)
(* overrides into the default penalties and base scores.                   *)
(*                                                                         *)
(* A configuration is a record of the YAML sections, with the names of the *)
(* code; a dict is a function; an absent override is an empty one.         *)
(***************************************************************************)
EXTENDS Integers, Sequences

(* _PENALTY_DIMENSIONS, in the order they are resolved and scored.         *)
Dimensions == <<"ip", "net24", "net6", "asn", "country", "user">>

DimensionNames == {Dimensions[n] : n \in DOMAIN Dimensions}

Fields == {"window_seconds", "soft_threshold", "hard_threshold",
           "soft_penalty", "hard_penalty"}

(* A list of the YAML file, whatever it is a list of.                      *)
IsList(s) == s \in Seq({s[n] : n \in DOMAIN s})

-----------------------------------------------------------------------------
(* Validation                                                              *)

(* Mutant: the order of the penalties is not validated.                    *)
IsPenaltyConfigUnordered(w) ==
    /\ Fields \subseteq DOMAIN w /\ \A f \in Fields : w[f] \in Nat
    /\ w.window_seconds > 0
    /\ w.hard_threshold >= w.soft_threshold

IsPenaltyConfig(w) ==
    /\ Fields \subseteq DOMAIN w /\ \A f \in Fields : w[f] \in Nat
    /\ w.window_seconds > 0
    /\ w.hard_threshold >= w.soft_threshold
    /\ w.hard_penalty >= w.soft_penalty

IsDefaultPenalties(p) ==
    /\ DOMAIN p = DimensionNames
    /\ \A d \in DimensionNames :
          /\ IsList(p[d]) /\ p[d] # <<>>
          /\ \A n \in DOMAIN p[d] : IsPenaltyConfig(p[d][n])

(* An override is not validated before it is merged, but for its names.    *)
IsOverride(o) == DOMAIN o.penalties \subseteq DimensionNames

(* No two backends have the same value of a field.                         *)
Unique(backends, field) ==
    \A m, n \in DOMAIN backends : backends[m][field] = backends[n][field] => m = n

(* An upstream is named once among the primaries and backups of a backend. *)
UniqueUpstreams(b) ==
    LET all == b.upstreams \o b.backup_upstreams
    IN  b.upstreams # <<>> /\ \A m, n \in DOMAIN all : all[m] = all[n] => m = n

Accepted(scoring, backends) ==
    /\ IsDefaultPenalties(scoring.default_penalties)
    /\ backends # <<>>
    /\ \A n \in DOMAIN backends :
          IsOverride(backends[n].overrides) /\ UniqueUpstreams(backends[n])
    /\ Unique(backends, "name") /\ Unique(backends, "path_prefix")

-----------------------------------------------------------------------------
(* resolve_scoring_config                                                  *)

(* {**base, **over}                                                        *)
Merge(base, over) ==
    [f \in DOMAIN base \union DOMAIN over |-> IF f \in DOMAIN over THEN over[f] ELSE base[f]]

(* An override is of the first window of its dimension.                    *)
MergeFirst(windows, o) ==
    [n \in DOMAIN windows |-> IF n = 1 THEN Merge(windows[1], o) ELSE windows[n]]

OverrideOf(b, d) ==
    IF d \in DOMAIN b.overrides.penalties THEN b.overrides.penalties[d] ELSE <<>>

(* What the n-th backend is scored by: its overrides are merged into a     *)
(* dump of the defaults made for the call.                                 *)
Resolved(scoring, backends, n) ==
    [base_scores |-> Merge(scoring.base_scores, backends[n].overrides.base_scores),
     exempt_countries |-> scoring.exempt_countries,
     score_clamp |-> scoring.score_clamp,
     penalties |-> [d \in DimensionNames |->
                       MergeFirst(scoring.default_penalties[d], OverrideOf(backends[n], d))]]

(* The merged windows are validated anew: a backend whose overrides break  *)
(* their order ends the start-up.                                          *)
StartsUp(scoring, backends) ==
    \A n \in DOMAIN backends : IsDefaultPenalties(Resolved(scoring, backends, n).penalties)

-----------------------------------------------------------------------------
(* _step_penalty of app/scoring.py                                         *)

StepPenalty(hits, w) ==
    IF hits >= w.hard_threshold THEN w.hard_penalty
    ELSE IF hits >= w.soft_threshold THEN w.soft_penalty ELSE 0

-----------------------------------------------------------------------------
(* What the configuration of a running process guarantees                  *)

(* Whatever is overridden, more requests never cost less.                  *)
MonotonePolicy(scoring, backends, maxHits) ==
    \A n \in DOMAIN backends, d \in DimensionNames :
       LET windows == Resolved(scoring, backends, n).penalties[d]
       IN  \A k \in DOMAIN windows, hits \in 0..(maxHits - 1) :
              StepPenalty(hits, windows[k]) =< StepPenalty(hits + 1, windows[k])
=============================================================================
