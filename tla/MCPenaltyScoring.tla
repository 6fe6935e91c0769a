-------------------------- MODULE MCPenaltyScoring --------------------------
(***************************************************************************)
(* Two clients of one network and one backend, one of them exempt, and one *)
(* of whom nothing is known; two backends, of which the first overrides    *)
(* what the second keeps.                                                  *)
(***************************************************************************)
EXTENDS PenaltyScoring, TLC

Window(seconds, soft, hard, softPenalty, hardPenalty) ==
    [window_seconds |-> seconds, soft_threshold |-> soft, hard_threshold |-> hard,
     soft_penalty |-> softPenalty, hard_penalty |-> hardPenalty]

MCScoring ==
    [base_scores |-> [anonymous |-> 9],
     exempt_countries |-> {"PT"},
     score_clamp |-> [min_score |-> 2, max_score |-> 10],
     default_penalties |->
        [d \in DimensionNames |->
            IF d = "net24" THEN <<Window(2, 1, 2, 2, 4)>> ELSE <<Window(1, 1, 2, 2, 4)>>]]

NoOverrides == [penalties |-> <<>>, base_scores |-> <<>>]

Override(d, o) == [penalties |-> (d :> o), base_scores |-> <<>>]

Backend(name, overrides) ==
    [name |-> name, path_prefix |-> <<name>>, upstreams |-> <<name>>,
     backup_upstreams |-> <<>>, overrides |-> overrides]

MCBackends ==
    <<Backend("a", Override("ip", [hard_penalty |-> 6])),
      Backend("b", [NoOverrides EXCEPT !.base_scores = [anonymous |-> 8]])>>

(* Any of the fields of the first ip window, to values of either side of   *)
(* those they are compared with; or none of another dimension.             *)
MCOverrides ==
    {NoOverrides, Override("asn", [soft_penalty |-> 3])} \union
    {Override("ip", o) : o \in UNION {[fs -> {1, 5}] : fs \in SUBSET (Fields \ {"window_seconds"})}}

NoValues == [d \in DimensionNames |-> NoValue]

MCContextOf ==
    [local  |-> [backend |-> 2, user_class |-> "anonymous",
                 values |-> [NoValues EXCEPT !["ip"] = "1", !["net24"] = "9", !["country"] = "PT"]],
     remote |-> [backend |-> 2, user_class |-> "anonymous",
                 values |-> [NoValues EXCEPT !["ip"] = "2", !["net24"] = "9"]],
     unknown |-> [backend |-> 2, user_class |-> "anonymous", values |-> NoValues]]

MCClients == DOMAIN MCContextOf
=============================================================================
