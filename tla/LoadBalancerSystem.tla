------------------------- MODULE LoadBalancerSystem -------------------------
(***************************************************************************)
(* The load balancer against instances that go down and come back, under a *)
(* limit that moves.  The dispatches of Backend are reduced to what the    *)
(* balancer sees of them: each is a select() and later a release().        *)
(***************************************************************************)
EXTENDS LoadBalancer

CONSTANTS
    Dispatches,   \* dispatch tasks that may run at the same time
    MaxLimit      \* the controller's limit moves in 1..MaxLimit

ASSUME SystemAssumption == IsFiniteSet(Dispatches) /\ MaxLimit \in Nat \ {0}

VARIABLES
    up,         \* environment: do connects to the instance succeed?
    limit,      \* capacity_hint(): the controller's limit
    selected,   \* the instance each running dispatch holds, 0 for none
    refused     \* running dispatches whose connect has failed, unreported yet

vars == <<lbVars, up, limit, selected, refused>>

TypeOK ==
    /\ LBTypeOK
    /\ up \in [Instances -> BOOLEAN]
    /\ limit \in 1..MaxLimit
    /\ selected \in [Dispatches -> Instances \union {0}]
    /\ refused \in SUBSET Dispatches

Init ==
    /\ LBInit
    /\ up \in [Instances -> BOOLEAN]
    /\ limit \in 1..MaxLimit
    /\ selected = [d \in Dispatches |-> 0]
    /\ refused = {}

StartDispatch(d, c) ==
    /\ selected[d] = 0
    /\ \E i \in Instances : /\ Select(c, i, limit)
                            /\ selected' = [selected EXCEPT ![d] = i]
    /\ UNCHANGED <<up, limit, refused>>

(* An instance that is down refuses the connect, or lets it time out.      *)
ConnectFails(d) ==
    /\ selected[d] # 0 /\ d \notin refused
    /\ ~up[selected[d]]
    /\ refused' = refused \union {d}
    /\ UNCHANGED <<lbVars, up, limit, selected>>

(* The dispatch ends and reports how its connect went, which may long have *)
(* ceased to be so.                                                        *)
EndDispatch(d) ==
    /\ selected[d] # 0
    /\ ReleaseInstance(selected[d], d \in refused)
    /\ selected' = [selected EXCEPT ![d] = 0]
    /\ refused' = refused \ {d}
    /\ UNCHANGED <<up, limit>>

Tick  == HealthTick /\ UNCHANGED <<up, limit, selected, refused>>
Probe == (\E i \in Instances : ProbeDone(i, up[i])) /\ UNCHANGED <<up, limit, selected, refused>>
Ages  == (\E c \in Clients : PinExpires(c)) /\ UNCHANGED <<up, limit, selected, refused>>

(* An instance crashes or is back.                                         *)
Flip(i) == up' = [up EXCEPT ![i] = ~@] /\ UNCHANGED <<lbVars, limit, selected, refused>>

(* The controller moves its limit, below the dispatches in flight as well. *)
LimitMoves ==
    /\ \E l \in (1..MaxLimit) \ {limit} : limit' = l
    /\ UNCHANGED <<lbVars, up, selected, refused>>

Next ==
    \/ \E d \in Dispatches, c \in Clients : StartDispatch(d, c)
    \/ \E d \in Dispatches : ConnectFails(d) \/ EndDispatch(d)
    \/ Tick \/ Probe \/ Ages
    \/ \E i \in Instances : Flip(i)
    \/ LimitMoves

(* health_check_loop keeps running: its sleep and each probe are bounded.  *)
(* Nothing is assumed of the instances or of the traffic.                  *)
Spec == Init /\ [][Next]_vars /\ WF_vars(Tick) /\ WF_vars(Probe)

-----------------------------------------------------------------------------
(* The list of a probing round is never out of date: only a probe brings   *)
(* an instance back, so what is still to be probed is still down.          *)
ProbedAreDown == toProbe \subseteq Down

(* select() always has an instance to return, and one only, whatever is    *)
(* down, pinned or expired: min() never meets an empty pool, whose         *)
(* exception would take the slot of the dispatch with it.                  *)
SelectionIsTotal ==
    \A c \in Clients : \E i \in Instances :
       \A j \in Instances : Chosen(c, j, limit) <=> j = i

(* A backup serves only while no primary is in rotation, an instance out   *)
(* of rotation only while all are, pinned clients included.                *)
SelectsBestTier ==
    [][\A d \in Dispatches : selected[d] = 0 /\ selected'[d] # 0 =>
          /\ selected'[d] \in Backups => Up(Primaries) = {}
          /\ selected'[d] \in Down => Up(Instances) = {}]_vars

(* How many steps of health_check_loop are left until it sweeps the pins,  *)
(* at most, and until it probes i.                                         *)
RoundLeft == IF toProbe = {} THEN Cardinality(Instances) + 1 ELSE Cardinality(toProbe)

Turn(i) ==
    IF i \in toProbe THEN Cardinality({j \in toProbe : j =< i})
                     ELSE Cardinality(toProbe) + Cardinality(Instances) + 1

(* The loop gets to every instance out of rotation, however many others it *)
(* has to probe first and whether or not they answer: each of its steps    *)
(* brings the turn of i nearer or puts it back in rotation, and no failure *)
(* reported meanwhile moves it away.                                       *)
ProbesReachEveryone ==
    [][\A i \in Instances : ~healthy[i] /\ up[i] =>
          IF Tick \/ Probe THEN healthy'[i] \/ Turn(i)' < Turn(i)
                           ELSE Turn(i)' = Turn(i)]_vars

(* And it gets to the sweep: each of its steps drops the expired pins or   *)
(* brings the end of the round nearer, even if probes keep failing.        *)
SweepsComeRound ==
    [][\A c \in stale :
          IF Tick \/ Probe THEN c \notin stale' \/ RoundLeft' < RoundLeft
                           ELSE RoundLeft' = RoundLeft]_vars

(* Stickiness never overloads an instance: while the dispatches are within *)
(* the limit, the instance select() returns ends up with at most its fair  *)
(* share of that limit, pinned client or not, outages included.            *)
Running == {d \in Dispatches : selected[d] # 0}

SelectionWithinFairShare ==
    [][\A d \in Dispatches :
          selected[d] = 0 /\ selected'[d] # 0 /\ Cardinality(Running') =< limit
             => lbInFlight'[selected'[d]] =< FairShare(limit)]_vars

(* An instance that stays up is eventually in rotation for good, however   *)
(* late failures of the time it was down are reported: after it is back,   *)
(* or after a probe has put it back in rotation already.                   *)
InstancesRecover == \A i \in Instances : <>[]up[i] => <>[]healthy[i]

(* Once some primary stays up, traffic is back on primaries for good: the  *)
(* pool shrinks to primaries and clients pinned to a backup leave it.      *)
TrafficFailsBack ==
    (\E p \in Primaries : <>[]up[p]) =>
       <>[][\A d \in Dispatches : selected[d] = 0 => selected'[d] \notin Backups]_vars

(* Pins are not remembered for ever: an expired one is refreshed or        *)
(* dropped, even while some instance stays down and every round probes it. *)
ExpiredPinsGo == \A c \in Clients : c \in stale ~> c \notin stale
=============================================================================
