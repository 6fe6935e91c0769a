---------------------------- MODULE LoadBalancer ----------------------------
(***************************************************************************)
(* LeastLoadedLoadBalancer of app/load_balancer.py: which instance of a    *)
(* backend serves a request that already holds a slot.  Instances are      *)
(* numbered in configuration order, primaries first, which is also the     *)
(* order of the dictionaries min() and the health loop iterate over.       *)
(*                                                                         *)
(* asyncio.Lock sections contain no suspension, so select() and release()  *)
(* are single steps.  The health loop suspends in each probe.  Time is     *)
(* abstract: a client joins `stale' when its pin outlives the TTL.         *)
(***************************************************************************)
EXTENDS Integers, FiniteSets

CONSTANTS
    NumPrimaries, NumBackups,   \* len(urls), len(backup_urls)
    Clients,                    \* source IPs, and unknown ones
    StickyClients               \* those with a sticky_key: with sticky_enabled,
                                \* the clients whose source_ip is known

ASSUME LoadBalancerAssumption ==
    /\ NumPrimaries \in Nat \ {0} /\ NumBackups \in Nat
    /\ StickyClients \subseteq Clients

Primaries == 1..NumPrimaries
Backups   == (NumPrimaries + 1)..(NumPrimaries + NumBackups)
Instances == Primaries \union Backups
NoPin     == 0

VARIABLES
    lbInFlight,   \* _in_flight per instance
    healthy,      \* _healthy per instance
    pin,          \* _sticky: client -> instance, NoPin if it has no entry
    stale,        \* clients whose entry is older than the TTL
    toProbe       \* down instances health_check_loop has still to probe

lbVars == <<lbInFlight, healthy, pin, stale, toProbe>>

LBTypeOK ==
    /\ lbInFlight \in [Instances -> Nat]
    /\ healthy \in [Instances -> BOOLEAN]
    /\ pin \in [Clients -> Instances \union {NoPin}]
    /\ stale \in SUBSET Clients
    /\ toProbe \in SUBSET Instances

LBInit ==
    /\ lbInFlight = [i \in Instances |-> 0]
    /\ healthy = [i \in Instances |-> TRUE]
    /\ pin = [c \in Clients |-> NoPin]
    /\ stale = {}
    /\ toProbe = {}

-----------------------------------------------------------------------------
(* select()                                                                *)

Up(S) == {i \in S : healthy[i]}

(* Mutant: backups are ordinary members of the pool.                       *)
ActivePoolAnyHealthy == IF Up(Instances) # {} THEN Up(Instances) ELSE Instances

(* Mutant: with nothing healthy there is no candidate.                     *)
ActivePoolFailsClosed == IF Up(Primaries) # {} THEN Up(Primaries) ELSE Up(Backups)

(* Healthy primaries, else healthy backups, else everything (fail open).   *)
ActivePool ==
    IF Up(Primaries) # {} THEN Up(Primaries)
    ELSE IF Up(Backups) # {} THEN Up(Backups)
    ELSE Instances

(* ceil(limit / number of candidates)                                      *)
FairShare(limitNow) ==
    (limitNow + Cardinality(ActivePool) - 1) \div Cardinality(ActivePool)

(* Mutant: a pin survives one request too many.                            *)
ShouldEvictPinLate(i, limitNow) ==
    /\ lbInFlight[i] > FairShare(limitNow)
    /\ \E j \in ActivePool \ {i} : lbInFlight[j] < FairShare(limitNow)

ShouldEvictPin(i, limitNow) ==
    /\ lbInFlight[i] >= FairShare(limitNow)
    /\ \E j \in ActivePool \ {i} : lbInFlight[j] < FairShare(limitNow)

(* Mutant: a pinned instance is kept when it has left the pool.            *)
PinHoldsAnywhere(c, limitNow) ==
    /\ c \in StickyClients
    /\ pin[c] # NoPin
    /\ c \notin stale
    /\ ~ShouldEvictPin(pin[c], limitNow)

PinHolds(c, limitNow) ==
    /\ c \in StickyClients
    /\ pin[c] \in ActivePool
    /\ c \notin stale
    /\ ~ShouldEvictPin(pin[c], limitNow)

LeastLoaded(i) ==
    /\ i \in ActivePool
    /\ \A j \in ActivePool \ {i} :
          \/ lbInFlight[i] < lbInFlight[j]
          \/ lbInFlight[i] = lbInFlight[j] /\ i < j

Chosen(c, i, limitNow) ==
    IF PinHolds(c, limitNow) THEN i = pin[c] ELSE LeastLoaded(i)

Select(c, i, limitNow) ==
    /\ Chosen(c, i, limitNow)
    /\ lbInFlight' = [lbInFlight EXCEPT ![i] = @ + 1]
    /\ pin' = IF c \in StickyClients THEN [pin EXCEPT ![c] = i] ELSE pin
    /\ stale' = stale \ {c}
    /\ UNCHANGED <<healthy, toProbe>>

-----------------------------------------------------------------------------
(* Mutants: a failed connect is not counted out, or counted out twice.     *)
ReleaseInstanceUnlessFailed(i, connectFailed) ==
    /\ lbInFlight' = [lbInFlight EXCEPT ![i] = IF connectFailed THEN @ ELSE @ - 1]
    /\ healthy' = [healthy EXCEPT ![i] = @ /\ ~connectFailed]
    /\ UNCHANGED <<pin, stale, toProbe>>

ReleaseInstanceTwice(i, connectFailed) ==
    /\ lbInFlight' = [lbInFlight EXCEPT ![i] = IF connectFailed THEN @ - 2 ELSE @ - 1]
    /\ healthy' = [healthy EXCEPT ![i] = @ /\ ~connectFailed]
    /\ UNCHANGED <<pin, stale, toProbe>>

(* release(): a double release leaves the count at zero.                   *)
ReleaseInstance(i, connectFailed) ==
    /\ lbInFlight' = [lbInFlight EXCEPT ![i] = IF @ > 0 THEN @ - 1 ELSE @]
    /\ healthy' = [healthy EXCEPT ![i] = @ /\ ~connectFailed]
    /\ UNCHANGED <<pin, stale, toProbe>>

-----------------------------------------------------------------------------
(* health_check_loop                                                       *)

Down == {i \in Instances : ~healthy[i]}

SweepExpired ==
    /\ pin' = [c \in Clients |-> IF c \in stale THEN NoPin ELSE pin[c]]
    /\ stale' = {}

(* The interval has elapsed: take the list of down instances.  With none   *)
(* to probe the sweep follows in the same step.                            *)
HealthTick ==
    /\ toProbe = {}
    /\ toProbe' = Down
    /\ IF Down = {} THEN SweepExpired ELSE UNCHANGED <<pin, stale>>
    /\ UNCHANGED <<lbInFlight, healthy>>

(* Mutants: a failed probe ends the round; the sweep is forgotten after a  *)
(* round that had something to probe.                                      *)
ProbeDoneStopsAtFailure(i, ok) ==
    /\ i \in toProbe /\ \A j \in toProbe : i =< j
    /\ healthy' = [healthy EXCEPT ![i] = @ \/ ok]
    /\ toProbe' = IF ok THEN toProbe \ {i} ELSE {}
    /\ IF toProbe' = {} THEN SweepExpired ELSE UNCHANGED <<pin, stale>>
    /\ UNCHANGED lbInFlight

ProbeDoneWithoutSweep(i, ok) ==
    /\ i \in toProbe /\ \A j \in toProbe : i =< j
    /\ healthy' = [healthy EXCEPT ![i] = @ \/ ok]
    /\ toProbe' = toProbe \ {i}
    /\ UNCHANGED <<lbInFlight, pin, stale>>

(* The TCP connect to the next instance of the list succeeds or fails; the *)
(* sweep follows the last one.                                             *)
ProbeDone(i, ok) ==
    /\ i \in toProbe /\ \A j \in toProbe : i =< j
    /\ healthy' = [healthy EXCEPT ![i] = @ \/ ok]
    /\ toProbe' = toProbe \ {i}
    /\ IF toProbe' = {} THEN SweepExpired ELSE UNCHANGED <<pin, stale>>
    /\ UNCHANGED lbInFlight

(* More than sticky_ttl_seconds have passed since the client's last use.   *)
PinExpires(c) ==
    /\ pin[c] # NoPin /\ c \notin stale
    /\ stale' = stale \union {c}
    /\ UNCHANGED <<lbInFlight, healthy, pin, toProbe>>
=============================================================================
