---------------------- MODULE LoadBalancerSystemProofs ----------------------
(***************************************************************************)
(* LoadBalancerSystem for any number of instances, clients and dispatches  *)
(* and any limits: its types, that select() returns one instance of the    *)
(* best tier that is up, that the health loop probes whom it owes a probe, *)
(* and that stickiness overloads no instance.                              *)
(*                                                                         *)
(* The last rests on the invariant that the balancer counts what the       *)
(* dispatches hold.  If every candidate had its fair share already, the    *)
(* dispatches in flight would be at least as many as the limit             *)
(* (FullPlaces, ShareCovers); so one of them is below its share, and both  *)
(* a kept pin and the least loaded candidate are.                          *)
(***************************************************************************)
EXTENDS LoadBalancerSystem, LoadBalancerProofs, TotalTheorems

Holding(i) == {d \in Dispatches : selected[d] = i}

Counted == \A i \in Instances : lbInFlight[i] = Cardinality(Holding(i))

SystemInv == TypeOK /\ ProbedAreDown /\ Counted

LEMMA NoneIsNoInstance == 0 \notin Instances /\ Instances \subseteq Nat
  BY LoadBalancerAssumption DEF Instances, Primaries, Backups

LEMMA HoldingFinite ==
    ASSUME NEW i
    PROVE  IsFiniteSet(Holding(i)) /\ Cardinality(Holding(i)) \in Nat
  <1>1. IsFiniteSet(Holding(i))
    BY SystemAssumption, FS_Subset DEF Holding
  <1> QED BY <1>1, FS_CardinalityType

-----------------------------------------------------------------------------
(* The inductive invariant                                                 *)

LEMMA InitInv == Init => SystemInv
  <1> SUFFICES ASSUME Init PROVE SystemInv
    OBVIOUS
  <1>1. TypeOK
    BY DEF Init, TypeOK, LBInit, LBTypeOK, NoPin
  <1>2. ProbedAreDown
    BY DEF Init, LBInit, ProbedAreDown
  <1>3. ASSUME NEW i \in Instances
        PROVE  lbInFlight[i] = Cardinality(Holding(i))
    <2>1. Holding(i) = {}
      BY NoneIsNoInstance DEF Init, Holding
    <2> QED BY <2>1, FS_EmptySet DEF Init, LBInit
  <1> QED BY <1>1, <1>2, <1>3 DEF SystemInv, Counted

(* select() counts the dispatch at the instance it gets, and nowhere else. *)
LEMMA StartKeepsInv ==
    ASSUME SystemInv, NEW d \in Dispatches, NEW c \in Clients, StartDispatch(d, c)
    PROVE  SystemInv'
  <1> USE DEF SystemInv, TypeOK
  <1>1. PICK i \in Instances : Select(c, i, limit) /\ selected' = [selected EXCEPT ![d] = i]
    BY DEF StartDispatch
  <1>2. TypeOK'
    BY <1>1, SelectKeepsType DEF StartDispatch
  <1>3. ProbedAreDown'
    BY <1>1 DEF Select, ProbedAreDown, Down
  <1>4. ASSUME NEW j \in Instances
        PROVE  lbInFlight'[j] = Cardinality(Holding(j)')
    <2>1. selected[d] = 0
      BY DEF StartDispatch
    <2>2. lbInFlight' = [lbInFlight EXCEPT ![i] = @ + 1] /\ lbInFlight \in [Instances -> Nat]
      BY <1>1 DEF Select, LBTypeOK
    <2>3. CASE j = i
      <3>1. Holding(j)' = Holding(j) \union {d} /\ d \notin Holding(j)
        BY <1>1, <2>1, <2>3, NoneIsNoInstance DEF Holding
      <3>2. Cardinality(Holding(j)') = Cardinality(Holding(j)) + 1
        BY <3>1, HoldingFinite, FS_AddElement
      <3> QED BY <2>2, <2>3, <3>2 DEF Counted
    <2>4. CASE j # i
      <3>1. Holding(j)' = Holding(j)
        BY <1>1, <2>1, <2>4, NoneIsNoInstance DEF Holding
      <3> QED BY <2>2, <2>4, <3>1 DEF Counted
    <2> QED BY <2>3, <2>4
  <1> QED BY <1>2, <1>3, <1>4 DEF Counted

(* release() counts it out where it was, so the clamp is never taken.      *)
LEMMA EndKeepsInv ==
    ASSUME SystemInv, NEW d \in Dispatches, EndDispatch(d)
    PROVE  SystemInv'
  <1> USE DEF SystemInv, TypeOK
  <1> DEFINE i == selected[d]
  <1>1. i \in Instances /\ ReleaseInstance(i, d \in refused) /\ selected' = [selected EXCEPT ![d] = 0]
    BY DEF EndDispatch
  <1>2. TypeOK'
    <2>1. (d \in refused) \in BOOLEAN
      OBVIOUS
    <2>2. LBTypeOK'
      BY <1>1, <2>1, ReleaseInstanceKeepsType
    <2>3. /\ UNCHANGED <<up, limit>> /\ refused' \in SUBSET Dispatches
          /\ selected' \in [Dispatches -> Instances \union {0}]
      BY <1>1 DEF EndDispatch
    <2> QED BY <2>2, <2>3
  <1>3. ProbedAreDown'
    BY <1>1 DEF ReleaseInstance, ProbedAreDown, Down, LBTypeOK
  <1>4. ASSUME NEW j \in Instances
        PROVE  lbInFlight'[j] = Cardinality(Holding(j)')
    <2>1. /\ lbInFlight' = [lbInFlight EXCEPT ![i] = IF @ > 0 THEN @ - 1 ELSE @]
          /\ lbInFlight \in [Instances -> Nat]
      BY <1>1 DEF ReleaseInstance, LBTypeOK
    <2>2. CASE j = i
      <3>1. Holding(j)' = Holding(j) \ {d} /\ d \in Holding(j)
        BY <1>1, <2>2, NoneIsNoInstance DEF Holding
      <3>2. Cardinality(Holding(j)') = Cardinality(Holding(j)) - 1
        BY <3>1, HoldingFinite, FS_RemoveElement
      <3>3. Cardinality(Holding(j)') \in Nat
        BY <3>1, HoldingFinite, FS_RemoveElement, FS_CardinalityType
      <3> QED BY <2>1, <2>2, <3>2, <3>3 DEF Counted
    <2>3. CASE j # i
      <3>1. Holding(j)' = Holding(j)
        BY <1>1, <2>3, NoneIsNoInstance DEF Holding
      <3> QED BY <2>1, <2>3, <3>1 DEF Counted
    <2> QED BY <2>2, <2>3
  <1> QED BY <1>2, <1>3, <1>4 DEF Counted

(* The steps of the health loop, of the environment and of the controller  *)
(* move no dispatch; only a probe of a listed instance brings one back.    *)
LEMMA OthersKeepInv ==
    ASSUME SystemInv,
           \/ Tick \/ Probe \/ Ages \/ LimitMoves \/ UNCHANGED vars
           \/ \E i \in Instances : Flip(i)
           \/ \E d \in Dispatches : ConnectFails(d)
    PROVE  SystemInv'
  <1> USE DEF SystemInv, TypeOK
  <1>1. UNCHANGED <<lbInFlight, selected>>
    BY DEF Tick, HealthTick, Probe, ProbeDone, Ages, PinExpires, LimitMoves, Flip,
           ConnectFails, vars, lbVars
  <1>2. Counted'
    BY <1>1 DEF Counted, Holding
  <1>3. CASE Tick
    BY <1>2, <1>3, HealthTickKeepsType DEF Tick, HealthTick, ProbedAreDown, Down
  <1>4. CASE Probe
    <2>1. PICK i \in Instances : ProbeDone(i, up[i])
      BY <1>4 DEF Probe
    <2>2. up[i] \in BOOLEAN
      OBVIOUS
    <2>3. TypeOK'
      BY <1>4, <2>1, <2>2, ProbeKeepsType DEF Probe
    <2>4. ProbedAreDown'
      BY <2>1 DEF ProbeDone, ProbedAreDown, Down, LBTypeOK
    <2> QED BY <1>2, <2>3, <2>4
  <1>5. CASE Ages
    BY <1>2, <1>5, PinExpiresKeepsType DEF Ages, PinExpires, ProbedAreDown, Down
  <1>6. ASSUME NEW i \in Instances, Flip(i)
        PROVE  SystemInv'
    <2>1. up' \in [Instances -> BOOLEAN]
      BY <1>6 DEF Flip
    <2> QED BY <1>2, <1>6, <2>1 DEF Flip, lbVars, LBTypeOK, ProbedAreDown, Down
  <1>7. CASE LimitMoves \/ UNCHANGED vars
    BY <1>2, <1>7 DEF LimitMoves, vars, lbVars, LBTypeOK, ProbedAreDown, Down
  <1>8. ASSUME NEW d \in Dispatches, ConnectFails(d)
        PROVE  SystemInv'
    BY <1>2, <1>8 DEF ConnectFails, lbVars, LBTypeOK, ProbedAreDown, Down
  <1> QED BY <1>3, <1>4, <1>5, <1>6, <1>7, <1>8

LEMMA StepKeepsInv == SystemInv /\ [Next]_vars => SystemInv'
  BY StartKeepsInv, EndKeepsInv, OthersKeepInv DEF Next

LEMMA AlwaysInv == Spec => []SystemInv
  BY InitInv, StepKeepsInv, PTL DEF Spec

-----------------------------------------------------------------------------
(* Instances, pins and probes keep their types.                            *)
THEOREM SystemTypes == Spec => []TypeOK
  BY AlwaysInv, PTL DEF SystemInv

(* What health_check_loop has still to probe of a round is still down.     *)
THEOREM RoundsAreCurrent == Spec => []ProbedAreDown
  BY AlwaysInv, PTL DEF SystemInv

-----------------------------------------------------------------------------
(* What select() returns                                                   *)

(* Only select() gives a dispatch an instance.                             *)
LEMMA OnlyStartSelects ==
    ASSUME SystemInv, [Next]_vars, NEW d \in Dispatches, selected[d] = 0, selected'[d] # 0
    PROVE  \E c \in Clients : StartDispatch(d, c)
  <1> USE DEF SystemInv, TypeOK
  <1>1. ASSUME NEW e \in Dispatches, ConnectFails(e) \/ EndDispatch(e)
        PROVE  selected'[d] = 0
    BY <1>1 DEF ConnectFails, EndDispatch
  <1>2. ASSUME NEW e \in Dispatches, NEW c \in Clients, StartDispatch(e, c)
        PROVE  e = d
    BY <1>2 DEF StartDispatch
  <1>3. ~(\/ Tick \/ Probe \/ Ages \/ LimitMoves \/ UNCHANGED vars
          \/ \E i \in Instances : Flip(i))
    BY DEF Tick, Probe, Ages, LimitMoves, Flip, vars
  <1> QED BY <1>1, <1>2, <1>3 DEF Next

(* Among candidates there is one least loaded, the first of its load.      *)
LEMMA OneIsLeastLoaded ==
    ASSUME LBTypeOK
    PROVE  \E i \in ActivePool : \A j \in ActivePool : LeastLoaded(j) <=> j = i
  <1> DEFINE P == ActivePool
             Beats(i, j) == \/ lbInFlight[i] < lbInFlight[j]
                            \/ lbInFlight[i] = lbInFlight[j] /\ i < j
             R == {p \in P \X P : Beats(p[1], p[2])}
  <1>1. IsFiniteSet(P) /\ P # {} /\ \A i \in P : i \in Nat /\ lbInFlight[i] \in Nat
    BY PoolType, NoneIsNoInstance, FS_EmptySet DEF LBTypeOK
  <1>2. \A i, j \in P : <<i, j>> \in R <=> Beats(i, j)
    OBVIOUS
  <1>3. \A i \in P : LeastLoaded(i) <=> \A j \in P \ {i} : Beats(i, j)
    BY DEF LeastLoaded
  <1> HIDE DEF P, R
  <1>4. StrictlyOrders(R, P)
    <2>1. \A i \in P : <<i, i>> \notin R
      BY <1>1, <1>2
    <2>2. ASSUME NEW i \in P, NEW j \in P, NEW k \in P, Beats(i, j), Beats(j, k)
          PROVE  Beats(i, k)
      BY <1>1, <2>2
    <2> QED BY <1>2, <2>1, <2>2 DEF StrictlyOrders
  <1>5. PICK i \in P : \A j \in P : <<j, i>> \notin R
    BY <1>1, <1>4, FiniteHasFirst
  <1>6. LeastLoaded(i)
    <2>1. ASSUME NEW j \in P \ {i}
          PROVE  Beats(i, j)
      <3>1. ~Beats(j, i)
        BY <1>2, <1>5
      <3>2. /\ i \in Nat /\ j \in Nat /\ i # j
            /\ lbInFlight[i] \in Nat /\ lbInFlight[j] \in Nat
        BY <1>1
      <3> QED BY <3>1, <3>2
    <2> HIDE DEF Beats
    <2> QED BY <1>3, <2>1
  <1>7. ASSUME NEW j \in P, LeastLoaded(j)
        PROVE  j = i
    BY <1>2, <1>3, <1>5, <1>7
  <1> QED BY <1>6, <1>7 DEF P

(* select() always returns an instance, and one only.                      *)
THEOREM SelectAlwaysReturns == Spec => []SelectionIsTotal
  <1>1. ASSUME SystemInv, NEW c \in Clients
        PROVE  \E i \in Instances : \A j \in Instances : Chosen(c, j, limit) <=> j = i
    <2>1. CASE PinHolds(c, limit)
      BY <2>1, PoolType DEF Chosen, PinHolds
    <2>2. CASE ~PinHolds(c, limit)
      <3>1. PICK i \in ActivePool : \A j \in ActivePool : LeastLoaded(j) <=> j = i
        BY <1>1, OneIsLeastLoaded DEF SystemInv, TypeOK
      <3>2. \A j \in Instances : LeastLoaded(j) <=> j = i
        BY <3>1 DEF LeastLoaded
      <3> QED BY <2>2, <3>1, <3>2, PoolType DEF Chosen
    <2> QED BY <2>1, <2>2
  <1>2. SystemInv => SelectionIsTotal
    BY <1>1 DEF SelectionIsTotal
  <1> QED BY <1>2, AlwaysInv, PTL

(* Backups, and instances out of rotation, serve only when nothing better  *)
(* is there: a pin does not outlive its instance's place in the pool.      *)
THEOREM BackupsOnlyStandIn == Spec => SelectsBestTier
  <1> DEFINE Best == \A d \in Dispatches : selected[d] = 0 /\ selected'[d] # 0 =>
                        /\ selected'[d] \in Backups => Up(Primaries) = {}
                        /\ selected'[d] \in Down => Up(Instances) = {}
  <1>1. SystemInv /\ [Next]_vars => Best
    <2> SUFFICES ASSUME SystemInv, [Next]_vars,
                        NEW d \in Dispatches, selected[d] = 0, selected'[d] # 0
                 PROVE  /\ selected'[d] \in Backups => Up(Primaries) = {}
                        /\ selected'[d] \in Down => Up(Instances) = {}
      OBVIOUS
    <2>1. PICK c \in Clients : StartDispatch(d, c)
      BY OnlyStartSelects
    <2>2. PICK i \in Instances : Select(c, i, limit) /\ selected' = [selected EXCEPT ![d] = i]
      BY <2>1 DEF StartDispatch
    <2>3. selected'[d] = i
      BY <2>2 DEF SystemInv, TypeOK
    <2> QED BY <2>2, <2>3, ChosenIsBestTier DEF Select
  <1> QED BY <1>1, AlwaysInv, PTL DEF Spec, SelectsBestTier

-----------------------------------------------------------------------------
(* The health loop                                                         *)

LEMMA ListFinite ==
    ASSUME SystemInv, NEW S, S \subseteq Instances
    PROVE  /\ IsFiniteSet(S) /\ Cardinality(S) \in Nat
           /\ Cardinality(S) =< Cardinality(Instances)
  BY InstancesFinite, FS_Subset, FS_CardinalityType

(* A probe takes the first instance off the list.                          *)
LEMMA ProbeShortensList ==
    ASSUME SystemInv, Probe
    PROVE  \E i \in toProbe :
              /\ \A j \in toProbe : i =< j
              /\ toProbe' = toProbe \ {i}
              /\ Cardinality(toProbe') = Cardinality(toProbe) - 1
              /\ up[i] => healthy'[i]
              /\ toProbe' = {} => stale' = {}
  <1>1. PICK i \in Instances : ProbeDone(i, up[i])
    BY DEF Probe
  <1>2. IsFiniteSet(toProbe)
    BY ListFinite DEF SystemInv, TypeOK, LBTypeOK
  <1>3. i \in toProbe /\ (\A j \in toProbe : i =< j) /\ toProbe' = toProbe \ {i}
    BY <1>1 DEF ProbeDone
  <1>4. Cardinality(toProbe') = Cardinality(toProbe) - 1
    BY <1>2, <1>3, FS_RemoveElement
  <1>5. up[i] => healthy'[i]
    BY <1>1 DEF ProbeDone, SystemInv, TypeOK, LBTypeOK
  <1>6. toProbe' = {} => stale' = {}
    BY <1>1 DEF ProbeDone, SweepExpired
  <1> QED BY <1>3, <1>4, <1>5, <1>6

(* Nothing but the health loop itself moves its list.                      *)
LEMMA OnlyLoopMovesList ==
    ASSUME [Next]_vars, ~(Tick \/ Probe)
    PROVE  UNCHANGED toProbe
  BY DEF Next, StartDispatch, Select, ConnectFails, EndDispatch, ReleaseInstance, Ages,
         PinExpires, Flip, LimitMoves, vars, lbVars

LEMMA TickLists ==
    ASSUME SystemInv, Tick
    PROVE  /\ toProbe = {} /\ toProbe' = Down
           /\ Cardinality(toProbe) = 0
           /\ Cardinality(toProbe') =< Cardinality(Instances)
           /\ Down = {} => stale' = {}
  <1>1. toProbe = {} /\ toProbe' = Down /\ (Down = {} => stale' = {})
    BY DEF Tick, HealthTick, SweepExpired
  <1>2. Cardinality(Down) =< Cardinality(Instances)
    BY ListFinite DEF Down
  <1> QED BY <1>1, <1>2, FS_EmptySet

(* Each step of the loop brings the turn of an instance nearer, or puts it *)
(* back in rotation; nothing else moves it.                                *)
THEOREM EveryInstanceIsProbed == Spec => ProbesReachEveryone
  <1> DEFINE n == Cardinality(Instances)
             upTo(i) == {j \in toProbe : j =< i}
             Nearer(i) == IF Tick \/ Probe THEN healthy'[i] \/ Turn(i)' < Turn(i)
                                           ELSE Turn(i)' = Turn(i)
             Reach == \A i \in Instances : ~healthy[i] /\ up[i] => Nearer(i)
  <1>1. SystemInv /\ [Next]_vars => Reach
    <2> SUFFICES ASSUME SystemInv, [Next]_vars, NEW i \in Instances, ~healthy[i], up[i]
                 PROVE  Nearer(i)
      OBVIOUS
    <2>1. n \in Nat /\ i \in Down /\ toProbe \subseteq Instances
      BY InstancesFinite DEF SystemInv, TypeOK, LBTypeOK, Down
    <2>2. /\ Cardinality(toProbe) \in Nat
          /\ IsFiniteSet(upTo(i)) /\ Cardinality(upTo(i)) \in Nat
      BY <2>1, ListFinite
    <2>3. CASE Tick
      <3>1. i \in toProbe' /\ i \notin toProbe
        BY <2>1, <2>3, TickLists
      <3>2. Turn(i) = n + 1
        BY <2>1, <2>3, <3>1, TickLists DEF Turn
      <3>3. Turn(i)' = Cardinality({j \in Down : j =< i})
        BY <2>3, <3>1, TickLists DEF Turn
      <3>4. /\ Cardinality({j \in Down : j =< i}) \in Nat
            /\ Cardinality({j \in Down : j =< i}) =< n
        BY ListFinite DEF Down
      <3> QED BY <2>1, <2>3, <3>2, <3>3, <3>4
    <2>4. CASE Probe
      <3>1. PICK first \in toProbe :
               /\ \A j \in toProbe : first =< j
               /\ toProbe' = toProbe \ {first}
               /\ Cardinality(toProbe') = Cardinality(toProbe) - 1
               /\ up[first] => healthy'[first]
        BY <2>4, ProbeShortensList
      <3>2. CASE i = first
        BY <2>4, <3>1, <3>2
      <3>3. CASE i \in toProbe /\ i # first
        <4>1. upTo(i)' = upTo(i) \ {first} /\ first \in upTo(i)
          BY <3>1, <3>3
        <4>2. Cardinality(upTo(i)') = Cardinality(upTo(i)) - 1
          BY <2>2, <4>1, FS_RemoveElement
        <4>3. Turn(i) = Cardinality(upTo(i)) /\ Turn(i)' = Cardinality(upTo(i)')
          BY <3>1, <3>3 DEF Turn
        <4> QED BY <2>2, <2>4, <4>2, <4>3
      <3>4. CASE i \notin toProbe
        <4>1. Turn(i) = Cardinality(toProbe) + n + 1 /\ Turn(i)' = Cardinality(toProbe') + n + 1
          BY <3>1, <3>4 DEF Turn
        <4> QED BY <2>1, <2>2, <2>4, <3>1, <4>1
      <3> QED BY <3>2, <3>3, <3>4
    <2>5. CASE ~(Tick \/ Probe)
      BY <2>5, OnlyLoopMovesList DEF Turn
    <2> QED BY <2>3, <2>4, <2>5
  <1> QED BY <1>1, AlwaysInv, PTL DEF Spec, ProbesReachEveryone

(* Each step of the loop sweeps or brings the sweep nearer.                *)
THEOREM EveryRoundSweeps == Spec => SweepsComeRound
  <1> DEFINE n == Cardinality(Instances)
             Nearer(c) == IF Tick \/ Probe THEN c \notin stale' \/ RoundLeft' < RoundLeft
                                           ELSE RoundLeft' = RoundLeft
  <1>1. SystemInv /\ [Next]_vars => \A c \in stale : Nearer(c)
    <2> SUFFICES ASSUME SystemInv, [Next]_vars, NEW c \in stale
                 PROVE  Nearer(c)
      OBVIOUS
    <2>1. n \in Nat /\ Cardinality(toProbe) \in Nat
      BY InstancesFinite, ListFinite DEF SystemInv, TypeOK, LBTypeOK
    <2>2. CASE Tick
      <3>1. CASE Down = {}
        BY <2>2, <3>1, TickLists
      <3>2. CASE Down # {}
        <4>1. RoundLeft = n + 1 /\ RoundLeft' = Cardinality(Down)
          BY <2>2, <3>2, TickLists DEF RoundLeft
        <4>2. Cardinality(Down) \in Nat /\ Cardinality(Down) =< n
          BY ListFinite DEF Down
        <4> QED BY <2>1, <2>2, <4>1, <4>2
      <3> QED BY <3>1, <3>2
    <2>3. CASE Probe
      <3>1. PICK first \in toProbe :
               /\ Cardinality(toProbe') = Cardinality(toProbe) - 1
               /\ toProbe' = {} => stale' = {}
        BY <2>3, ProbeShortensList
      <3>2. CASE toProbe' = {}
        BY <2>3, <3>1, <3>2
      <3>3. CASE toProbe' # {}
        <4>1. RoundLeft = Cardinality(toProbe) /\ RoundLeft' = Cardinality(toProbe')
          BY <3>1, <3>3 DEF RoundLeft
        <4> QED BY <2>1, <2>3, <3>1, <4>1
      <3> QED BY <3>2, <3>3
    <2>4. CASE ~(Tick \/ Probe)
      BY <2>4, OnlyLoopMovesList DEF RoundLeft
    <2> QED BY <2>2, <2>3, <2>4
  <1> QED BY <1>1, AlwaysInv, PTL DEF Spec, SweepsComeRound

-----------------------------------------------------------------------------
(* Fair shares                                                             *)

(* While the dispatches are within the limit, no instance gets more than   *)
(* its fair share of it from select(): the guard of _should_evict_pin is   *)
(* enough, for any number of instances, pins and outages.                  *)
THEOREM SelectionsAreFair == Spec => SelectionWithinFairShare
  <1> DEFINE Fair == \A d \in Dispatches :
                        selected[d] = 0 /\ selected'[d] # 0 /\ Cardinality(Running') =< limit
                           => lbInFlight'[selected'[d]] =< FairShare(limit)
  <1>1. SystemInv /\ [Next]_vars => Fair
    <2> SUFFICES ASSUME SystemInv, [Next]_vars, NEW d \in Dispatches,
                        selected[d] = 0, selected'[d] # 0, Cardinality(Running') =< limit
                 PROVE  lbInFlight'[selected'[d]] =< FairShare(limit)
      OBVIOUS
    <2> USE DEF SystemInv, TypeOK
    <2>1. PICK c \in Clients : StartDispatch(d, c)
      BY OnlyStartSelects
    <2>2. PICK i \in Instances : Select(c, i, limit) /\ selected' = [selected EXCEPT ![d] = i]
      BY <2>1 DEF StartDispatch
    <2>3. Cardinality(Running) < limit
      <3>1. IsFiniteSet(Running) /\ Cardinality(Running) \in Nat
        BY SystemAssumption, FS_Subset, FS_CardinalityType DEF Running
      <3>2. Running' = Running \union {d} /\ d \notin Running
        BY <2>2, NoneIsNoInstance DEF Running
      <3>3. Cardinality(Running') = Cardinality(Running) + 1
        BY <3>1, <3>2, FS_AddElement
      <3>4. limit \in Nat
        BY SystemAssumption
      <3> QED BY <3>1, <3>3, <3>4
    <2>4. lbInFlight[i] + 1 =< FairShare(limit)
      <3>1. /\ LBTypeOK /\ IsFiniteSet(Dispatches) /\ limit \in Nat
            /\ Counts(Dispatches, selected)
        BY SystemAssumption DEF Counts, Counted, Holding
      <3>2. Placed(Dispatches, selected) = Running
        BY NoneIsNoInstance DEF Placed, Running
      <3> QED BY <2>2, <2>3, <3>1, <3>2, ChosenHasRoom DEF Select
    <2>5. lbInFlight'[i] = lbInFlight[i] + 1 /\ selected'[d] = i
      BY <2>2 DEF Select, LBTypeOK
    <2> QED BY <2>4, <2>5
  <1> QED BY <1>1, AlwaysInv, PTL DEF Spec, SelectionWithinFairShare
=============================================================================
