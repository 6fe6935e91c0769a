------------------------- MODULE LoadBalancerProofs -------------------------
(***************************************************************************)
(* What the proofs about the modules that use LoadBalancer have in common: *)
(* its operations keep its types, what it selects is of the best tier, and *)
(* a pool whose members all have their fair share of a limit has the whole *)
(* limit, so that below it select() finds somebody with room.              *)
(***************************************************************************)
EXTENDS LoadBalancer, FiniteSetTheorems, FunctionTheorems, TLAPS

-----------------------------------------------------------------------------
(* Types                                                                   *)

LEMMA SelectKeepsType ==
    ASSUME LBTypeOK, NEW c \in Clients, NEW i \in Instances, NEW l,
           Select(c, i, l)
    PROVE  LBTypeOK'
  BY DEF LBTypeOK, Select

LEMMA ReleaseInstanceKeepsType ==
    ASSUME LBTypeOK, NEW i \in Instances, NEW failed \in BOOLEAN,
           ReleaseInstance(i, failed)
    PROVE  LBTypeOK'
  <1>1. lbInFlight' \in [Instances -> Nat]
    BY DEF LBTypeOK, ReleaseInstance
  <1>2. healthy' \in [Instances -> BOOLEAN]
    <2>1. healthy' = [healthy EXCEPT ![i] = healthy[i] /\ ~failed]
      BY DEF ReleaseInstance
    <2>2. (healthy[i] /\ ~failed) \in BOOLEAN
      OBVIOUS
    <2> QED BY <2>1, <2>2, Zenon DEF LBTypeOK
  <1> QED BY <1>1, <1>2 DEF LBTypeOK, ReleaseInstance

LEMMA HealthTickKeepsType ==
    ASSUME LBTypeOK, HealthTick
    PROVE  LBTypeOK'
  BY DEF LBTypeOK, HealthTick, SweepExpired, Down, NoPin

LEMMA ProbeKeepsType ==
    ASSUME LBTypeOK, NEW i \in Instances, NEW ok \in BOOLEAN, ProbeDone(i, ok)
    PROVE  LBTypeOK'
  <1>1. healthy' \in [Instances -> BOOLEAN]
    <2>1. healthy' = [healthy EXCEPT ![i] = healthy[i] \/ ok]
      BY DEF ProbeDone
    <2>2. (healthy[i] \/ ok) \in BOOLEAN
      OBVIOUS
    <2> QED BY <2>1, <2>2, Zenon DEF LBTypeOK
  <1>2. pin' \in [Clients -> Instances \union {NoPin}] /\ stale' \in SUBSET Clients
    BY DEF LBTypeOK, ProbeDone, SweepExpired
  <1> QED BY <1>1, <1>2 DEF LBTypeOK, ProbeDone

LEMMA PinExpiresKeepsType ==
    ASSUME LBTypeOK, NEW c \in Clients, PinExpires(c)
    PROVE  LBTypeOK'
  BY DEF LBTypeOK, PinExpires

-----------------------------------------------------------------------------
(* Fair shares                                                             *)

LEMMA InstancesFinite == IsFiniteSet(Instances) /\ Cardinality(Instances) \in Nat
  <1>1. /\ NumPrimaries \in Int /\ NumPrimaries + 1 \in Int
        /\ NumPrimaries + NumBackups \in Int
    BY LoadBalancerAssumption
  <1>2. IsFiniteSet(Primaries) /\ IsFiniteSet(Backups)
    BY <1>1, FS_Interval DEF Primaries, Backups
  <1>3. IsFiniteSet(Instances)
    BY <1>2, FS_Union DEF Instances
  <1> QED BY <1>3, FS_CardinalityType

(* select() always has a candidate.                                        *)
LEMMA PoolType ==
    /\ ActivePool \subseteq Instances
    /\ IsFiniteSet(ActivePool)
    /\ Cardinality(ActivePool) \in Nat \ {0}
  <1>1. ActivePool \subseteq Instances /\ ActivePool # {}
    <2>1. 1 \in Primaries
      BY LoadBalancerAssumption DEF Primaries
    <2>2. Primaries \subseteq Instances /\ Backups \subseteq Instances /\ 1 \in Instances
      BY <2>1 DEF Instances
    <2>3. Up(Primaries) \subseteq Instances /\ Up(Backups) \subseteq Instances
      BY <2>2 DEF Up
    <2> QED BY <2>2, <2>3 DEF ActivePool
  <1>3. IsFiniteSet(ActivePool)
    BY <1>1, InstancesFinite, FS_Subset
  <1> QED BY <1>1, <1>3, FS_CardinalityType, FS_EmptySet

(* What it returns, pinned or least loaded, is a candidate, and candidates *)
(* are of the best tier there is.                                          *)
LEMMA ChosenIsBestTier ==
    ASSUME NEW c \in Clients, NEW i, NEW l, Chosen(c, i, l)
    PROVE  /\ i \in ActivePool
           /\ i \in Backups => Up(Primaries) = {}
           /\ i \in Down => Up(Instances) = {}
  <1>1. i \in ActivePool
    BY DEF Chosen, PinHolds, LeastLoaded
  <1>2. Primaries \intersect Backups = {}
    BY LoadBalancerAssumption DEF Primaries, Backups
  <1>3. i \in Backups => Up(Primaries) = {}
    BY <1>1, <1>2 DEF ActivePool, Up
  <1>4. i \in Down => Up(Primaries) = {} /\ Up(Backups) = {}
    BY <1>1 DEF ActivePool, Up, Down
  <1>5. Up(Instances) = Up(Primaries) \union Up(Backups)
    BY DEF Up, Instances
  <1> QED BY <1>1, <1>3, <1>4, <1>5

(* A share is rounded up, so that the shares of all make the limit.        *)
LEMMA ShareCovers ==
    ASSUME NEW p \in Nat \ {0}, NEW l \in Nat
    PROVE  /\ (l + p - 1) \div p \in Nat
           /\ p * ((l + p - 1) \div p) >= l
  <1> DEFINE q == (l + p - 1) \div p
  <1>1. q \in Int /\ p * q =< l + p - 1 /\ l + p - 1 < p * (q + 1)
    OBVIOUS
  <1>2. p * (q + 1) = p * q + p
    BY <1>1
  <1>3. p * q >= l
    BY <1>1, <1>2
  <1>4. q >= 0
    BY <1>1
  <1> QED BY <1>1, <1>3, <1>4

(* n members of D at each place of P are n times as many at P.             *)
LEMMA FullPlaces ==
    ASSUME NEW D, IsFiniteSet(D), NEW P, IsFiniteSet(P), NEW n \in Nat, NEW at,
           \A j \in P : n =< Cardinality({d \in D : at[d] = j})
    PROVE  Cardinality(P) * n =< Cardinality({d \in D : at[d] \in P})
  <1> DEFINE place(j) == {d \in D : at[d] = j}
             all      == {d \in D : at[d] \in P}
  <1>1. ASSUME NEW j \in P
        PROVE  \E g : g \in Injection(1..n, place(j))
    <2>1. IsFiniteSet(place(j))
      BY FS_Subset
    <2>2. PICK size \in Nat : n =< size /\ ExistsBijection(1..size, place(j))
      BY <2>1, FS_CardinalityType
    <2>3. PICK b : b \in Bijection(1..size, place(j))
      BY <2>2 DEF ExistsBijection
    <2>4. /\ b \in [1..size -> place(j)]
          /\ \A k, m \in 1..size : b[k] = b[m] => k = m
      BY <2>3, Fun_BijectionProperties
    <2> DEFINE g == [k \in 1..n |-> b[k]]
    <2>5. 1..n \subseteq 1..size
      BY <2>2
    <2>6. g \in [1..n -> place(j)] /\ \A k, m \in 1..n : g[k] = g[m] => k = m
      BY <2>4, <2>5
    <2>7. g \in Injection(1..n, place(j))
      BY <2>6, Fun_IsInj
    <2> QED BY <2>7
  <1> DEFINE chosen == [j \in P |-> CHOOSE g : g \in Injection(1..n, place(j))]
             h      == [x \in P \X (1..n) |-> chosen[x[1]][x[2]]]
  <1>2. ASSUME NEW j \in P
        PROVE  /\ chosen[j] \in [1..n -> place(j)]
               /\ \A k, m \in 1..n : chosen[j][k] = chosen[j][m] => k = m
    <2>1. chosen[j] \in Injection(1..n, place(j))
      BY <1>1
    <2> QED BY <2>1, Fun_InjectionProperties
  <1>3. ASSUME NEW x \in P \X (1..n)
        PROVE  /\ x[1] \in P /\ x[2] \in 1..n
               /\ h[x] = chosen[x[1]][x[2]]
               /\ h[x] \in all /\ at[h[x]] = x[1]
    <2>1. x[1] \in P /\ x[2] \in 1..n /\ h[x] = chosen[x[1]][x[2]]
      OBVIOUS
    <2> HIDE DEF chosen, h
    <2>2. h[x] \in place(x[1])
      BY <1>2, <2>1
    <2> QED BY <2>1, <2>2
  <1>4. ASSUME NEW x \in P \X (1..n), NEW y \in P \X (1..n), h[x] = h[y]
        PROVE  x = y
    <2> HIDE DEF chosen, h, all
    <2>1. x[1] = y[1]
      BY <1>3, <1>4
    <2>2. x[2] = y[2]
      BY <1>2, <1>3, <1>4, <2>1
    <2> QED BY <2>1, <2>2
  <1>5. h \in Injection(P \X (1..n), all)
    <2>1. h \in [P \X (1..n) -> all]
      BY <1>3
    <2>2. \A x, y \in P \X (1..n) : h[x] = h[y] => x = y
      BY <1>4
    <2> HIDE DEF h, all
    <2> QED BY <2>1, <2>2, Fun_IsInj
  <1>6. IsFiniteSet(all)
    BY FS_Subset
  <1>7. Cardinality(P \X (1..n)) =< Cardinality(all)
    BY <1>5, <1>6, FS_Injection
  <1>8. IsFiniteSet(1..n) /\ Cardinality(1..n) = n
    BY FS_Interval
  <1>9. Cardinality(P \X (1..n)) = Cardinality(P) * n
    BY <1>8, FS_Product
  <1> QED BY <1>7, <1>9

(* The members of D that have a place, and that the balancer counts them.  *)
Placed(D, at) == {d \in D : at[d] \in Instances}

Counts(D, at) == \A i \in Instances : lbInFlight[i] = Cardinality({d \in D : at[d] = i})

(* Below the limit, some candidate is below its fair share.                *)
LEMMA SomebodyHasRoom ==
    ASSUME LBTypeOK, NEW D, IsFiniteSet(D), NEW at, Counts(D, at),
           NEW l \in Nat, Cardinality(Placed(D, at)) < l
    PROVE  \E j \in ActivePool : lbInFlight[j] < FairShare(l)
  <1> DEFINE p == Cardinality(ActivePool)
             n == FairShare(l)
             inPool == {d \in D : at[d] \in ActivePool}
  <1>1. lbInFlight \in [Instances -> Nat]
    BY DEF LBTypeOK
  <1>2. p \in Nat \ {0} /\ IsFiniteSet(ActivePool) /\ ActivePool \subseteq Instances
    BY PoolType
  <1>3. n \in Nat /\ p * n >= l
    BY <1>2, ShareCovers DEF FairShare
  <1> HIDE DEF n, p
  <1>4. SUFFICES ASSUME \A j \in ActivePool : ~(lbInFlight[j] < n)
                 PROVE  FALSE
    BY DEF n
  <1>5. \A j \in ActivePool : n =< Cardinality({d \in D : at[d] = j})
    BY <1>1, <1>2, <1>3, <1>4 DEF Counts
  <1>6. p * n =< Cardinality(inPool)
    BY <1>2, <1>3, <1>5, FullPlaces DEF p
  <1>7. /\ Cardinality(inPool) =< Cardinality(Placed(D, at))
        /\ Cardinality(inPool) \in Nat /\ Cardinality(Placed(D, at)) \in Nat
    <2>1. IsFiniteSet(Placed(D, at))
      BY FS_Subset DEF Placed
    <2>2. inPool \in SUBSET Placed(D, at)
      BY <1>2 DEF Placed
    <2> HIDE DEF inPool
    <2> QED BY <2>1, <2>2, FS_Subset, FS_CardinalityType
  <1> HIDE DEF inPool
  <1> QED BY <1>2, <1>3, <1>6, <1>7

(* The instance select() returns has room for one more in its share: a pin *)
(* is not kept at the expense of somebody with room, and the least loaded  *)
(* has room if anybody has.                                                *)
LEMMA ChosenHasRoom ==
    ASSUME LBTypeOK, NEW D, IsFiniteSet(D), NEW at, Counts(D, at),
           NEW l \in Nat, Cardinality(Placed(D, at)) < l,
           NEW c \in Clients, NEW i \in Instances, Chosen(c, i, l)
    PROVE  lbInFlight[i] + 1 =< FairShare(l)
  <1>1. PICK j \in ActivePool : lbInFlight[j] < FairShare(l)
    BY SomebodyHasRoom
  <1>2. /\ lbInFlight \in [Instances -> Nat] /\ ActivePool \subseteq Instances
        /\ FairShare(l) \in Nat
    BY PoolType, ShareCovers DEF LBTypeOK, FairShare
  <1>3. lbInFlight[i] < FairShare(l)
    <2>1. CASE PinHolds(c, l)
      BY <1>1, <1>2, <2>1 DEF Chosen, PinHolds, ShouldEvictPin
    <2>2. CASE ~PinHolds(c, l)
      BY <1>1, <1>2, <2>2 DEF Chosen, LeastLoaded
    <2> QED BY <2>1, <2>2
  <1> QED BY <1>2, <1>3
=============================================================================
