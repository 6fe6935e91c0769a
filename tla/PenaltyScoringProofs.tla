------------------------ MODULE PenaltyScoringProofs ------------------------
(***************************************************************************)
(* PenaltyScoring for any clients, any accepted scoring section, overrides *)
(* and any number of overlapping scorings.                                 *)
(*                                                                         *)
(*  - Configurations: what start-up accepts is in order.                   *)
(*  - Visits: the loops of calculate_score have a next step while visits   *)
(*    are left, whose key is one of the keys and has a window.             *)
(*  - Counters: overlapping increments and expiries leave no counter       *)
(*    without its expiry.  It takes only that a scoring under way has a    *)
(*    visit before it (ScoringInv); ranges (InRange) rest on it.           *)
(*  - Exemption: what an exempt client has paid so far is bounded by the   *)
(*    hard penalties of its own visits so far (PaidForVisits).             *)
(*  - Charges: what a scoring under way has been charged is at least what  *)
(*    first hits at the visits so far cost (ChargedSoFar).                 *)
(***************************************************************************)
EXTENDS PenaltyScoring, TotalTheorems

-----------------------------------------------------------------------------
(* Configurations                                                          *)

(* The order of thresholds and of penalties makes a step function.         *)
LEMMA StepsUp ==
    ASSUME NEW w, IsPenaltyConfig(w), NEW hits \in Nat
    PROVE  StepPenalty(hits, w) =< StepPenalty(hits + 1, w)
  <1>1. /\ w.soft_threshold \in Nat /\ w.hard_threshold \in Nat
        /\ w.soft_penalty \in Nat /\ w.hard_penalty \in Nat
        /\ w.hard_threshold >= w.soft_threshold /\ w.hard_penalty >= w.soft_penalty
    <2>1. \A f \in Fields : w[f] \in Nat
      BY DEF IsPenaltyConfig
    <2>2. /\ "soft_threshold" \in Fields /\ "hard_threshold" \in Fields
          /\ "soft_penalty" \in Fields /\ "hard_penalty" \in Fields
      BY DEF Fields
    <2> QED BY <2>1, <2>2 DEF IsPenaltyConfig
  <1> QED BY <1>1 DEF StepPenalty

LEMMA StartedInOrder ==
    ASSUME NEW scoring, NEW backends, StartsUp(scoring, backends), NEW maxHits \in Nat
    PROVE  MonotonePolicy(scoring, backends, maxHits)
  <1> SUFFICES ASSUME NEW n \in DOMAIN backends, NEW d \in DimensionNames,
                      NEW k \in DOMAIN Resolved(scoring, backends, n).penalties[d],
                      NEW hits \in 0..(maxHits - 1)
               PROVE  LET w == Resolved(scoring, backends, n).penalties[d][k]
                      IN  StepPenalty(hits, w) =< StepPenalty(hits + 1, w)
    BY DEF MonotonePolicy
  <1>1. IsPenaltyConfig(Resolved(scoring, backends, n).penalties[d][k])
    BY DEF StartsUp, IsDefaultPenalties
  <1> QED BY <1>1, StepsUp

(* More requests never cost less, under any overrides start-up accepts.    *)
THEOREM PenaltiesAreMonotone == Spec => []PenaltyNeverEases
  <1>1. ResolvedInOrder
    BY StartedInOrder, ScoringAssumption DEF ResolvedInOrder, Running
  <1> QED BY <1>1, PTL DEF PenaltyNeverEases

-----------------------------------------------------------------------------
(* Visits                                                                  *)

LEMMA WindowsAreValid ==
    ASSUME NEW c \in Clients, NEW d \in DimensionNames
    PROVE  LET windows == PolicyOf[c].penalties[d]
           IN  /\ Len(windows) \in Nat \ {0} /\ DOMAIN windows = 1..Len(windows)
               /\ \A k \in DOMAIN windows : IsPenaltyConfig(windows[k])
  <1> DEFINE windows == PolicyOf[c].penalties[d]
  <1>1. IsDefaultPenalties(PolicyOf[c].penalties)
    BY ScoringAssumption DEF StartsUp, PolicyOf
  <1> HIDE DEF windows
  <1>2. /\ windows \in Seq({windows[n] : n \in DOMAIN windows}) /\ windows # <<>>
        /\ \A k \in DOMAIN windows : IsPenaltyConfig(windows[k])
    BY <1>1 DEF IsDefaultPenalties, IsList, windows
  <1>3. Len(windows) \in Nat \ {0} /\ DOMAIN windows = 1..Len(windows)
    BY <1>2
  <1> QED BY <1>2, <1>3 DEF windows

LEMMA DimensionsAre == DOMAIN Dimensions = 1..6
  BY DEF Dimensions

LEMMA VisitIs ==
    ASSUME NEW c \in Clients, NEW v
    PROVE  v \in VisitsOf[c] <=>
             \E n \in DOMAIN Dimensions :
                /\ ContextOf[c].values[Dimensions[n]] # NoValue
                /\ \E k \in DOMAIN PolicyOf[c].penalties[Dimensions[n]] : v = <<n, k>>
  BY DEF VisitsOf

LEMMA VisitsAreValid ==
    ASSUME NEW c \in Clients
    PROVE  /\ IsFiniteSet(VisitsOf[c]) /\ VisitsOf[c] \subseteq Nat \X Nat
           /\ \A v \in VisitsOf[c] : IsPenaltyConfig(WindowOf(c, v))
  <1> DEFINE windows(n) == PolicyOf[c].penalties[Dimensions[n]]
             valued     == {n \in DOMAIN Dimensions : ContextOf[c].values[Dimensions[n]] # NoValue}
  <1>1. ASSUME NEW n \in DOMAIN Dimensions
        PROVE  /\ Len(windows(n)) \in Nat \ {0} /\ DOMAIN windows(n) = 1..Len(windows(n))
               /\ \A k \in DOMAIN windows(n) : IsPenaltyConfig(windows(n)[k])
    BY WindowsAreValid DEF DimensionNames
  <1>2. ASSUME NEW v \in VisitsOf[c]
        PROVE  v \in Nat \X Nat /\ IsPenaltyConfig(WindowOf(c, v))
    <2>1. PICK n \in DOMAIN Dimensions : \E k \in DOMAIN windows(n) : v = <<n, k>>
      BY VisitIs
    <2>2. PICK k \in DOMAIN windows(n) : v = <<n, k>>
      BY <2>1
    <2>3. n \in Nat
      BY DimensionsAre
    <2>4. k \in Nat
      <3>1. Len(windows(n)) \in Nat /\ k \in 1..Len(windows(n))
        BY <1>1
      <3> QED BY <3>1
    <2> QED BY <1>1, <2>2, <2>3, <2>4 DEF WindowOf, DimensionOf
  <1>3. IsFiniteSet(VisitsOf[c])
    <2> DEFINE row  == [n \in valued |-> {n} \X DOMAIN windows(n)]
               rows == {row[n] : n \in valued}
    <2>1. IsFiniteSet(valued)
      <3>1. 1 \in Int /\ 6 \in Int
        OBVIOUS
      <3>2. IsFiniteSet(1..6)
        BY <3>1, FS_Interval
      <3> QED BY <3>2, DimensionsAre, FS_Subset
    <2>2. \A n \in valued : IsFiniteSet(row[n])
      <3> SUFFICES ASSUME NEW n \in valued PROVE IsFiniteSet({n} \X DOMAIN windows(n))
        OBVIOUS
      <3>1. Len(windows(n)) \in Nat /\ DOMAIN windows(n) = 1..Len(windows(n))
        BY <1>1
      <3> QED BY <3>1, RowSize
    <2>3. VisitsOf[c] = UNION rows
      BY DEF VisitsOf
    <2> HIDE DEF row, valued
    <2>4. IsFiniteSet(rows)
      <3>1. row \in Surjection(valued, rows)
        BY DEF Surjection, row
      <3> QED BY <2>1, <3>1, FS_Surjection
    <2>5. IsFiniteSet(UNION rows)
      BY <2>2, <2>4, FS_UNION
    <2> QED BY <2>3, <2>5
  <1> QED BY <1>2, <1>3

(* The loops have a next step as long as visits are left.                  *)
LEMMA FirstVisit ==
    ASSUME NEW S, IsFiniteSet(S), S # {}, S \subseteq Nat \X Nat
    PROVE  (CHOOSE v \in S : \A w \in S \ {v} : Precedes(v, w)) \in S
  <1> DEFINE R == {p \in S \X S : Precedes(p[1], p[2])}
  <1>1. \A v, w \in S : <<v, w>> \in R <=> Precedes(v, w)
    OBVIOUS
  <1> HIDE DEF R
  <1>2. \A v, w \in S : v[1] \in Nat /\ v[2] \in Nat
                        /\ (v[1] = w[1] /\ v[2] = w[2] => v = w)
    OBVIOUS
  <1>3. \A x \in S : <<x, x>> \notin R
    BY <1>1, <1>2 DEF Precedes
  <1>4. \A x, y, z \in S : <<x, y>> \in R /\ <<y, z>> \in R => <<x, z>> \in R
    <2> SUFFICES ASSUME NEW x \in S, NEW y \in S, NEW z \in S, Precedes(x, y), Precedes(y, z)
                 PROVE  Precedes(x, z)
      BY <1>1
    <2> QED BY <1>2 DEF Precedes
  <1>5. PICK v \in S : \A w \in S : <<w, v>> \notin R
    <2>1. StrictlyOrders(R, S)
      BY <1>3, <1>4 DEF StrictlyOrders
    <2> QED BY <2>1, FiniteHasFirst
  <1>6. ASSUME NEW w \in S \ {v}
        PROVE  Precedes(v, w)
    <2>1. ~Precedes(w, v)
      BY <1>1, <1>5
    <2> QED BY <1>2, <2>1 DEF Precedes
  <1> QED BY <1>6

-----------------------------------------------------------------------------
(* Counters and expiries                                                   *)

ScoringInv ==
    /\ count \in [Keys -> Nat] /\ ttl \in [Keys -> Nat]
    /\ phase \in [Scorings -> {"idle", "incr", "expire"}]
    /\ client \in [Scorings -> Clients]
    /\ left \in [Scorings -> SUBSET (Nat \X Nat)]
    /\ \A s \in Scorings : left[s] \subseteq VisitsOf[client[s]]
    /\ \A s \in Scorings : phase[s] = "idle" <=> left[s] = {}

LEMMA KeyWindow ==
    ASSUME NEW c \in Clients, NEW v \in VisitsOf[c]
    PROVE  KeyOf(c, v) \in Keys /\ KeyOf(c, v).window \in Nat \ {0}
  <1>1. WindowOf(c, v).window_seconds \in Nat \ {0}
    <2>1. IsPenaltyConfig(WindowOf(c, v))
      BY VisitsAreValid
    <2> QED BY <2>1 DEF IsPenaltyConfig, Fields
  <1>2. KeyOf(c, v) \in Keys
    BY DEF Keys
  <1> QED BY <1>1, <1>2 DEF KeyOf

LEMMA KeysHaveWindows ==
    ASSUME NEW k \in Keys
    PROVE  k.window \in Nat \ {0}
  <1>1. PICK c \in Clients : \E v \in VisitsOf[c] : k = KeyOf(c, v)
    BY DEF Keys
  <1> QED BY <1>1, KeyWindow

LEMMA VisitIsLeft ==
    ASSUME ScoringInv, NEW s \in Scorings, phase[s] # "idle"
    PROVE  Visit(s) \in left[s] /\ Visit(s) \in VisitsOf[client[s]]
  <1>1. left[s] \subseteq VisitsOf[client[s]] /\ left[s] # {} /\ client[s] \in Clients
    BY DEF ScoringInv
  <1>2. IsFiniteSet(left[s]) /\ left[s] \subseteq Nat \X Nat
    BY <1>1, VisitsAreValid, FS_Subset
  <1> QED BY <1>1, <1>2, FirstVisit DEF Visit

LEMMA CurrentIsKey ==
    ASSUME ScoringInv, NEW s \in Scorings, phase[s] # "idle"
    PROVE  Current(s) \in Keys /\ Current(s).window \in Nat \ {0}
  BY VisitIsLeft, KeyWindow DEF ScoringInv, Current

LEMMA CountType ==
    ASSUME ScoringInv, NEW s \in Scorings, phase[s] # "idle"
    PROVE  Capped(count[Current(s)] + 1) \in Nat
  <1>1. count[Current(s)] \in Nat
    BY CurrentIsKey DEF ScoringInv
  <1>2. MaxCount \in Nat
    BY ScoringAssumption
  <1> QED BY <1>1, <1>2 DEF Capped

(* The next visit, or the end of the scoring.                              *)
LEMMA AdvanceCases ==
    ASSUME ScoringInv, NEW s \in Scorings, phase[s] # "idle", NEW n, Advance(s, n)
    PROVE  /\ UNCHANGED client
           /\ \/ /\ phase' = [phase EXCEPT ![s] = "idle"]
                 /\ left' = [left EXCEPT ![s] = {}]
              \/ /\ left[s] \ {Visit(s)} # {}
                 /\ phase' = [phase EXCEPT ![s] = "incr"]
                 /\ left' = [left EXCEPT ![s] = left[s] \ {Visit(s)}]
  <1>1. CASE left[s] = {Visit(s)}
    BY <1>1, Zenon DEF Advance, Finish
  <1>2. CASE left[s] # {Visit(s)}
    <2>1. left[s] \ {Visit(s)} # {}
      BY <1>2, VisitIsLeft
    <2> QED BY <1>2, <2>1, Zenon DEF Advance
  <1> QED BY <1>1, <1>2

LEMMA AdvanceKeeps ==
    ASSUME ScoringInv, NEW s \in Scorings, phase[s] # "idle", NEW n, Advance(s, n),
           count' \in [Keys -> Nat], ttl' \in [Keys -> Nat]
    PROVE  ScoringInv' /\ \A r \in Scorings \ {s} :
                             phase'[r] = phase[r] /\ left'[r] = left[r] /\ client'[r] = client[r]
  <1> USE DEF ScoringInv
  <1>1. ASSUME NEW r \in Scorings \ {s}
        PROVE  phase'[r] = phase[r] /\ left'[r] = left[r] /\ client'[r] = client[r]
    BY AdvanceCases
  <1>2. /\ client'[s] = client[s] /\ left'[s] \subseteq left[s]
        /\ phase'[s] = "idle" <=> left'[s] = {}
    BY AdvanceCases
  <1>3. /\ phase' \in [Scorings -> {"idle", "incr", "expire"}]
        /\ client' \in [Scorings -> Clients]
        /\ left' \in [Scorings -> SUBSET (Nat \X Nat)]
    <2>1. PICK rest \in SUBSET (Nat \X Nat) : left' = [left EXCEPT ![s] = rest]
      <3>1. {} \in SUBSET (Nat \X Nat) /\ left[s] \ {Visit(s)} \in SUBSET (Nat \X Nat)
        OBVIOUS
      <3> QED BY <3>1, AdvanceCases
    <2>2. left' \in [Scorings -> SUBSET (Nat \X Nat)]
      BY <2>1
    <2> QED BY <2>2, AdvanceCases
  <1>4. \A r \in Scorings : left'[r] \subseteq VisitsOf[client'[r]]
    BY <1>1, <1>2
  <1>5. \A r \in Scorings : phase'[r] = "idle" <=> left'[r] = {}
    BY <1>1, <1>2
  <1> QED BY <1>1, <1>3, <1>4, <1>5

LEMMA InitInv == Init => ScoringInv
  BY DEF Init, ScoringInv

LEMMA IncrKeepsCounts ==
    ASSUME ScoringInv, NEW s \in Scorings, Incr(s)
    PROVE  count' \in [Keys -> Nat] /\ ttl' \in [Keys -> Nat]
  BY CountType DEF Incr, ScoringInv

LEMMA IncrKeeps ==
    ASSUME ScoringInv, NEW s \in Scorings, Incr(s)
    PROVE  ScoringInv' /\ \A r \in Scorings \ {s} :
                             phase'[r] = phase[r] /\ left'[r] = left[r] /\ client'[r] = client[r]
  <1> DEFINE n == Capped(count[Current(s)] + 1)
  <1>1. CASE NeedsExpiry(n)
    <2>1. /\ phase[s] = "incr" /\ phase' = [phase EXCEPT ![s] = "expire"]
          /\ UNCHANGED <<client, left>>
      BY <1>1 DEF Incr
    <2> QED BY <2>1, IncrKeepsCounts DEF ScoringInv
  <1>2. CASE ~NeedsExpiry(n)
    BY <1>2, IncrKeepsCounts, AdvanceKeeps DEF Incr
  <1> QED BY <1>1, <1>2

LEMMA ExpireKeeps ==
    ASSUME ScoringInv, NEW s \in Scorings, Expire(s)
    PROVE  ScoringInv' /\ \A r \in Scorings \ {s} :
                             phase'[r] = phase[r] /\ left'[r] = left[r] /\ client'[r] = client[r]
  <1>1. count' \in [Keys -> Nat] /\ ttl' \in [Keys -> Nat]
    BY CurrentIsKey DEF Expire, ScoringInv
  <1> QED BY <1>1, AdvanceKeeps DEF Expire

LEMMA StepKeepsInv == ScoringInv /\ [Next]_vars => ScoringInv'
  <1> SUFFICES ASSUME ScoringInv, [Next]_vars PROVE ScoringInv'
    OBVIOUS
  <1> USE DEF ScoringInv
  <1>1. ASSUME NEW s \in Scorings, NEW c \in Clients, Begin(s, c)
        PROVE  ScoringInv'
    <2>1. VisitsOf[c] \in SUBSET (Nat \X Nat)
      BY VisitsAreValid
    <2> QED BY <1>1, <2>1 DEF Begin
  <1>2. ASSUME NEW s \in Scorings, Fail(s)
        PROVE  ScoringInv'
    <2>1. Capped(count[Current(s)] + 1) \in Nat /\ Current(s) \in Keys /\ Current(s).window \in Nat
      BY <1>2, CurrentIsKey, CountType DEF Fail, Fails
    <2>2. count' \in [Keys -> Nat] /\ ttl' \in [Keys -> Nat]
      BY <1>2, <2>1 DEF Fail, Fails
    <2>3. Finish(s, Clamp(Base(client[s])))
      BY <1>2 DEF Fail, Fails
    <2> QED BY <2>2, <2>3 DEF Finish
  <1>3. CASE Restart
    BY <1>3 DEF Restart
  <1>4. CASE Tick
    BY <1>4 DEF Tick
  <1>5. CASE UNCHANGED vars
    BY <1>5 DEF vars
  <1> QED BY <1>1, <1>2, <1>3, <1>4, <1>5, IncrKeeps, ExpireKeeps DEF Next

LEMMA AlwaysInv == Spec => []ScoringInv
  BY InitInv, StepKeepsInv, PTL DEF Spec

-----------------------------------------------------------------------------
(* Ranges                                                                  *)

InRange ==
    /\ \A k \in Keys : count[k] =< MaxCount /\ ttl[k] =< k.window
    /\ penalty \in [Scorings -> [own : Nat, net : Nat]]
    /\ score \in [Scorings -> MinScore..MaxScore]

LEMMA ClampRange ==
    ASSUME NEW n \in Int
    PROVE  Clamp(n) \in MinScore..MaxScore
  BY ScoringAssumption DEF Clamp, AtLeast, AtMost, MinScore, MaxScore

LEMMA BaseType ==
    ASSUME NEW c \in Clients
    PROVE  Base(c) \in Int
  BY ScoringAssumption DEF Base, PolicyOf

LEMMA StepPenaltyType ==
    ASSUME NEW w, IsPenaltyConfig(w), NEW hits
    PROVE  StepPenalty(hits, w) \in Nat
  <1>1. w.soft_penalty \in Nat /\ w.hard_penalty \in Nat
    BY DEF IsPenaltyConfig, Fields
  <1> QED BY <1>1 DEF StepPenalty

LEMMA AddPenaltyType ==
    ASSUME NEW p \in [own : Nat, net : Nat], NEW c, NEW v, IsPenaltyConfig(WindowOf(c, v)), NEW n
    PROVE  AddPenalty(p, c, v, n) \in [own : Nat, net : Nat]
  <1>1. PICK x \in Nat : x = StepPenalty(n, WindowOf(c, v))
    BY StepPenaltyType
  <1>2. AddPenalty(p, c, v, n) \in {[p EXCEPT !.own = @ + x], [p EXCEPT !.net = @ + x]}
    BY <1>1 DEF AddPenalty
  <1> QED BY <1>2

LEMMA FinalRange ==
    ASSUME NEW c \in Clients, NEW p \in [own : Nat, net : Nat]
    PROVE  Final(c, p) \in MinScore..MaxScore
  <1>1. Base(c) - p.own - (IF IsExempt(c) THEN 0 ELSE p.net) \in Int
    BY BaseType
  <1> QED BY <1>1, ClampRange DEF Final

LEMMA AdvanceInRange ==
    ASSUME ScoringInv, InRange, NEW s \in Scorings, phase[s] # "idle", NEW n, Advance(s, n)
    PROVE  /\ penalty' \in [Scorings -> [own : Nat, net : Nat]]
           /\ score' \in [Scorings -> MinScore..MaxScore]
  <1> DEFINE p == AddPenalty(penalty[s], client[s], Visit(s), n)
  <1>1. IsPenaltyConfig(WindowOf(client[s], Visit(s)))
    BY VisitIsLeft, VisitsAreValid DEF ScoringInv
  <1>2. p \in [own : Nat, net : Nat]
    BY <1>1, AddPenaltyType DEF InRange
  <1>3. Final(client[s], p) \in MinScore..MaxScore
    BY <1>2, FinalRange DEF ScoringInv
  <1> HIDE DEF p
  <1>4. CASE Finish(s, Final(client[s], p))
    BY <1>3, <1>4 DEF Finish, InRange, NoPenalty
  <1>5. CASE penalty' = [penalty EXCEPT ![s] = p] /\ UNCHANGED score
    BY <1>2, <1>5 DEF InRange
  <1> QED BY <1>4, <1>5 DEF Advance, p

LEMMA CountInRange ==
    ASSUME ScoringInv, NEW s \in Scorings, phase[s] # "idle"
    PROVE  Capped(count[Current(s)] + 1) =< MaxCount
  BY CurrentIsKey, ScoringAssumption DEF Capped, ScoringInv

LEMMA IncrInRange ==
    ASSUME ScoringInv, InRange, NEW s \in Scorings, Incr(s)
    PROVE  InRange'
  <1> DEFINE n == Capped(count[Current(s)] + 1)
  <1>1. n =< MaxCount
    BY CountInRange DEF Incr
  <1>2. \A k \in Keys : count'[k] =< MaxCount /\ ttl'[k] =< k.window
    BY <1>1 DEF Incr, ScoringInv, InRange
  <1>3. CASE Advance(s, n)
    BY <1>2, <1>3, AdvanceInRange DEF InRange, Incr
  <1>4. CASE UNCHANGED <<penalty, score>>
    BY <1>2, <1>4 DEF InRange
  <1> QED BY <1>3, <1>4 DEF Incr

LEMMA ExpireInRange ==
    ASSUME ScoringInv, InRange, NEW s \in Scorings, Expire(s)
    PROVE  InRange'
  <1>1. \A k \in Keys : count'[k] =< MaxCount /\ ttl'[k] =< k.window
    BY CurrentIsKey DEF Expire, ScoringInv, InRange
  <1> QED BY <1>1, AdvanceInRange DEF Expire, InRange

LEMMA FailInRange ==
    ASSUME ScoringInv, InRange, NEW s \in Scorings, Fail(s)
    PROVE  InRange'
  <1>1. \A k \in Keys : count'[k] =< MaxCount /\ ttl'[k] =< k.window
    <2>1. CASE UNCHANGED <<count, ttl>>
      BY <2>1 DEF InRange
    <2>2. phase[s] # "idle"
      BY DEF Fail, Fails
    <2>3. CASE count' = [count EXCEPT ![Current(s)] = Capped(@ + 1)] /\ UNCHANGED ttl
      BY <2>3, <2>2, CountInRange DEF InRange, ScoringInv
    <2>4. CASE ttl' = [ttl EXCEPT ![Current(s)] = Current(s).window] /\ UNCHANGED count
      BY <2>4, <2>2, CurrentIsKey DEF InRange, ScoringInv
    <2> QED BY <2>1, <2>3, <2>4 DEF Fail, Fails
  <1>2. Clamp(Base(client[s])) \in MinScore..MaxScore
    BY BaseType, ClampRange DEF ScoringInv
  <1>3. Finish(s, Clamp(Base(client[s])))
    BY DEF Fail, Fails
  <1> QED BY <1>1, <1>2, <1>3 DEF Finish, InRange, NoPenalty

LEMMA MaxScoreInRange == MaxScore \in MinScore..MaxScore
  BY ScoringAssumption DEF MinScore, MaxScore

LEMMA StepInRange == ScoringInv /\ InRange /\ [Next]_vars => InRange'
  <1> SUFFICES ASSUME ScoringInv, InRange, [Next]_vars PROVE InRange'
    OBVIOUS
  <1>1. ASSUME NEW s \in Scorings, NEW c \in Clients, Begin(s, c)
        PROVE  InRange'
    <2>1. Final(c, NoPenalty) \in MinScore..MaxScore
      BY FinalRange DEF NoPenalty
    <2> QED BY <1>1, <2>1, MaxScoreInRange DEF Begin, InRange
  <1>2. CASE Restart
    BY <1>2, MaxScoreInRange DEF Restart, InRange, NoPenalty
  <1>3. CASE Tick
    <2>1. ASSUME NEW k \in Keys
          PROVE  count'[k] =< MaxCount /\ ttl'[k] =< k.window
      <3>1. /\ ttl'[k] = IF ttl[k] > 0 THEN ttl[k] - 1 ELSE 0
            /\ count'[k] = IF ttl[k] = 1 THEN 0 ELSE count[k]
            /\ ttl[k] \in Nat /\ count[k] \in Nat
            /\ ttl[k] =< k.window /\ count[k] =< MaxCount
        BY <1>3 DEF Tick, ScoringInv, InRange
      <3>2. k.window \in Nat \ {0}
        BY KeysHaveWindows
      <3> QED BY <3>1, <3>2, ScoringAssumption
    <2> QED BY <1>3, <2>1 DEF Tick, InRange
  <1>4. CASE UNCHANGED vars
    BY <1>4 DEF vars, InRange
  <1> QED BY <1>1, <1>2, <1>3, <1>4, IncrInRange, ExpireInRange, FailInRange DEF Next

LEMMA InitInRange == Init => InRange
  <1>1. \A k \in Keys : k.window \in Nat
    BY KeysHaveWindows
  <1> QED BY <1>1, MaxScoreInRange, ScoringAssumption DEF Init, InRange, NoPenalty

(* The counters never pass their windows and their bound, and a score is   *)
(* within score_clamp whatever the base scores, the overrides and the      *)
(* penalties are, and whenever Redis fails (ScoreEngine.score).            *)
THEOREM ScoringTypes == Spec => []TypeOK
  <1>1. Init => InRange
    BY InitInRange
  <1>2. ScoringInv /\ InRange => TypeOK
    <2> SUFFICES ASSUME ScoringInv, InRange PROVE TypeOK
      OBVIOUS
    <2> USE DEF ScoringInv, InRange
    <2>1. count \in [Keys -> 0..MaxCount]
      BY ScoringAssumption
    <2>2. \A k \in Keys : ttl[k] \in 0..k.window
      <3>1. \A k \in Keys : k.window \in Nat
        BY KeysHaveWindows
      <3> QED BY <3>1
    <2>3. \A s \in Scorings : left[s] \in SUBSET VisitsOf[client[s]]
      OBVIOUS
    <2> QED BY <2>1, <2>2, <2>3 DEF TypeOK
  <1> QED BY <1>1, <1>2, AlwaysInv, StepInRange, PTL DEF Spec

-----------------------------------------------------------------------------
(* A scoring about to set the expiry of a key stays about to until its own *)
(* next step.                                                              *)
LEMMA OthersStayAbout ==
    ASSUME NEW s, NEW k,
           \A r \in Scorings \ {s} :
              phase'[r] = phase[r] /\ left'[r] = left[r] /\ client'[r] = client[r],
           NEW r \in Scorings \ {s}, phase[r] = "expire" /\ Current(r) = k
    PROVE  (phase[r] = "expire" /\ Current(r) = k)'
  BY DEF Current, Visit

LEMMA BeginOrphansNothing ==
    ASSUME ScoringInv, NEW s \in Scorings, NEW c \in Clients, Begin(s, c),
           NEW k \in Keys, ~Orphaned(k)
    PROVE  ~Orphaned(k)'
  <1>1. \A r \in Scorings \ {s} :
           phase'[r] = phase[r] /\ left'[r] = left[r] /\ client'[r] = client[r]
    BY DEF Begin, ScoringInv
  <1>2. UNCHANGED <<count, ttl>> /\ phase[s] # "expire"
    BY DEF Begin
  <1> QED BY <1>1, <1>2, OthersStayAbout DEF Orphaned

(* The INCR that creates the counter is followed by its EXPIRE; any other  *)
(* finds a counter that was there.                                         *)
LEMMA IncrOrphansNothing ==
    ASSUME ScoringInv, NEW s \in Scorings, Incr(s), NEW k \in Keys, ~Orphaned(k)
    PROVE  ~Orphaned(k)'
  <1> DEFINE n == Capped(count[Current(s)] + 1)
  <1>1. \A r \in Scorings \ {s} :
           phase'[r] = phase[r] /\ left'[r] = left[r] /\ client'[r] = client[r]
    BY IncrKeeps
  <1>2. phase[s] = "incr" /\ UNCHANGED ttl /\ count' = [count EXCEPT ![Current(s)] = n]
    BY DEF Incr
  <1>3. CASE k = Current(s) /\ NeedsExpiry(n)
    <2>1. phase' = [phase EXCEPT ![s] = "expire"] /\ UNCHANGED <<client, left>>
      BY <1>3 DEF Incr
    <2>2. (phase[s] = "expire" /\ Current(s) = k)'
      BY <1>3, <2>1 DEF ScoringInv, Current, Visit
    <2> QED BY <2>2 DEF Orphaned
  <1>4. CASE k = Current(s) /\ ~NeedsExpiry(n)
    <2>1. count[k] \in Nat
      BY DEF ScoringInv
    <2>2. count[k] > 0
      BY <1>4, <2>1, ScoringAssumption DEF NeedsExpiry, Capped
    <2> QED BY <1>1, <1>2, <2>2, OthersStayAbout DEF Orphaned
  <1>5. CASE k # Current(s)
    <2>1. count'[k] = count[k]
      BY <1>2, <1>5 DEF ScoringInv
    <2> QED BY <1>1, <1>2, <2>1, OthersStayAbout DEF Orphaned
  <1> QED BY <1>3, <1>4, <1>5

LEMMA ExpireOrphansNothing ==
    ASSUME ScoringInv, NEW s \in Scorings, Expire(s), NEW k \in Keys, ~Orphaned(k)
    PROVE  ~Orphaned(k)'
  <1>1. \A r \in Scorings \ {s} :
           phase'[r] = phase[r] /\ left'[r] = left[r] /\ client'[r] = client[r]
    BY ExpireKeeps
  <1>2. UNCHANGED count /\ ttl' = [ttl EXCEPT ![Current(s)] = Current(s).window]
    BY DEF Expire
  <1>3. CASE k = Current(s)
    <2>1. ttl'[k] # 0
      BY <1>2, <1>3, CurrentIsKey DEF ScoringInv, Expire
    <2> QED BY <2>1 DEF Orphaned
  <1>4. CASE k # Current(s)
    <2>1. ttl'[k] = ttl[k]
      BY <1>2, <1>4 DEF ScoringInv
    <2> QED BY <1>1, <1>2, <1>4, <2>1, OthersStayAbout DEF Orphaned
  <1> QED BY <1>3, <1>4

(* A counter goes with its expiry.                                         *)
LEMMA TickOrphansNothing ==
    ASSUME ScoringInv, Tick, NEW k \in Keys, ~Orphaned(k)
    PROVE  ~Orphaned(k)'
  <1>1. /\ ttl'[k] = IF ttl[k] > 0 THEN ttl[k] - 1 ELSE 0
        /\ count'[k] = IF ttl[k] = 1 THEN 0 ELSE count[k]
        /\ ttl[k] \in Nat /\ count[k] \in Nat
        /\ UNCHANGED <<phase, client, left>>
    BY DEF Tick, ScoringInv
  <1> QED BY <1>1 DEF Orphaned, Current, Visit

(* However many scorings overlap, on whatever keys: only a failing Redis   *)
(* call, or a kill, leaves a counter without its expiry.                   *)
THEOREM OverlapOrphansNothing == Spec => OnlyFailuresOrphan
  <1> DEFINE Kept == \A k \in Keys : ~Orphaned(k) /\ Orphaned(k)'
                        => Restart \/ \E s \in Scorings : Fail(s)
  <1>1. ScoringInv /\ [Next]_vars => Kept
    <2> SUFFICES ASSUME ScoringInv, [Next]_vars, NEW k \in Keys, ~Orphaned(k),
                        ~Restart, \A s \in Scorings : ~Fail(s)
                 PROVE  ~Orphaned(k)'
      OBVIOUS
    <2>1. CASE UNCHANGED vars
      BY <2>1 DEF vars, Orphaned, Current, Visit
    <2> QED BY <2>1, BeginOrphansNothing, IncrOrphansNothing, ExpireOrphansNothing,
               TickOrphansNothing DEF Next
  <1> QED BY <1>1, AlwaysInv, PTL DEF Spec, OnlyFailuresOrphan

-----------------------------------------------------------------------------
(* What an exempt client pays                                              *)

LEMMA HardPenaltyType ==
    ASSUME NEW c \in Clients, NEW v \in VisitsOf[c]
    PROVE  WindowOf(c, v).hard_penalty \in Nat
  <1>1. IsPenaltyConfig(WindowOf(c, v))
    BY VisitsAreValid
  <1> QED BY <1>1 DEF IsPenaltyConfig, Fields

LEMMA HardIsMeasure ==
    ASSUME NEW c \in Clients, NEW V, V \subseteq VisitsOf[c]
    PROVE  /\ IsMeasure([v \in V |-> WindowOf(c, v).hard_penalty])
           /\ HardPenalties(c, V) \in Nat
  <1> DEFINE f == [v \in V |-> WindowOf(c, v).hard_penalty]
  <1>1. IsFiniteSet(V)
    BY VisitsAreValid, FS_Subset
  <1>2. \A v \in V : f[v] \in Nat
    BY HardPenaltyType
  <1>3. IsMeasure(f)
    BY <1>1, <1>2 DEF IsMeasure
  <1> QED BY <1>3, TotalIsNat DEF HardPenalties

LEMMA HardMonotone ==
    ASSUME NEW c \in Clients, NEW W, W \subseteq VisitsOf[c], NEW V, V \subseteq W
    PROVE  HardPenalties(c, V) =< HardPenalties(c, W)
  <1> DEFINE f(X) == [v \in X |-> WindowOf(c, v).hard_penalty]
  <1>1. IsMeasure(f(V)) /\ IsMeasure(f(W))
    BY HardIsMeasure
  <1>2. \A v \in V : f(V)[v] =< f(W)[v]
    BY HardPenaltyType
  <1>3. DOMAIN f(V) = V /\ DOMAIN f(W) = W
    OBVIOUS
  <1> HIDE DEF f
  <1>4. Total(f(V)) =< Total(f(W))
    BY <1>1, <1>2, <1>3, TotalMonotone
  <1> QED BY <1>4 DEF HardPenalties, f

(* One more window adds its hard penalty.                                  *)
LEMMA HardAdds ==
    ASSUME NEW c \in Clients, NEW V, V \subseteq VisitsOf[c], NEW v \in VisitsOf[c], v \notin V
    PROVE  HardPenalties(c, V \union {v}) = HardPenalties(c, V) + WindowOf(c, v).hard_penalty
  <1> DEFINE f(X) == [w \in X |-> WindowOf(c, w).hard_penalty]
             W    == V \union {v}
  <1>1. IsMeasure(f(V)) /\ IsMeasure(f(W))
    BY HardIsMeasure
  <1>2. \A w \in V : f(W)[w] = f(V)[w]
    OBVIOUS
  <1>3. DOMAIN f(V) = V /\ DOMAIN f(W) = V \union {v} /\ f(W)[v] = WindowOf(c, v).hard_penalty
    OBVIOUS
  <1>4. Total(f(V)) = HardPenalties(c, V) /\ Total(f(W)) = HardPenalties(c, V \union {v})
    BY DEF HardPenalties
  <1> HIDE DEF f, W
  <1>5. Total(f(W)) = Total(f(V)) + f(W)[v]
    BY <1>1, <1>2, <1>3, TotalAddsTerm
  <1> QED BY <1>3, <1>4, <1>5

(* A window never costs more than its hard penalty.                        *)
LEMMA StepIsBounded ==
    ASSUME NEW w, IsPenaltyConfig(w), NEW hits
    PROVE  StepPenalty(hits, w) \in Nat /\ StepPenalty(hits, w) =< w.hard_penalty
  <1>1. /\ w.soft_penalty \in Nat /\ w.hard_penalty \in Nat
        /\ w.soft_penalty =< w.hard_penalty
    BY DEF IsPenaltyConfig, Fields
  <1> QED BY <1>1 DEF StepPenalty

LEMMA OwnStaysBounded ==
    ASSUME NEW c \in Clients, NEW L, L \subseteq VisitsOf[c], NEW v \in L, NEW n,
           NEW p \in [own : Nat, net : Nat], p.own =< HardPenalties(c, OwnVisits(c) \ L)
    PROVE  AddPenalty(p, c, v, n).own =< HardPenalties(c, OwnVisits(c) \ (L \ {v}))
  <1> DEFINE V == OwnVisits(c) \ L
             x == StepPenalty(n, WindowOf(c, v))
  <1>1. v \in VisitsOf[c] /\ V \subseteq VisitsOf[c] /\ v \notin V
    BY DEF OwnVisits
  <1>2. IsPenaltyConfig(WindowOf(c, v))
    BY <1>1, VisitsAreValid
  <1>3. x \in Nat /\ x =< WindowOf(c, v).hard_penalty /\ WindowOf(c, v).hard_penalty \in Nat
    BY <1>1, <1>2, StepIsBounded, HardPenaltyType
  <1>4. HardPenalties(c, V) \in Nat
    BY <1>1, HardIsMeasure
  <1>5. CASE IsOwn(DimensionOf(v))
    <2>1. OwnVisits(c) \ (L \ {v}) = V \union {v}
      BY <1>1, <1>5 DEF OwnVisits
    <2>2. HardPenalties(c, V \union {v}) = HardPenalties(c, V) + WindowOf(c, v).hard_penalty
      BY <1>1, HardAdds
    <2>3. AddPenalty(p, c, v, n).own = p.own + x
      BY <1>5 DEF AddPenalty
    <2> HIDE DEF V, x
    <2>4. p.own =< HardPenalties(c, V) /\ p.own \in Nat
      BY DEF V
    <2>5. p.own + x =< HardPenalties(c, V) + WindowOf(c, v).hard_penalty
      BY <1>3, <1>4, <2>4
    <2> QED BY <2>1, <2>2, <2>3, <2>5
  <1>6. CASE ~IsOwn(DimensionOf(v))
    <2>1. OwnVisits(c) \ (L \ {v}) = V
      BY <1>6 DEF OwnVisits
    <2>2. AddPenalty(p, c, v, n).own = p.own
      BY <1>6 DEF AddPenalty
    <2> QED BY <2>1, <2>2
  <1> QED BY <1>5, <1>6

LEMMA ClampIsMonotone ==
    ASSUME NEW m \in Int, NEW n \in Int, m =< n
    PROVE  Clamp(m) =< Clamp(n)
  BY ScoringAssumption DEF Clamp, AtLeast, AtMost, MinScore, MaxScore

(* The least an exempt client can be left with.                            *)
Least(c) == Clamp(Base(c) - WorstOf[c])

LEMMA LeastIs ==
    ASSUME NEW c \in Clients
    PROVE  /\ WorstOf[c] = HardPenalties(c, OwnVisits(c)) /\ WorstOf[c] \in Nat
           /\ Base(c) \in Int /\ Least(c) \in MinScore..MaxScore /\ Least(c) =< MaxScore
           /\ \A paid \in Nat : paid =< WorstOf[c] => Clamp(Base(c) - paid) >= Least(c)
  <1>1. WorstOf[c] = HardPenalties(c, OwnVisits(c))
    BY DEF WorstOf
  <1>2. WorstOf[c] \in Nat
    BY <1>1, HardIsMeasure DEF OwnVisits
  <1>3. Base(c) \in Int
    BY BaseType
  <1>4. Least(c) \in MinScore..MaxScore /\ MinScore \in Int /\ MaxScore \in Int
    BY <1>2, <1>3, ClampRange, ScoringAssumption DEF Least, MinScore, MaxScore
  <1>5. ASSUME NEW paid \in Nat, paid =< WorstOf[c]
        PROVE  Clamp(Base(c) - paid) >= Least(c)
    <2>1. /\ Base(c) - paid \in Int /\ Base(c) - WorstOf[c] \in Int
          /\ Base(c) - WorstOf[c] =< Base(c) - paid
      BY <1>2, <1>3, <1>5
    <2>2. Clamp(Base(c) - WorstOf[c]) =< Clamp(Base(c) - paid)
      BY <2>1, ClampIsMonotone
    <2>3. Clamp(Base(c) - paid) \in Int
      BY <2>1, ClampRange, <1>4
    <2> QED BY <1>4, <2>2, <2>3 DEF Least
  <1> QED BY <1>1, <1>2, <1>3, <1>4, <1>5

(* What a scoring has charged to its client's own windows is at most what  *)
(* those it has visited can charge.                                        *)
PaidForVisits ==
    \A s \in Scorings :
       /\ phase[s] = "idle" => penalty[s] = NoPenalty
       /\ penalty[s].own =< HardPenalties(client[s], OwnVisits(client[s]) \ left[s])

(* A scoring at rest has paid nothing.                                     *)
LEMMA NothingPaid ==
    ASSUME NEW c \in Clients, NEW L
    PROVE  NoPenalty.own =< HardPenalties(c, OwnVisits(c) \ L)
  <1>1. HardPenalties(c, OwnVisits(c) \ L) \in Nat
    BY HardIsMeasure DEF OwnVisits
  <1> QED BY <1>1 DEF NoPenalty

LEMMA AdvancePays ==
    ASSUME ScoringInv, InRange, PaidForVisits, ExemptPaysOwnOnly,
           NEW s \in Scorings, phase[s] # "idle", NEW n, Advance(s, n)
    PROVE  PaidForVisits' /\ ExemptPaysOwnOnly'
  <1> DEFINE c == client[s]
             v == Visit(s)
             p == AddPenalty(penalty[s], c, v, n)
  <1>1. /\ c \in Clients /\ v \in left[s] /\ left[s] \subseteq VisitsOf[c]
        /\ penalty[s] \in [own : Nat, net : Nat]
    BY VisitIsLeft DEF ScoringInv, InRange
  <1>2. p \in [own : Nat, net : Nat]
    <2>1. IsPenaltyConfig(WindowOf(c, v))
      BY <1>1, VisitsAreValid
    <2> QED BY <1>1, <2>1, AddPenaltyType
  <1>3. p.own =< HardPenalties(c, OwnVisits(c) \ (left[s] \ {v}))
    BY <1>1, OwnStaysBounded DEF PaidForVisits
  <1>4. UNCHANGED client
    BY AdvanceCases
  <1> HIDE DEF p
  <1>5. CASE left[s] = {v}
    <2>1. Finish(s, Final(c, p))
      BY <1>5 DEF Advance, p
    <2>2. PaidForVisits'
      BY <1>4, <2>1, NothingPaid DEF Finish, PaidForVisits, ScoringInv, InRange
    <2>3. IsExempt(c) => Final(c, p) >= Least(c)
      <3>1. OwnVisits(c) \ (left[s] \ {v}) = OwnVisits(c)
        BY <1>5
      <3>2. p.own \in Nat /\ p.own =< WorstOf[c]
        BY <1>1, <1>2, <1>3, <3>1, LeastIs
      <3>3. Base(c) - p.own - 0 = Base(c) - p.own
        BY <1>1, <3>2, LeastIs
      <3>4. IsExempt(c) => Final(c, p) = Clamp(Base(c) - p.own)
        BY <3>3 DEF Final
      <3> QED BY <1>1, <3>2, <3>4, LeastIs
    <2>4. score' = [score EXCEPT ![s] = Final(c, p)]
      BY <2>1 DEF Finish
    <2>5. ExemptPaysOwnOnly'
      BY <1>4, <2>3, <2>4 DEF ExemptPaysOwnOnly, InRange, Least
    <2> QED BY <2>2, <2>5
  <1>6. CASE left[s] # {v}
    <2>1. /\ phase' = [phase EXCEPT ![s] = "incr"]
          /\ left' = [left EXCEPT ![s] = left[s] \ {v}]
          /\ penalty' = [penalty EXCEPT ![s] = p] /\ UNCHANGED score
      BY <1>6, Zenon DEF Advance, p
    <2>2. PaidForVisits'
      BY <1>3, <1>4, <2>1 DEF PaidForVisits, ScoringInv, InRange
    <2>3. ExemptPaysOwnOnly'
      BY <1>4, <2>1 DEF ExemptPaysOwnOnly
    <2> QED BY <2>2, <2>3
  <1> QED BY <1>5, <1>6

LEMMA StepPays ==
    ScoringInv /\ InRange /\ PaidForVisits /\ ExemptPaysOwnOnly /\ [Next]_vars
       => PaidForVisits' /\ ExemptPaysOwnOnly'
  <1> SUFFICES ASSUME ScoringInv, InRange, PaidForVisits, ExemptPaysOwnOnly, [Next]_vars
               PROVE  PaidForVisits' /\ ExemptPaysOwnOnly'
    OBVIOUS
  <1>1. ASSUME NEW s \in Scorings, NEW c \in Clients, Begin(s, c)
        PROVE  PaidForVisits' /\ ExemptPaysOwnOnly'
    <2> DEFINE result == IF VisitsOf[c] = {} THEN Final(c, NoPenalty) ELSE MaxScore
    <2>1. /\ phase[s] = "idle" /\ \A r \in Scorings \ {s} : phase'[r] = phase[r]
          /\ client' = [client EXCEPT ![s] = c] /\ left' = [left EXCEPT ![s] = VisitsOf[c]]
          /\ score' = [score EXCEPT ![s] = result] /\ UNCHANGED penalty
      BY <1>1 DEF Begin, ScoringInv
    <2>2. PaidForVisits'
      BY <2>1, NothingPaid DEF PaidForVisits, ScoringInv
    <2>3. MaxScore >= Least(c)
      BY LeastIs, MaxScoreInRange
    <2>4. IsExempt(c) => Final(c, NoPenalty) >= Least(c)
      <3>1. Base(c) - 0 - 0 = Base(c) - 0 /\ 0 =< WorstOf[c]
        BY LeastIs
      <3> QED BY <3>1, LeastIs DEF Final, NoPenalty
    <2>5. IsExempt(c) => result >= Least(c)
      BY <2>3, <2>4
    <2> HIDE DEF result
    <2>6. ExemptPaysOwnOnly'
      BY <2>1, <2>5 DEF ExemptPaysOwnOnly, ScoringInv, InRange, Least
    <2> QED BY <2>2, <2>6
  <1>2. ASSUME NEW s \in Scorings, Incr(s)
        PROVE  PaidForVisits' /\ ExemptPaysOwnOnly'
    <2> DEFINE n == Capped(count[Current(s)] + 1)
    <2>1. CASE NeedsExpiry(n)
      BY <1>2, <2>1 DEF Incr, PaidForVisits, ExemptPaysOwnOnly, ScoringInv
    <2>2. CASE ~NeedsExpiry(n)
      BY <1>2, <2>2, AdvancePays DEF Incr
    <2> QED BY <2>1, <2>2
  <1>3. ASSUME NEW s \in Scorings, Expire(s)
        PROVE  PaidForVisits' /\ ExemptPaysOwnOnly'
    BY <1>3, AdvancePays DEF Expire
  <1>4. ASSUME NEW s \in Scorings, Fail(s)
        PROVE  PaidForVisits' /\ ExemptPaysOwnOnly'
    <2>1. Finish(s, Clamp(Base(client[s]))) /\ client[s] \in Clients
      BY <1>4 DEF Fail, Fails, ScoringInv
    <2>2. PaidForVisits'
      BY <2>1, NothingPaid DEF Finish, PaidForVisits, ScoringInv, InRange
    <2>3. Clamp(Base(client[s])) >= Least(client[s])
      <3>1. 0 =< WorstOf[client[s]] /\ Base(client[s]) - 0 = Base(client[s])
        BY <2>1, LeastIs
      <3> QED BY <2>1, <3>1, LeastIs
    <2>4. ExemptPaysOwnOnly'
      BY <2>1, <2>3 DEF Finish, ExemptPaysOwnOnly, InRange, Least
    <2> QED BY <2>2, <2>4
  <1>5. CASE Restart
    <2>1. PaidForVisits'
      BY <1>5, NothingPaid DEF Restart, PaidForVisits, ScoringInv
    <2>2. \A s \in Scorings : MaxScore >= Least(client[s])
      BY LeastIs, MaxScoreInRange DEF ScoringInv
    <2>3. ExemptPaysOwnOnly'
      BY <1>5, <2>2 DEF Restart, ExemptPaysOwnOnly, Least
    <2> QED BY <2>1, <2>3
  <1>6. CASE Tick
    BY <1>6 DEF Tick, PaidForVisits, ExemptPaysOwnOnly
  <1>7. CASE UNCHANGED vars
    BY <1>7 DEF vars, PaidForVisits, ExemptPaysOwnOnly
  <1> QED BY <1>1, <1>2, <1>3, <1>4, <1>5, <1>6, <1>7 DEF Next

(* However many scorings overlap on the counters of its network, and       *)
(* whenever Redis fails or the process is restarted: a client of an exempt *)
(* country is left with at least its base score less the hard penalties of *)
(* its own ip and user windows (the is_country_exempt test of              *)
(* calculate_score, and the fallback of ScoreEngine.score).                *)
THEOREM ExemptClientsPayTheirOwn == Spec => []ExemptPaysOwnOnly
  <1>1. Init => PaidForVisits /\ ExemptPaysOwnOnly
    <2> SUFFICES ASSUME Init PROVE PaidForVisits /\ ExemptPaysOwnOnly
      OBVIOUS
    <2>1. PaidForVisits
      BY NothingPaid DEF Init, PaidForVisits
    <2>2. \A s \in Scorings : client[s] \in Clients /\ score[s] = MaxScore
      BY DEF Init
    <2>3. \A s \in Scorings : MaxScore >= Least(client[s])
      BY <2>2, LeastIs, MaxScoreInRange
    <2> QED BY <2>1, <2>2, <2>3 DEF ExemptPaysOwnOnly, Least
  <1> QED BY <1>1, InitInRange, AlwaysInv, StepInRange, StepPays, PTL DEF Spec

-----------------------------------------------------------------------------
(* What a scoring that ends has been charged                               *)

LEMMA FirstHitType ==
    ASSUME NEW c \in Clients, NEW v \in VisitsOf[c]
    PROVE  StepPenalty(1, WindowOf(c, v)) \in Nat
  BY VisitsAreValid, StepPenaltyType

LEMMA FirstHitsAreMeasure ==
    ASSUME NEW c \in Clients, NEW V, V \subseteq VisitsOf[c]
    PROVE  /\ IsMeasure([v \in V |-> StepPenalty(1, WindowOf(c, v))])
           /\ FirstHits(c, V) \in Nat
  <1> DEFINE f == [v \in V |-> StepPenalty(1, WindowOf(c, v))]
  <1>1. IsFiniteSet(V)
    BY VisitsAreValid, FS_Subset
  <1>2. \A v \in V : f[v] \in Nat
    BY FirstHitType
  <1>3. IsMeasure(f)
    BY <1>1, <1>2 DEF IsMeasure
  <1> QED BY <1>3, TotalIsNat DEF FirstHits

(* One more visit adds what a first hit costs there.                       *)
LEMMA FirstHitsAdd ==
    ASSUME NEW c \in Clients, NEW V, V \subseteq VisitsOf[c], NEW v \in VisitsOf[c], v \notin V
    PROVE  FirstHits(c, V \union {v}) = FirstHits(c, V) + StepPenalty(1, WindowOf(c, v))
  <1> DEFINE f(X) == [w \in X |-> StepPenalty(1, WindowOf(c, w))]
             W    == V \union {v}
  <1>1. IsMeasure(f(V)) /\ IsMeasure(f(W))
    BY FirstHitsAreMeasure
  <1>2. \A w \in V : f(W)[w] = f(V)[w]
    OBVIOUS
  <1>3. DOMAIN f(V) = V /\ DOMAIN f(W) = V \union {v} /\ f(W)[v] = StepPenalty(1, WindowOf(c, v))
    OBVIOUS
  <1>4. Total(f(V)) = FirstHits(c, V) /\ Total(f(W)) = FirstHits(c, V \union {v})
    BY DEF FirstHits
  <1> HIDE DEF f, W
  <1>5. Total(f(W)) = Total(f(V)) + f(W)[v]
    BY <1>1, <1>2, <1>3, TotalAddsTerm
  <1> QED BY <1>3, <1>4, <1>5

LEMMA NoVisitsCostNothing ==
    ASSUME NEW c
    PROVE  FirstHits(c, {}) = 0
  BY EmptyTotal DEF FirstHits

(* No hit costs less than the first: thresholds and penalties are ordered. *)
LEMMA FirstIsCheapest ==
    ASSUME NEW w, IsPenaltyConfig(w), NEW n \in Nat \ {0}
    PROVE  StepPenalty(1, w) =< StepPenalty(n, w)
  <1>1. /\ w.soft_threshold \in Nat /\ w.hard_threshold \in Nat
        /\ w.soft_penalty \in Nat /\ w.hard_penalty \in Nat
        /\ w.hard_threshold >= w.soft_threshold /\ w.hard_penalty >= w.soft_penalty
    BY DEF IsPenaltyConfig, Fields
  <1> QED BY <1>1 DEF StepPenalty

(* A scoring under way has been charged at least the cost of first hits at *)
(* the windows it has visited, the client's own and the others apart.      *)
AtLeastCharged(c, L, p) ==
    /\ FirstHits(c, OwnVisits(c) \ L) =< p.own
    /\ FirstHits(c, NetVisits(c) \ L) =< p.net

ChargedSoFar ==
    \A s \in Scorings : phase[s] # "idle" => AtLeastCharged(client[s], left[s], penalty[s])

LEMMA VisitIsCharged ==
    ASSUME NEW c \in Clients, NEW L, L \subseteq VisitsOf[c], NEW v \in L, NEW n \in Nat \ {0},
           NEW p \in [own : Nat, net : Nat], AtLeastCharged(c, L, p)
    PROVE  AtLeastCharged(c, L \ {v}, AddPenalty(p, c, v, n))
  <1> DEFINE O == OwnVisits(c) \ L
             N == NetVisits(c) \ L
             x == StepPenalty(n, WindowOf(c, v))
             y == StepPenalty(1, WindowOf(c, v))
  <1>1. /\ v \in VisitsOf[c] /\ v \notin O /\ v \notin N
        /\ O \subseteq VisitsOf[c] /\ N \subseteq VisitsOf[c]
    BY DEF OwnVisits, NetVisits
  <1>2. x \in Nat /\ y \in Nat /\ y =< x
    BY <1>1, VisitsAreValid, FirstIsCheapest, StepPenaltyType
  <1>3. /\ FirstHits(c, O) \in Nat /\ FirstHits(c, N) \in Nat
        /\ FirstHits(c, O \union {v}) = FirstHits(c, O) + y
        /\ FirstHits(c, N \union {v}) = FirstHits(c, N) + y
    BY <1>1, FirstHitsAreMeasure, FirstHitsAdd
  <1>4. FirstHits(c, O) =< p.own /\ FirstHits(c, N) =< p.net
    BY DEF AtLeastCharged
  <1>5. CASE IsOwn(DimensionOf(v))
    <2>1. OwnVisits(c) \ (L \ {v}) = O \union {v} /\ NetVisits(c) \ (L \ {v}) = N
      BY <1>1, <1>5 DEF OwnVisits, NetVisits
    <2>2. AddPenalty(p, c, v, n).own = p.own + x /\ AddPenalty(p, c, v, n).net = p.net
      BY <1>5 DEF AddPenalty
    <2> HIDE DEF O, N, x, y
    <2>3. FirstHits(c, O \union {v}) =< p.own + x
      BY <1>2, <1>3, <1>4
    <2> QED BY <1>4, <2>1, <2>2, <2>3 DEF AtLeastCharged
  <1>6. CASE ~IsOwn(DimensionOf(v))
    <2>1. OwnVisits(c) \ (L \ {v}) = O /\ NetVisits(c) \ (L \ {v}) = N \union {v}
      BY <1>1, <1>6 DEF OwnVisits, NetVisits
    <2>2. AddPenalty(p, c, v, n).net = p.net + x /\ AddPenalty(p, c, v, n).own = p.own
      BY <1>6 DEF AddPenalty
    <2> HIDE DEF O, N, x, y
    <2>3. FirstHits(c, N \union {v}) =< p.net + x
      BY <1>2, <1>3, <1>4
    <2> QED BY <1>4, <2>1, <2>2, <2>3 DEF AtLeastCharged
  <1> QED BY <1>5, <1>6

LEMMA MoreIsLess ==
    ASSUME NEW c \in Clients, NEW p \in [own : Nat, net : Nat],
           NEW q \in [own : Nat, net : Nat], p.own =< q.own, p.net =< q.net
    PROVE  Final(c, q) =< Final(c, p)
  <1> DEFINE rest(r) == Base(c) - r.own - (IF IsExempt(c) THEN 0 ELSE r.net)
  <1>1. rest(q) \in Int /\ rest(p) \in Int /\ rest(q) =< rest(p)
    BY BaseType
  <1> QED BY <1>1, ClampIsMonotone DEF Final

(* After the last visit: everything has been charged.                      *)
LEMMA AllVisitsAreCharged ==
    ASSUME NEW c \in Clients, NEW p \in [own : Nat, net : Nat], AtLeastCharged(c, {}, p)
    PROVE  Final(c, p) =< Final(c, LeastCharge[c])
  <1>1. OwnVisits(c) \ {} = OwnVisits(c) /\ NetVisits(c) \ {} = NetVisits(c)
    OBVIOUS
  <1>2. LeastCharge[c] = [own |-> FirstHits(c, OwnVisits(c)), net |-> FirstHits(c, NetVisits(c))]
    BY DEF LeastCharge
  <1>3. FirstHits(c, OwnVisits(c)) \in Nat /\ FirstHits(c, NetVisits(c)) \in Nat
    BY FirstHitsAreMeasure DEF OwnVisits, NetVisits
  <1> QED BY <1>1, <1>2, <1>3, MoreIsLess DEF AtLeastCharged

LEMMA AdvanceCharges ==
    ASSUME ScoringInv, InRange, ChargedSoFar,
           NEW s \in Scorings, phase[s] # "idle", NEW n \in Nat \ {0}, Advance(s, n)
    PROVE  ChargedSoFar' /\ (phase'[s] = "idle" => Charged(s)')
  <1> DEFINE c == client[s]
             v == Visit(s)
             p == AddPenalty(penalty[s], c, v, n)
  <1>1. /\ c \in Clients /\ v \in left[s] /\ left[s] \subseteq VisitsOf[c]
        /\ penalty[s] \in [own : Nat, net : Nat]
    BY VisitIsLeft DEF ScoringInv, InRange
  <1>2. p \in [own : Nat, net : Nat]
    <2>1. IsPenaltyConfig(WindowOf(c, v))
      BY <1>1, VisitsAreValid
    <2> QED BY <1>1, <2>1, AddPenaltyType
  <1>3. AtLeastCharged(c, left[s] \ {v}, p)
    BY <1>1, VisitIsCharged DEF ChargedSoFar
  <1>4. UNCHANGED client
    BY AdvanceCases
  <1> HIDE DEF p
  <1>5. CASE left[s] = {v}
    <2>1. Finish(s, Final(c, p))
      BY <1>5 DEF Advance, p
    <2>2. ChargedSoFar'
      BY <1>4, <2>1 DEF Finish, ChargedSoFar, ScoringInv, InRange
    <2>3. Final(c, p) =< Final(c, LeastCharge[c])
      <3>1. left[s] \ {v} = {}
        BY <1>5
      <3> QED BY <1>1, <1>2, <1>3, <3>1, AllVisitsAreCharged
    <2>4. score'[s] = Final(c, p)
      BY <2>1 DEF Finish, InRange
    <2> QED BY <1>4, <2>2, <2>3, <2>4 DEF Charged
  <1>6. CASE left[s] # {v}
    <2>1. /\ phase' = [phase EXCEPT ![s] = "incr"]
          /\ left' = [left EXCEPT ![s] = left[s] \ {v}]
          /\ penalty' = [penalty EXCEPT ![s] = p]
      BY <1>6, Zenon DEF Advance, p
    <2>2. ChargedSoFar'
      BY <1>3, <1>4, <2>1 DEF ChargedSoFar, ScoringInv, InRange
    <2>3. phase'[s] # "idle"
      BY <2>1 DEF ScoringInv
    <2> QED BY <2>2, <2>3
  <1> QED BY <1>5, <1>6

(* A scoring ends by its last visit, by a failure or by a restart.         *)
LEMMA StepCharges ==
    ScoringInv /\ InRange /\ ChargedSoFar /\ [Next]_vars
       => /\ ChargedSoFar'
          /\ \A s \in Scorings : phase[s] # "idle" /\ phase'[s] = "idle" /\ ~Restart
                => score'[s] = Clamp(Base(client[s])) \/ Charged(s)'
  <1> DEFINE Ends(s) == phase[s] # "idle" /\ phase'[s] = "idle"
             Fair(s) == score'[s] = Clamp(Base(client[s])) \/ Charged(s)'
  <1> SUFFICES ASSUME ScoringInv, InRange, ChargedSoFar, [Next]_vars
               PROVE  ChargedSoFar' /\ \A s \in Scorings : Ends(s) /\ ~Restart => Fair(s)
    OBVIOUS
  <1>1. ASSUME NEW r \in Scorings, NEW c \in Clients, Begin(r, c)
        PROVE  ChargedSoFar' /\ \A s \in Scorings : ~Ends(s)
    <2>1. /\ phase[r] = "idle" /\ UNCHANGED penalty
          /\ \A s \in Scorings \ {r} : phase'[s] = phase[s]
          /\ client' = [client EXCEPT ![r] = c] /\ left' = [left EXCEPT ![r] = VisitsOf[c]]
      BY <1>1 DEF Begin, ScoringInv
    <2>2. AtLeastCharged(c, VisitsOf[c], penalty[r])
      <3>1. OwnVisits(c) \ VisitsOf[c] = {} /\ NetVisits(c) \ VisitsOf[c] = {}
        BY DEF OwnVisits, NetVisits
      <3>2. penalty[r] \in [own : Nat, net : Nat]
        BY DEF InRange
      <3>3. FirstHits(c, {}) =< penalty[r].own /\ FirstHits(c, {}) =< penalty[r].net
        BY <3>2, NoVisitsCostNothing
      <3> QED BY <3>1, <3>3 DEF AtLeastCharged
    <2>3. ChargedSoFar'
      BY <2>1, <2>2 DEF ChargedSoFar, ScoringInv
    <2> QED BY <2>1, <2>3
  <1>2. ASSUME NEW r \in Scorings, Incr(r)
        PROVE  ChargedSoFar' /\ \A s \in Scorings : Ends(s) => Fair(s)
    <2> DEFINE n == Capped(count[Current(r)] + 1)
    <2>1. \A s \in Scorings \ {r} : ~Ends(s)
      BY <1>2, IncrKeeps
    <2>2. CASE NeedsExpiry(n)
      <3>1. phase' = [phase EXCEPT ![r] = "expire"] /\ UNCHANGED <<client, left, penalty>>
        BY <1>2, <2>2 DEF Incr
      <3>2. ChargedSoFar'
        BY <1>2, <3>1 DEF Incr, ChargedSoFar, ScoringInv
      <3> QED BY <2>1, <3>1, <3>2 DEF ScoringInv
    <2>3. CASE ~NeedsExpiry(n)
      <3>1. n \in Nat \ {0} /\ phase[r] # "idle"
        BY <1>2, CurrentIsKey, ScoringAssumption DEF Incr, Capped, ScoringInv
      <3>2. Advance(r, n)
        BY <1>2, <2>3 DEF Incr
      <3> QED BY <2>1, <3>1, <3>2, AdvanceCharges
    <2> QED BY <2>2, <2>3
  <1>3. ASSUME NEW r \in Scorings, Expire(r)
        PROVE  ChargedSoFar' /\ \A s \in Scorings : Ends(s) => Fair(s)
    <2>1. \A s \in Scorings \ {r} : ~Ends(s)
      BY <1>3, ExpireKeeps
    <2> QED BY <1>3, <2>1, AdvanceCharges DEF Expire
  <1>4. ASSUME NEW r \in Scorings, Fail(r)
        PROVE  ChargedSoFar' /\ \A s \in Scorings : Ends(s) => Fair(s)
    <2>1. Finish(r, Clamp(Base(client[r])))
      BY <1>4 DEF Fail, Fails
    <2>2. ChargedSoFar'
      BY <2>1 DEF Finish, ChargedSoFar, ScoringInv, InRange
    <2>3. \A s \in Scorings \ {r} : ~Ends(s)
      BY <2>1 DEF Finish, ScoringInv
    <2>4. score'[r] = Clamp(Base(client[r]))
      BY <2>1 DEF Finish, InRange
    <2> QED BY <2>2, <2>3, <2>4
  <1>5. CASE Restart
    BY <1>5 DEF Restart, ChargedSoFar
  <1>6. CASE Tick
    BY <1>6 DEF Tick, ChargedSoFar
  <1>7. CASE UNCHANGED vars
    BY <1>7 DEF vars, ChargedSoFar
  <1> QED BY <1>1, <1>2, <1>3, <1>4, <1>5, <1>6, <1>7 DEF Next

(* For any windows, overlaps and failures of Redis: a scoring returns the  *)
(* base score or one that every window was charged to, never one charged   *)
(* to the windows before a failure only (the fallback of                   *)
(* ScoreEngine.score).                                                     *)
THEOREM AllOrNothingIsCharged == Spec => ChargedInFull
  <1>1. Init => ChargedSoFar
    BY DEF Init, ChargedSoFar
  <1> QED BY <1>1, InitInRange, AlwaysInv, StepInRange, StepCharges, PTL DEF Spec, ChargedInFull

-----------------------------------------------------------------------------
(* Fixed windows                                                           *)

(* A scoring about to set an expiry is the only one, and the counter it    *)
(* has created has none yet: a counter that is there never looks new.      *)
ExpiryIsFirst ==
    /\ \A k \in Keys : ttl[k] > 0 => count[k] > 0
    /\ \A s \in Scorings : phase[s] = "expire" => count[Current(s)] > 0 /\ ttl[Current(s)] = 0
    /\ \A r, s \in Scorings :
          phase[r] = "expire" /\ phase[s] = "expire" /\ Current(r) = Current(s) => r = s

(* The other scorings are where they were.                                 *)
OthersStay(s) ==
    \A r \in Scorings \ {s} :
       phase'[r] = phase[r] /\ left'[r] = left[r] /\ client'[r] = client[r]

LEMMA OthersStayThere ==
    ASSUME NEW s, OthersStay(s), NEW r \in Scorings \ {s}
    PROVE  phase'[r] = phase[r] /\ Current(r)' = Current(r)
  BY DEF OthersStay, Current, Visit

(* Nobody new is about to set an expiry; the counters that somebody is     *)
(* about to are untouched, and the others keep theirs.                     *)
LEMMA FirstIsKept ==
    ASSUME ExpiryIsFirst, NEW s \in Scorings, OthersStay(s), phase'[s] # "expire",
           \A k \in Keys : ttl'[k] > 0 => count'[k] > 0,
           \A r \in Scorings \ {s} : phase[r] = "expire" =>
              count'[Current(r)] > 0 /\ ttl'[Current(r)] = 0
    PROVE  ExpiryIsFirst'
  <1>1. ASSUME NEW r \in Scorings, phase'[r] = "expire"
        PROVE  r \in Scorings \ {s} /\ phase[r] = "expire" /\ Current(r)' = Current(r)
    BY <1>1, OthersStayThere
  <1>2. \A r \in Scorings : phase'[r] = "expire" =>
           count'[Current(r)'] > 0 /\ ttl'[Current(r)'] = 0
    BY <1>1
  <1>3. \A q, r \in Scorings : phase'[q] = "expire" /\ phase'[r] = "expire"
                               /\ Current(q)' = Current(r)' => q = r
    BY <1>1 DEF ExpiryIsFirst
  <1> QED BY <1>2, <1>3 DEF ExpiryIsFirst

LEMMA AdvanceEnds ==
    ASSUME ScoringInv, NEW s \in Scorings, phase[s] # "idle", NEW n, Advance(s, n)
    PROVE  OthersStay(s) /\ phase'[s] # "expire"
  BY AdvanceCases DEF OthersStay, ScoringInv

LEMMA FinishEnds ==
    ASSUME ScoringInv, NEW s \in Scorings, NEW result, Finish(s, result)
    PROVE  OthersStay(s) /\ phase'[s] # "expire"
  BY DEF Finish, OthersStay, ScoringInv

(* A hit on a counter that is there, and the hit that creates one.         *)
LEMMA HitKeepsFirst ==
    ASSUME ScoringInv, ExpiryIsFirst, NEW s \in Scorings, phase[s] = "incr",
           count' = [count EXCEPT ![Current(s)] = Capped(count[Current(s)] + 1)],
           UNCHANGED ttl
    PROVE  /\ \A k \in Keys : ttl'[k] > 0 => count'[k] > 0
           /\ \A r \in Scorings : phase[r] = "expire" =>
                 count'[Current(r)] > 0 /\ ttl'[Current(r)] = 0
  <1>1. Capped(count[Current(s)] + 1) > 0
    BY CurrentIsKey, ScoringAssumption DEF ScoringInv, Capped
  <1>2. \A k \in Keys : count[k] > 0 => count'[k] > 0
    BY <1>1 DEF ScoringInv
  <1>3. \A r \in Scorings : phase[r] = "expire" => Current(r) \in Keys
    BY CurrentIsKey
  <1> QED BY <1>2, <1>3 DEF ExpiryIsFirst

LEMMA IncrKeepsFirst ==
    ASSUME ScoringInv, ExpiryIsFirst, NEW s \in Scorings, Incr(s)
    PROVE  ExpiryIsFirst'
  <1> DEFINE k == Current(s)
             n == Capped(count[k] + 1)
  <1>1. /\ phase[s] = "incr" /\ k \in Keys
        /\ count' = [count EXCEPT ![k] = n] /\ UNCHANGED ttl
    BY CurrentIsKey DEF Incr
  <1>2. /\ \A j \in Keys : ttl'[j] > 0 => count'[j] > 0
        /\ \A r \in Scorings : phase[r] = "expire" =>
              count'[Current(r)] > 0 /\ ttl'[Current(r)] = 0
    BY <1>1, HitKeepsFirst
  <1>3. CASE NeedsExpiry(n)
    <2>1. phase' = [phase EXCEPT ![s] = "expire"] /\ UNCHANGED <<client, left>>
      BY <1>3 DEF Incr
    <2>2. OthersStay(s) /\ phase'[s] = "expire" /\ Current(s)' = k
      BY <2>1 DEF OthersStay, ScoringInv, Current, Visit
    <2>3. count[k] = 0 /\ n = 1
      <3>1. n = 1
        BY <1>3 DEF NeedsExpiry
      <3>2. count[k] \in Nat /\ MaxCount \in Nat \ {0, 1}
        BY <1>1, ScoringAssumption DEF ScoringInv
      <3>3. n = IF count[k] + 1 > MaxCount THEN MaxCount ELSE count[k] + 1
        BY DEF Capped
      <3> HIDE DEF n
      <3> QED BY <3>1, <3>2, <3>3
    <2>4. ttl[k] = 0 /\ \A r \in Scorings : phase[r] = "expire" => Current(r) # k
      BY <1>1, <2>3 DEF ExpiryIsFirst, ScoringInv
    <2>5. count'[k] > 0 /\ ttl'[k] = 0
      BY <1>1, <2>3, <2>4 DEF ScoringInv
    <2>6. ASSUME NEW r \in Scorings, phase'[r] = "expire"
          PROVE  count'[Current(r)'] > 0 /\ ttl'[Current(r)'] = 0
      <3>1. CASE r = s
        BY <2>2, <2>5, <3>1
      <3>2. CASE r # s
        BY <1>2, <2>2, <2>6, <3>2, OthersStayThere
      <3> QED BY <3>1, <3>2
    <2>7. ASSUME NEW q \in Scorings, NEW r \in Scorings, phase'[q] = "expire",
                 phase'[r] = "expire", Current(q)' = Current(r)'
          PROVE  q = r
      <3>1. \A p \in Scorings \ {s} : phase'[p] = phase[p] /\ Current(p)' = Current(p)
        BY <2>2, OthersStayThere
      <3>2. CASE q = s \/ r = s
        BY <2>2, <2>4, <2>7, <3>1, <3>2
      <3>3. CASE q # s /\ r # s
        BY <2>7, <3>1, <3>3 DEF ExpiryIsFirst
      <3> QED BY <3>2, <3>3
    <2> QED BY <1>2, <2>6, <2>7 DEF ExpiryIsFirst
  <1>4. CASE ~NeedsExpiry(n)
    <2>1. Advance(s, n)
      BY <1>4 DEF Incr
    <2>2. OthersStay(s) /\ phase'[s] # "expire"
      BY <1>1, <2>1, AdvanceEnds
    <2> QED BY <1>2, <2>2, FirstIsKept
  <1> QED BY <1>3, <1>4

(* Setting the expiry, by the only scoring about to.                       *)
LEMMA SetKeepsFirst ==
    ASSUME ScoringInv, ExpiryIsFirst, NEW s \in Scorings, phase[s] = "expire",
           ttl' = [ttl EXCEPT ![Current(s)] = Current(s).window], UNCHANGED count
    PROVE  /\ \A k \in Keys : ttl'[k] > 0 => count'[k] > 0
           /\ \A r \in Scorings \ {s} : phase[r] = "expire" =>
                 count'[Current(r)] > 0 /\ ttl'[Current(r)] = 0
           /\ \A k \in Keys : ttl[k] > 0 => ttl'[k] = ttl[k]
  <1>1. count[Current(s)] > 0 /\ ttl[Current(s)] = 0 /\ Current(s) \in Keys
    BY CurrentIsKey DEF ExpiryIsFirst
  <1>2. \A k \in Keys \ {Current(s)} : ttl'[k] = ttl[k]
    BY DEF ScoringInv
  <1>3. \A r \in Scorings \ {s} : phase[r] = "expire" =>
           Current(r) \in Keys \ {Current(s)}
    BY CurrentIsKey DEF ExpiryIsFirst
  <1> QED BY <1>1, <1>2, <1>3 DEF ExpiryIsFirst, ScoringInv

LEMMA ExpireKeepsFirst ==
    ASSUME ScoringInv, ExpiryIsFirst, NEW s \in Scorings, Expire(s)
    PROVE  ExpiryIsFirst'
  <1>1. /\ phase[s] = "expire" /\ UNCHANGED count /\ Advance(s, 1)
        /\ ttl' = [ttl EXCEPT ![Current(s)] = Current(s).window]
    BY DEF Expire
  <1>2. OthersStay(s) /\ phase'[s] # "expire"
    BY <1>1, AdvanceEnds
  <1> QED BY <1>1, <1>2, SetKeepsFirst, FirstIsKept

LEMMA FailKeepsFirst ==
    ASSUME ScoringInv, ExpiryIsFirst, NEW s \in Scorings, Fail(s)
    PROVE  ExpiryIsFirst'
  <1>1. OthersStay(s) /\ phase'[s] # "expire"
    BY FinishEnds DEF Fail, Fails
  <1>2. /\ \A k \in Keys : ttl'[k] > 0 => count'[k] > 0
        /\ \A r \in Scorings \ {s} : phase[r] = "expire" =>
              count'[Current(r)] > 0 /\ ttl'[Current(r)] = 0
    <2>1. CASE UNCHANGED <<count, ttl>>
      BY <2>1 DEF ExpiryIsFirst
    <2>2. CASE /\ phase[s] = "incr" /\ UNCHANGED ttl
               /\ count' = [count EXCEPT ![Current(s)] = Capped(@ + 1)]
      BY <2>2, HitKeepsFirst
    <2>3. CASE /\ phase[s] = "expire" /\ UNCHANGED count
               /\ ttl' = [ttl EXCEPT ![Current(s)] = Current(s).window]
      BY <2>3, SetKeepsFirst
    <2> QED BY <2>1, <2>2, <2>3 DEF Fail, Fails
  <1> QED BY <1>1, <1>2, FirstIsKept

LEMMA TickKeepsFirst ==
    ASSUME ScoringInv, ExpiryIsFirst, Tick
    PROVE  ExpiryIsFirst'
  <1>1. \A k \in Keys : /\ ttl'[k] = IF ttl[k] > 0 THEN ttl[k] - 1 ELSE 0
                        /\ count'[k] = IF ttl[k] = 1 THEN 0 ELSE count[k]
                        /\ ttl[k] \in Nat /\ count[k] \in Nat
    BY DEF Tick, ScoringInv
  <1>2. \A s \in Scorings : phase'[s] = phase[s] /\ Current(s)' = Current(s)
    BY DEF Tick, Current, Visit
  <1>3. \A k \in Keys : ttl'[k] > 0 => count'[k] > 0
    BY <1>1 DEF ExpiryIsFirst
  <1>4. \A s \in Scorings : phase[s] = "expire" => Current(s) \in Keys
    BY CurrentIsKey
  <1>5. \A s \in Scorings : phase'[s] = "expire" =>
           count'[Current(s)'] > 0 /\ ttl'[Current(s)'] = 0
    BY <1>1, <1>2, <1>4 DEF ExpiryIsFirst
  <1> QED BY <1>2, <1>3, <1>5 DEF ExpiryIsFirst

LEMMA StepKeepsFirst == ScoringInv /\ ExpiryIsFirst /\ [Next]_vars => ExpiryIsFirst'
  <1> SUFFICES ASSUME ScoringInv, ExpiryIsFirst, [Next]_vars PROVE ExpiryIsFirst'
    OBVIOUS
  <1>1. ASSUME NEW s \in Scorings, NEW c \in Clients, Begin(s, c)
        PROVE  ExpiryIsFirst'
    <2>1. OthersStay(s) /\ phase'[s] # "expire" /\ UNCHANGED <<count, ttl>>
      BY <1>1 DEF Begin, OthersStay, ScoringInv
    <2> QED BY <2>1, FirstIsKept DEF ExpiryIsFirst
  <1>2. CASE Restart
    BY <1>2 DEF Restart, ExpiryIsFirst
  <1>3. CASE UNCHANGED vars
    <2>1. UNCHANGED <<count, ttl, phase>> /\ \A s \in Scorings : Current(s)' = Current(s)
      BY <1>3 DEF vars, Current, Visit
    <2> QED BY <2>1 DEF ExpiryIsFirst
  <1> QED BY <1>1, <1>2, <1>3, IncrKeepsFirst, ExpireKeepsFirst, FailKeepsFirst,
             TickKeepsFirst DEF Next

(* No overlap, failure or restart moves the end of a window that has one:  *)
(* only the first hit sets it (the comment in increment_and_get).          *)
THEOREM WindowsStayFixed == Spec => WindowsAreFixed
  <1> DEFINE Kept == \A k \in Keys : ttl[k] > 0 => ttl'[k] =< ttl[k]
  <1>1. Init => ExpiryIsFirst
    BY DEF Init, ExpiryIsFirst
  <1>2. ScoringInv /\ ExpiryIsFirst /\ [Next]_vars => Kept
    <2> SUFFICES ASSUME ScoringInv, ExpiryIsFirst, [Next]_vars PROVE Kept
      OBVIOUS
    <2>1. \A k \in Keys : ttl[k] \in Nat
      BY DEF ScoringInv
    <2>2. CASE UNCHANGED ttl
      BY <2>1, <2>2
    <2>3. CASE \E s \in Scorings : /\ phase[s] = "expire" /\ UNCHANGED count
                                   /\ ttl' = [ttl EXCEPT ![Current(s)] = Current(s).window]
      <3>1. PICK s \in Scorings : /\ phase[s] = "expire" /\ UNCHANGED count
                                  /\ ttl' = [ttl EXCEPT ![Current(s)] = Current(s).window]
        BY <2>3
      <3>2. \A k \in Keys : ttl[k] > 0 => ttl'[k] = ttl[k]
        BY <3>1, SetKeepsFirst
      <3> QED BY <2>1, <3>2
    <2>4. CASE Tick
      BY <2>1, <2>4 DEF Tick
    <2>5. ASSUME NEW s \in Scorings, Fail(s)
          PROVE  Kept
      <3>1. \/ UNCHANGED ttl
            \/ /\ phase[s] = "expire" /\ UNCHANGED count
               /\ ttl' = [ttl EXCEPT ![Current(s)] = Current(s).window]
        BY <2>5 DEF Fail, Fails
      <3> QED BY <2>2, <2>3, <3>1
    <2> HIDE DEF Kept
    <2> QED BY <2>2, <2>3, <2>4, <2>5 DEF Next, vars, Begin, Incr, Expire, Restart
  <1> QED BY <1>1, <1>2, AlwaysInv, StepKeepsFirst, PTL DEF Spec, WindowsAreFixed
=============================================================================
