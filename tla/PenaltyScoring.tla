--------------------------- MODULE PenaltyScoring ---------------------------
(***************************************************************************)
(* The score engine of app/scoring.py on the Redis counters of             *)
(* app/penalty_store.py: concurrent scorings, each a series of INCRs with  *)
(* an await between any two, an EXPIRE after the INCR that created a key,  *)
(* and failures of Redis at any of them.                                   *)
(*                                                                         *)
(* A visit <<n, k>> is one increment of a scoring: that for the k-th window *)
(* of the n-th dimension, which the client has a value for.  Counts        *)
(* saturate at MaxCount, at every threshold or beyond: above 1, so that a   *)
(* second hit is not taken for the first.                                  *)
(***************************************************************************)
EXTENDS Configuration, FiniteSets, Totals

CONSTANTS
    Scorings,      \* ScoreEngine.score calls that may overlap
    Clients,       \* who is scored
    ContextOf,     \* client -> what its requests are classified as
    Scoring,       \* the scoring section of the configuration
    Backends,      \* its backends, in the order of the file
    Overrides,     \* overrides considered for two of them
    MaxCount       \* where counts saturate

NoValue == "none"    \* a dimension the request has no value for

ASSUME ScoringAssumption ==
    /\ MaxCount \in Nat \ {0, 1}
    /\ Accepted(Scoring, Backends) /\ StartsUp(Scoring, Backends)
    /\ {Scoring.score_clamp.min_score, Scoring.score_clamp.max_score} \subseteq Int
    /\ Scoring.score_clamp.min_score =< Scoring.score_clamp.max_score
    /\ \A c \in Clients :
          /\ ContextOf[c].backend \in DOMAIN Backends
          /\ Resolved(Scoring, Backends, ContextOf[c].backend)
                .base_scores[ContextOf[c].user_class] \in Int
    /\ \A n \in DOMAIN Backends, d \in DimensionNames :
          LET windows == Resolved(Scoring, Backends, n).penalties[d]
          IN  \A k \in DOMAIN windows : windows[k].hard_threshold =< MaxCount

-----------------------------------------------------------------------------
(* What a client's requests are scored by                                  *)

PolicyOf == [c \in Clients |-> Resolved(Scoring, Backends, ContextOf[c].backend)]

Base(c) == PolicyOf[c].base_scores[ContextOf[c].user_class]

IsExempt(c) == ContextOf[c].values["country"] \in PolicyOf[c].exempt_countries

(* The visits of calculate_score: none of a dimension without a value.     *)
VisitsOf ==
    [c \in Clients |->
        UNION {{n} \X DOMAIN PolicyOf[c].penalties[Dimensions[n]] :
                  n \in {m \in DOMAIN Dimensions : ContextOf[c].values[Dimensions[m]] # NoValue}}]

(* Dimension by dimension, and each of them window by window.              *)
Precedes(v, w) == v[1] < w[1] \/ (v[1] = w[1] /\ v[2] < w[2])

DimensionOf(v) == Dimensions[v[1]]

WindowOf(c, v) == PolicyOf[c].penalties[DimensionOf(v)][v[2]]

KeyOf(c, v) ==
    LET w == WindowOf(c, v)
    IN  [dim |-> DimensionOf(v), value |-> ContextOf[c].values[DimensionOf(v)],
         backend |-> Backends[ContextOf[c].backend].name, window |-> w.window_seconds]

Keys == UNION {{KeyOf(c, v) : v \in VisitsOf[c]} : c \in Clients}

VARIABLES
    count,      \* Redis: key -> count, 0 if the key does not exist
    ttl,        \* Redis: ticks left, 0 if the key has no expiry
    phase,      \* scoring: idle, or about to incr() or expire()
    client,     \* who the scoring is for
    left,       \* the visits whose count has not come back
    penalty,    \* what applies so far: [own |-> ip and user, net |-> the others]
    score       \* the result of a finished scoring, max_score before

vars == <<count, ttl, phase, client, left, penalty, score>>

MinScore == Scoring.score_clamp.min_score
MaxScore == Scoring.score_clamp.max_score

NoPenalty == [own |-> 0, net |-> 0]

TypeOK ==
    /\ count \in [Keys -> 0..MaxCount]
    /\ \A k \in Keys : ttl[k] \in 0..k.window
    /\ DOMAIN ttl = Keys
    /\ phase \in [Scorings -> {"idle", "incr", "expire"}]
    /\ client \in [Scorings -> Clients]
    /\ \A s \in Scorings : left[s] \in SUBSET VisitsOf[client[s]]
    /\ penalty \in [Scorings -> [own : Nat, net : Nat]]
    /\ score \in [Scorings -> MinScore..MaxScore]

Init ==
    /\ count = [k \in Keys |-> 0]
    /\ ttl = [k \in Keys |-> 0]
    /\ phase = [s \in Scorings |-> "idle"]
    /\ client \in [Scorings -> Clients]
    /\ left = [s \in Scorings |-> {}]
    /\ penalty = [s \in Scorings |-> NoPenalty]
    /\ score = [s \in Scorings |-> MaxScore]

-----------------------------------------------------------------------------
Capped(n) == IF n > MaxCount THEN MaxCount ELSE n

AtMost(m, n)  == IF n < m THEN n ELSE m
AtLeast(m, n) == IF n > m THEN n ELSE m

(* Mutant: no lower clamp.                                                 *)
ClampAbove(n) == AtMost(MaxScore, n)

Clamp(n) == AtLeast(MinScore, AtMost(MaxScore, n))

(* ip and user penalties are the client's own; the rest are its network's. *)
IsOwn(d) == d \in {"ip", "user"}

AddPenalty(p, c, v, n) ==
    LET step == StepPenalty(n, WindowOf(c, v))
    IN  IF IsOwn(DimensionOf(v)) THEN [p EXCEPT !.own = @ + step]
                                 ELSE [p EXCEPT !.net = @ + step]

(* Mutant: the exemption is forgotten.                                     *)
FinalForAll(c, p) == Clamp(Base(c) - p.own - p.net)

(* An exempt client pays only its own penalties.                           *)
Final(c, p) ==
    Clamp(Base(c) - p.own - (IF IsExempt(c) THEN 0 ELSE p.net))

(* The next step of the loops.                                             *)
Visit(s)   == CHOOSE v \in left[s] : \A w \in left[s] \ {v} : Precedes(v, w)
Current(s) == KeyOf(client[s], Visit(s))

(* A client without a value for any dimension, such as one whose address   *)
(* is not known, costs no round trip and pays nothing.                     *)
Begin(s, c) ==
    /\ phase[s] = "idle"
    /\ client' = [client EXCEPT ![s] = c]
    /\ left' = [left EXCEPT ![s] = VisitsOf[c]]
    /\ IF VisitsOf[c] = {}
       THEN score' = [score EXCEPT ![s] = Final(c, NoPenalty)] /\ UNCHANGED phase
       ELSE /\ score' = [score EXCEPT ![s] = MaxScore]
            /\ phase' = [phase EXCEPT ![s] = "incr"]
    /\ UNCHANGED <<count, ttl, penalty>>

Finish(s, result) ==
    /\ phase' = [phase EXCEPT ![s] = "idle"]
    /\ left' = [left EXCEPT ![s] = {}]
    /\ penalty' = [penalty EXCEPT ![s] = NoPenalty]
    /\ score' = [score EXCEPT ![s] = result]
    /\ UNCHANGED client

(* increment_and_get() has returned n: the last visit ends the scoring.    *)
Advance(s, n) ==
    LET p == AddPenalty(penalty[s], client[s], Visit(s), n) IN
    IF left[s] = {Visit(s)}
    THEN Finish(s, Final(client[s], p))
    ELSE /\ phase' = [phase EXCEPT ![s] = "incr"]
         /\ left' = [left EXCEPT ![s] = @ \ {Visit(s)}]
         /\ penalty' = [penalty EXCEPT ![s] = p]
         /\ UNCHANGED <<client, score>>

(* Mutants: no hit sets the expiry, or every hit sets it anew.             *)
NeedsExpiryNever(n) == n = 0
NeedsExpiryAlways(n) == n > 0

NeedsExpiry(n) == n = 1

Incr(s) ==
    LET k == Current(s)
        n == Capped(count[k] + 1)
    IN  /\ phase[s] = "incr"
        /\ count' = [count EXCEPT ![k] = n]
        /\ IF NeedsExpiry(n)
           THEN /\ phase' = [phase EXCEPT ![s] = "expire"]
                /\ UNCHANGED <<client, left, penalty, score>>
           ELSE Advance(s, n)
        /\ UNCHANGED ttl

(* Only the first hit of a window sets its expiry, so the count returned   *)
(* is 1 whatever other scorings have added meanwhile.                      *)
Expire(s) ==
    /\ phase[s] = "expire"
    /\ ttl' = [ttl EXCEPT ![Current(s)] = Current(s).window]
    /\ Advance(s, 1)
    /\ UNCHANGED count

(* A Redis call fails, before or after it took effect: the engine falls    *)
(* back to the base score without penalties.                               *)
Fails(s, result) ==
    /\ phase[s] # "idle"
    /\ \/ UNCHANGED <<count, ttl>>
       \/ /\ phase[s] = "incr"
          /\ count' = [count EXCEPT ![Current(s)] = Capped(@ + 1)]
          /\ UNCHANGED ttl
       \/ /\ phase[s] = "expire"
          /\ ttl' = [ttl EXCEPT ![Current(s)] = Current(s).window]
          /\ UNCHANGED count
    /\ Finish(s, result)

(* Mutant: the penalties found before the failure are charged.             *)
FailCharged(s) == Fails(s, Final(client[s], penalty[s]))

Fail(s) == Fails(s, Clamp(Base(client[s])))

(* The process stops or is killed and is started again: its scorings are   *)
(* gone, the counters stay.  (A kill whose last call still takes effect is *)
(* such a Fail followed by this.)                                          *)
Restart ==
    /\ phase' = [s \in Scorings |-> "idle"]
    /\ left' = [s \in Scorings |-> {}]
    /\ penalty' = [s \in Scorings |-> NoPenalty]
    /\ score' = [s \in Scorings |-> MaxScore]
    /\ UNCHANGED <<count, ttl, client>>

(* Redis: time passes and keys expire.                                     *)
Tick ==
    /\ \E k \in Keys : ttl[k] > 0
    /\ ttl' = [k \in Keys |-> IF ttl[k] > 0 THEN ttl[k] - 1 ELSE 0]
    /\ count' = [k \in Keys |-> IF ttl[k] = 1 THEN 0 ELSE count[k]]
    /\ UNCHANGED <<phase, client, left, penalty, score>>

Next ==
    \/ \E s \in Scorings : \/ \E c \in Clients : Begin(s, c)
                           \/ Incr(s) \/ Expire(s) \/ Fail(s)
    \/ Restart
    \/ Tick

Spec == Init /\ [][Next]_vars

(* Time passes, and a scoring that has begun gets its replies.             *)
FairSpec == Spec /\ WF_vars(Tick)
                 /\ \A s \in Scorings : WF_vars(Incr(s) \/ Expire(s) \/ Fail(s))

-----------------------------------------------------------------------------
(* A counter without an expiry has a scoring about to set it.  The comment *)
(* in increment_and_get relies on it; a failure of Redis breaks it, or a   *)
(* process killed between the two calls.                                   *)
Orphaned(k) ==
    /\ count[k] > 0 /\ ttl[k] = 0
    /\ \A s \in Scorings : ~(phase[s] = "expire" /\ Current(s) = k)

CountersHaveExpiry == \A k \in Keys : ~Orphaned(k)

(* Nothing but a failing Redis call or a kill leaves a counter without its *)
(* expiry, however the two round trips of overlapping scorings interleave  *)
(* with each other and with the end of a window.                           *)
OnlyFailuresOrphan ==
    [][\A k \in Keys : ~Orphaned(k) /\ Orphaned(k)'
          => Restart \/ \E s \in Scorings : Fail(s)]_vars

(* Windows are fixed: once a window has its end, no hit moves it back,     *)
(* whatever other scorings are between the two round trips of theirs.      *)
WindowsAreFixed == [][\A k \in Keys : ttl[k] > 0 => ttl'[k] =< ttl[k]]_vars

(* The keys that the requests of several clients lead to.                  *)
SharedKeys ==
    {k \in Keys : \E c, d \in Clients :
        c # d /\ \A x \in {c, d} : \E v \in VisitsOf[x] : KeyOf(x, v) = k}

(* A window ends even if those who share it never stop sending: its        *)
(* counter goes back to zero, unless an interrupted scoring has left it    *)
(* without its expiry.                                                     *)
CountersReset == \A k \in SharedKeys : count[k] > 0 ~> count[k] = 0 \/ Orphaned(k)

(* An exempt client pays for its own keys only: whatever others do to the  *)
(* counters of its network, and whenever Redis fails, its score stays      *)
(* above what the hard penalties of its own windows leave of the base.     *)
OwnVisits(c) == {v \in VisitsOf[c] : IsOwn(DimensionOf(v))}

HardPenalties(c, visits) == Total([v \in visits |-> WindowOf(c, v).hard_penalty])

WorstOf == [c \in Clients |-> HardPenalties(c, OwnVisits(c))]

ExemptPaysOwnOnly ==
    \A s \in Scorings : IsExempt(client[s]) =>
       score[s] >= Clamp(Base(client[s]) - WorstOf[client[s]])

(* The lowest that the given visits can cost: a first hit at each.         *)
FirstHits(c, visits) == Total([v \in visits |-> StepPenalty(1, WindowOf(c, v))])

NetVisits(c) == VisitsOf[c] \ OwnVisits(c)

LeastCharge ==
    [c \in Clients |-> [own |-> FirstHits(c, OwnVisits(c)), net |-> FirstHits(c, NetVisits(c))]]

(* Penalties are charged all or none: a scoring that ends, however many of *)
(* its calls had succeeded before one failed and whoever else was counting *)
(* on the same keys, returns the base score, or one that every window of   *)
(* the client has been charged to (the fallback of ScoreEngine.score).     *)
Charged(s) == score[s] =< Final(client[s], LeastCharge[client[s]])

ChargedInFull ==
    [][\A s \in Scorings : phase[s] # "idle" /\ phase'[s] = "idle" /\ ~Restart
          => score'[s] = Clamp(Base(client[s])) \/ Charged(s)']_vars

(* The first two backends with any two of the overrides.                   *)
Overridden(o1, o2) ==
    [n \in DOMAIN Backends |->
        IF n = 1 THEN [Backends[1] EXCEPT !.overrides = o1]
        ELSE IF n = 2 THEN [Backends[2] EXCEPT !.overrides = o2] ELSE Backends[n]]

(* The overrides of two backends that start-up lets through.               *)
Running == {o \in Overrides \X Overrides : StartsUp(Scoring, Overridden(o[1], o[2]))}

ResolvedInOrder == \A o \in Running : MonotonePolicy(Scoring, Overridden(o[1], o[2]), MaxCount)

(* Policies are resolved at start-up, before anything is scored.           *)
AtRest == \A s \in Scorings : phase[s] = "idle"

(* No override start-up lets through makes a busier client cheaper: the    *)
(* windows are validated after the merge, not only in the file.            *)
PenaltyNeverEases == AtRest => ResolvedInOrder
=============================================================================
