# Adaptive admission controller: TLA+ models, checks and proofs

The adaptive admission controller (AAC) is an asyncio reverse proxy.  It scores
every request, queues it per backend by score, admits it when a slot of the
backend's concurrency limit is free, and sends it to one of the backend's
instances.  This directory models the parts of `src/app` that carry that logic,
model-checks them with TLC on small instances, and proves with TLAPS, for every
value of the constants, the safety properties that matter most: that a backend is
a priority service, that its slots and instances are accounted for, that no
wake-up is lost, that selection is fair and prefers primaries, that penalties are
merged, charged and expire as they should, that requests are charged to who sent them and routed
to the most specific backend.  Every invariant and every action property of the
runs is proved, and the safety core of every liveness property; what stays with
TLC is liveness itself.

## 1. The system

One process, one event loop, one worker task per backend.

| component | state | operations | what makes it correct |
|---|---|---|---|
| proxy handler (`main.py`) | the await on the request's future, under `wait_for` | classify, score, enqueue, await, respond or 503 | every waiting request is answered; one slot per dispatched request |
| priority scheduler (`scheduler.py`) | heap of `(-score, arrival, ctx, future)` | `enqueue` with two refusals, `run_worker` | best entry first, a given-up entry gives its slot back and is not sent, refusals end |
| capacity controllers (`capacity.py`) | limit, slots in use, sliding windows, waiters of a condition | `acquire`, `release`, `adjust_loop` | slots never above the limit of the moment, no lost wake-up, the limit follows overload and stays in range |
| dispatcher (`dispatcher.py`) | none of its own; a detached task per request | `dispatch_queued`: select, send, release on four exit paths, resolve the future | each of the four exits gives back one slot and one instance count; no response is left open |
| load balancer (`load_balancer.py`) | in-flight count and health per instance, sticky pins | `select`, `release`, `health_check_loop` | counts match the dispatches, no instance above its fair share because of a pin, recovery, fail-back to primaries |
| score engine and penalty store (`scoring.py`, `penalty_store.py`) | counters with expiry in Redis | `score`, `increment_and_get` | counters expire, scores stay in range, penalties are charged all or none, exempt clients pay only for themselves |
| JWT verifier (`auth.py`) | the current key set | `initial_fetch`, `refresh_loop`, `verify` | a failed refresh keeps the keys and the loop, tokens follow the published keys |
| GeoIP lookup (`geoip.py`) | bounded cache with expiry | `lookup` | bounded, never older than its TTL |
| registry, classifier (`registry.py`, `classifier.py`) | sorted prefixes | `match`, `classify` | most specific prefix wins, whatever the order of the file |
| trusted-proxy middleware (`ingress.py`) | none | client address by hops | a request is charged to an address somebody connected from, never to an entry of a header it came with |
| configuration (`config.py`) | none after start-up | validation, override merge | merging an override into the defaults never makes a busier client cheaper |
| admin, health, metrics, logging | counters | reads | - |
| GeoIP update (`scripts/update_geoip_db.py`) | the database files | download, validate, replace | a path never names a broken database, wherever it is killed |
| other scripts | - | test drivers | - |

How they interact.  `proxy_handler` calls the scheduler's `enqueue`, which puts
an entry with a fresh future, and awaits that future with a timeout.  The worker
acquires a slot from the controller, then takes an entry; if its future has been
cancelled it releases the slot at once, else it starts a detached task running
`dispatch_queued`, which owns the slot from then on.  That task asks the load
balancer for an instance, sends, reports the outcome to the balancer and to the
controller, and resolves the future.  Independently, `adjust_loop` moves the
limit, `health_check_loop` probes instances, and the timer of `wait_for`
cancels futures.  The balancer reads the controller's limit
(`capacity_hint`) to decide whether a pinned instance has its fair share.

What is hard.  The timer races the worker and the dispatch at every point
between `enqueue` and the handler's resumption; dispatches outlive their
handlers, and read a request's body after its handler may have answered it; the
limit moves below the slots in use; the pool of instances changes
while requests run and while it is being probed; scorings of clients that share
a network interleave on two-step Redis updates any of which can fail, and the
counters outlive the process.
`PROJECT.json` lists these hazards at the lines where they bite.

### Atomicity

A step of a model is what one task does between two suspensions.  The bodies of
the `asyncio.Lock` and `asyncio.Condition` sections contain no `await`, so no
such lock is ever held across a suspension and taking it does not suspend; hence
`select`, `release` and the whole exit path of a dispatch are one step each.
`queue.get()` and `acquire()` do not suspend when they can return at once, so
the worker's iteration suspends only to wait for a slot or for an entry.  The
models still put a step boundary between two iterations, which only adds
interleavings.  `wait_for`'s timer and the `except` branch it leads to are one
step: what the branch writes is read by nobody else.

## 2. Modules

| module | models | composed into |
|---|---|---|
| `CapacityController` | slots, limit and latency window as the scheduler sees them: the contract of `interfaces.CapacityController`; with `MinLimit = MaxLimit` it is `FixedController` | `Scheduler`; abstract specification of `AdaptiveController` |
| `Scheduler` | `PriorityScheduler`: refusals, order, the worker's three cases | `Backend` |
| `LoadBalancer` | `LeastLoadedLoadBalancer`: pool, pins, fair share, health loop, sweep | `Backend`, `LoadBalancerSystem` |
| `PriorityService` | what a backend promises its requests, without queue, worker, instances or limit: the abstract specification of `Backend` | `Backend` (`INSTANCE ... WITH`) |
| `Backend` | scheduler, controller and balancer with `proxy_handler` and `dispatch_queued`; the main specification | `BackendProofs`, `BackendClaims` |
| `BackendProofs`, `ServiceProofs` | theorems about `Backend`; that it implements `PriorityService` | - |
| `BackendClaims` | statements of the documents and docstrings that the code does not satisfy | - |
| `LoadBalancerSystem` | the balancer with instances that crash and return | - |
| `LoadBalancerProofs`, `LoadBalancerSystemProofs` | lemmas about the balancer's operations (used by both systems); theorems about the system | - |
| `AdaptiveController`, `AdaptiveProofs` | condition variable, three windows, `_adjust`; its theorems | - |
| `AdaptiveClaims` | the documented growth rule | - |
| `Totals`, `TotalTheorems` | Python's `sum()` and `len()` as a cardinality, without recursion; lemmas about totals and first members of finite sets | `PenaltyScoring`, `Routing`; the proofs of penalties, routes and the balancer |
| `Configuration` | what is validated of penalties, backends and overrides, and `resolve_scoring_config` | `PenaltyScoring`, `Routing` |
| `PenaltyScoring`, `MCPenaltyScoring`, `PenaltyScoringProofs` | concurrent scorings, by resolved configurations, over Redis counters; its theorems | - |
| `Routing` | the middleware, the route table and the registry | `Classification` |
| `GeoIP` | the update script and the lookup cache | `Classification` |
| `JWTVerifier` | key set, refresh task, user classes; Keycloak as environment | `Classification` |
| `Classification`, `MCClassification`, `ClassificationProofs` | the three above over starts and stops of the process; its theorems | - |

`CapacityController`, `Scheduler`, `LoadBalancer`, `Configuration`, `Routing`,
`GeoIP` and `JWTVerifier` hold state and operations
without a specification of their own actors: the operations become actions
where a caller exists.  Operators named in a comment that begins with "Mutant"
are deliberate errors in the definition that follows; `PROJECT.json` pairs each
with the property it must break.

### Correspondence

* Slots: `inFlight`, `limit` are `_in_flight`, `_limit`.  Every request costs
  one slot (decision log A3).  `latency` is the window behind `mean()`; the mean
  is compared as a fraction, so no rounding enters.
* Queue: `queue` is the set of requests with an entry; the heap order is
  `Before`.  Requests are numbered by `arrival_time`, which `classify` reads
  before scoring awaits Redis, so they are enqueued in any order.  A tie in
  score and arrival is excluded by the numbering.
* Future: `none`, `pending`, `cancelled` (by the timer), `done` (`set_result`).
  `asyncio` lets the timer fire between `set_result` and the resumption of the
  handler: `QueueTimer` is enabled on a done future and drops its result.
* Dispatch: `created` (task exists), `uploading` (an instance is selected; the
  connection is made and the body read from `request.stream()`), `awaiting` (the
  response), `closing` (in `aclose()` of a response whose request gave up),
  `finished`, and `raised`: an exception that is not an `httpx.HTTPError`, after
  which no release runs.  It comes from `request.stream()`, hence from
  `uploading` only: the client has left, or its request has been answered.
* Service: `StatusOf` computes from handler and task where a request stands in
  `PriorityService`; the future, the entry of a request that gave up, the
  worker's slot in advance, instances and the limit's moves have no counterpart.
* `LimitMoves` lets the limit take any value of its range at any time;
  `AdaptiveController` shows that the real controller does no more.
* Balancer: time is abstract; `stale` holds the clients whose pin is older than
  the TTL.  `StickyClients` are those that have a sticky key, hence none for a
  backend without sticky sessions and never the client without an address.  In
  `LoadBalancerSystem` a connect fails while the instance is down (`refused`) and
  is reported when the dispatch ends, by which time the instance may be back.  Instances are numbered in configuration order, the order in which
  `min` breaks ties and the health loop probes.
* Adaptive controller: rates and the p95 rule are exact.  The products with
  0.60, 0.75, 0.85 and 1.05 truncate in doubles as the exact products do;
  `int(l * 0.70)` is one less for some multiples of ten (90, 170, 180, 330, ...),
  which `Truncated` computes for limits up to ten million, and
  `TruncationAssumption` spells out for the limits of `config/backends.yaml`.
  Cooldowns are 30 or 60 s against a 30 s tick.
* Configuration: a record of the YAML sections with the code's names; an absent
  override is an empty one.  `StartsUp` is the second validation, of the merged
  windows, which ends the start-up.
* Penalties: what a client's requests are classified as is a constant; from it
  and the resolved configuration `VisitsOf` computes the increments of a scoring,
  as pairs of a dimension and one of its windows, which `Precedes` orders as the
  loops of the code do.  `left` is the set of them whose count has not come back:
  a scoring's place in its loops.  A hit is `INCR`, then `EXPIRE` if the count is
  1, with other scorings in between.  `Fail` fails any call before or after it
  took effect, and the engine returns the clamped base score.  `Restart` drops
  the scorings and keeps the counters.  A dimension the request has no value for
  has no visits; a scoring without any finishes as it begins, since nothing in it
  suspends.
* Routing: a path is the sequence of its segments; a header is the sequence of
  its entries, some blank, and `Entries` are the positions of those that are not;
  the length of a prefix is the total over its segments.  Each proxy appends the address of who connects to
  it, to what the sender put there (`Arrivals`).  The process's own routes come
  before the catch-all and answer GET and HEAD; a POST to an exempt path falls
  through to the proxy with no client address, as in the code.
* GeoIP: a file is `whole`, `bad` or `absent`; the cache is the sequence of its
  addresses by timestamp, and entries expire in that order; an entry that is
  looked up again moves to the end.  The databases never
  change in a running process, so the cached values are left out.
* JWT: `_safe_refresh` reads the response, leaves the client's context (a
  suspension), then assigns the keys: `ReadResponse` and `ReplaceKeys`.  The
  endpoint `answers`, `fails` as the code expects, or serves an `odd` key
  set: it is read like any other and raises once the context is left
  (`closing_odd`), when its parsing fails outside the `except` clause.

## 3. What the runs check

| run | instance | shows |
|---|---|---|
| `backend_safety` | 3 requests of one sticky client, 2 scores, 1 instance, limit 1..2, queue of 2, window of 1 (3.0 million states) | slots and instance counts balance; no slot is taken above the limit; no overtaking; nobody waits for nothing and no entry is left for nobody; only a late timer leaks a response |
| `backend_progress` | 3 requests of one score, limit 1..2, fair loop | implements `PriorityService`, by which given-up requests are not sent; every one of finitely many waiting requests is served, refusals end, cancelled responses are closed |
| `load_balancer` | 2 primaries, 1 backup, a sticky client and one without an address, 2 dispatches, limit 1..2 (118 000 states) | `select()` returns one instance, of the best tier, within its fair share, evictions and outages included; every step of the health loop gets nearer to each probe and to the sweep; instances recover, traffic fails back, expired pins go |
| `adaptive_grow` | bounds 20..22 and an initial limit of 24, outside them, 3 callers, 4 latencies (250 000 states) | no lost wake-up; implements `CapacityController!ContractSpec` |
| `adaptive_shrink` | limits 1..5, 1 caller, fair loop | every tick in overload makes progress, and persistent overload reaches the minimum; the worker gets its slot |
| `penalty_scoring` | 2 clients sharing a network key and one without any value, 2 scorings, 2 backends, restarts; any of 83 overrides of the defaults (292 000 states) | overrides keep penalties monotone; penalties are charged all or none; counters reset, their windows are fixed, only failures and kills orphan one, exempt clients pay only for themselves |
| `classification` | 2 editions, 2 keys, 2 proxies, 3 addresses looked up for 2 cache entries, restarts; all choices of 3 of 7 prefixes against 12 paths (396 000 states) | addresses come from connections, routing is most specific, installed databases are whole, eviction takes expired entries first, a failed refresh loses no key and revives none, tokens follow the published keys |
| `claim_*` | as above, `claim_*` of the backend with 2 requests | the findings below |

Bounds.  Three requests are one in service, one queued and one arriving with a
limit of 1, two in service and one queued with a limit of 2, or a full queue and
one arriving before the worker has run; both refusals occur, and so does a limit that drops below the slots in use.  Two scores and
free enqueue order give every order of priority against arrival.  A window of one sample
reaches the projection early; nothing depends on the number ten.  Two primaries and a backup
give all three pools, a pinned instance and an alternative; two dispatches are
enough to fill the fair share of a limit of 2 and to exceed it.  A second client
matters for the pins; two sticky ones were checked once (846 000 states), in a
run too long to keep.  Limits of
20 and more are those that growth by 5% moves, and the initial limit of 24 is
above its maximum; limits 1..5 are those where truncation matters most.  Overrides set any fields of the first window of a dimension to
values below and above those of the defaults.  Prefixes are nested three deep, with and without a final slash, and
with a sibling that shares letters but no segment; three of them in any order are
a chosen backend, a better and a worse one.  Headers sent by a client hold up to
as many entries as there are proxies, blanks included.  `MaxCount` saturates the penalty counters at the hard threshold,
above which nothing changes; it is above 1, so that a second hit never looks like
the first.  `Latencies`, `Scores` and `Statuses` are the
classes of data the code distinguishes.

Deadlock is checked in every run: each model always has a background step or a
refusal left.

Fairness.  `Backend!FairSpec`: the event loop runs ready tasks, so the worker
and every dispatch step are weakly fair, and a handler whose future is done is
resumed; a send ends because the `httpx` timeouts bound it and because an upload
ends: with the body, or in `Raise` once the client has left or its queue timer
has answered it, after which `request.stream()` raises.  No fairness for
arrivals, for the `wait_for` timer, for the limit or for the health loop: each of
finitely many waiting requests is served without any of them.  `LoadBalancerSystem`: the
health loop ticks and its probes return (both bounded by timeouts); nothing of
the instances or the traffic.  `AdaptiveController`: notified callers run, some
release happens while slots are in use, the adjustment task ticks.
`PenaltyScoring`: time passes and a scoring gets its replies.
`Classification`: the refresh task runs; nothing of Keycloak, restarts or updates.

What the liveness properties do not promise.  No request is promised service
against an endless stream of requests with higher scores: the queue is strictly by
score, without aging, so there only the timer ends its wait, as
`docs/old/requirements.md` says (FR-035, and "Priority causes starvation" of its
section 14; the weighted fair scheduling of its FR-032 is not implemented).  `WaitersAreServed` is about finitely many requests, of which only
finitely many can go first.  `backend_progress` has three of one score; the order
by score is in `NoOvertaking`, with two, and in the theorem `BackendIsService`.
`InstancesRecover` is about instances that stay up, so that connects, TLS
included, succeed from then on; a failure of before may still be reported, once
per dispatch.  `WaitersAreServed` and
`AdmissionReopens` except the state `Wedged`, where as many dispatches have
ended by an uncaught exception as there are slots: the code then really stops.
`WaitersAcquire` is checked with one caller, as the program has one worker per
backend (the three of `NoLostWakeup` test the condition variable beyond that); with several, a newcomer may overtake a notified waiter for ever.
`OverloadShrinksToMinimum` assumes a filled latency window, as documented.
`TokensFollowKeys` excepts a process whose refresh task an exception has ended,
and `CountersReset` a counter that a failure has left without its expiry; the
latter is checked for the keys several clients share, the case in which a
window could be kept open.

## 4. Findings

| run | code | against |
|---|---|---|
| `claim_slot_released` | a dispatch that reads its request's body after the queue timer has answered it (or whose client leaves during the upload) ends by `ClientDisconnect`, outside `httpx.HTTPError`, without its releases | its docstring, "Always releases the slot" |
| `claim_response_closed` | the timer fires after `set_result`: nobody closes the response | the same docstring |
| `claim_expiry` | a failure, or a kill, between `INCR` and `EXPIRE` leaves a counter for ever | the comment in `increment_and_get` |
| `claim_growth` | `int(limit * 1.05) = limit` below 20: no growth | `docs/architecture.md` |
| `claim_refresh` | a key set that cannot be parsed ends the start-up or the refresh loop | `auth.py`, `tests/unit/test_auth.py` |

Smaller divergences seen while reading, which no run is spent on: the timeout
named after the queue also ends dispatched requests (`docs/configuration.md`
says otherwise); discarded entries and refused connections enter the latency
window although a test is named after successes only; the in-flight gauge counts
waiting handlers, not dispatches; nothing checks that an initial limit lies
between its bounds, and shrinking applies only the lower one; the GeoIP cache is
documented as LRU and evicts by age; two windows of a dimension with equal
`window_seconds` share a key and count every request twice.

## 5. What is proved

Every theorem holds for every value of the constants that meets the named
assumptions of the modules.  A property in parentheses is not listed by a run.

| module | theorem | property | argument |
|---|---|---|---|
| `BackendProofs` | `TypeCorrect` | `TypeOK` | inductive with `SendersHaveInstance`: a sending task has an instance, without which the release in its exit path would not be typed |
| | `SlotsAccounted` | `SlotAccounting` | inductive with the types and `Lifecycle` |
| | `AdmissionBounded` | (`AdmissionBound`) | by a step argument from the guard of the acquisition |
| | `NeverOverAdmitted` | `NeverOverAdmits` | from the same invariant |
| | `NobodyOvertakes` | `NoOvertaking` | a waiting request without a task is in the queue (`Lifecycle`), and the worker takes the first |
| | `GivenUpRequestsAreNotSent` | (`GivenUpNeverSent`) | the only step that creates a task looks at the future |
| | `InstancesAccounted` | `InstanceAccounting` | inductive with `OnlySendersHold`: only a sending or raised task holds an instance, so a selection always counts a new one |
| | `SomebodyIsToServe` | `WaitersHaveProspects` | were no dispatch to give a slot back, `SlotAccounting` would leave in use only the slots of raised dispatches and the worker's own, and `Lifecycle` puts the waiting request in the queue |
| | `SendsAreFair` | (`SendsWithinFairShare`) | by both accountings: a dispatch about to select has a slot and no instance, every other with an instance has a slot, so the placed dispatches are fewer than the limit; then the pigeonhole argument of `LoadBalancerProofs` |
| `ServiceProofs` | `BackendIsService` | `ImplementsService` | every step of the backend is a step of the service or a stutter, under the slot invariant, `Lifecycle` and what a future says of its task (`FutureTold`) |
| | `LeaksComeFromLateTimers` | `OnlyLateTimersLeak` | headers that arrive find a future that is cancelled, whose response the task closes, or pending, whose handler waits (`FutureTold`); only the timer takes that handler away |
| | `GivenUpResponsesAreClosing` | (`CancelledIsClosing`) | inductive with `UnresolvedIsUnread`: a future that has no result has no response and no closing task, so the timer never cancels one with a response behind it |
| `AdaptiveProofs` | `AdaptiveTypes` | `TypeOK` | inductive with `WaitsOnce` |
| | `NoWakeupIsLost` | `NoLostWakeup` | inductive with the types and `WaitsOnce`: nobody waits twice, so that a notification moves a caller from the waiters to the notified |
| | `NeverAboveTheLimit` | (`NeverOverAdmits`) | from the types |
| | `AdaptiveMeetsContract` | `ImplementsContract` | each step is a contract step; a new limit is within the range the three configured limits span, in any order |
| | `OverloadMakesProgress` | `OverloadedTicksShrink` | the truncated product is below the limit for each shrinking percentage, where 0.70 loses one as well, and a skipped tick shortens the cooldown: a ranking of limit and cooldown |
| `LoadBalancerSystemProofs` | `SystemTypes`, `RoundsAreCurrent` | `TypeOK`, (`ProbedAreDown`) | inductive with the accounting of dispatches per instance |
| | `SelectAlwaysReturns` | `SelectionIsTotal` | the pool is finite and never empty; by load, then position, its members are strictly ordered, and such a set has a first (`FiniteHasFirst`) |
| | `BackupsOnlyStandIn` | `SelectsBestTier` | what is chosen, pinned or not, is in the pool, and a pool is one tier |
| | `EveryInstanceIsProbed`, `EveryRoundSweeps` | `ProbesReachEveryone`, `SweepsComeRound` | a probe takes the first of the list off it, which lowers what is before the others and what is left; a new round lists everybody who is down |
| | `SelectionsAreFair` | `SelectionWithinFairShare` | by that accounting and a pigeonhole argument: if each of `n` members of the pool held `ceil(limit / n)` dispatches there would be as many as `limit`, so a least loaded one holds fewer; a pin survives only below its share, or when everyone is at it |
| `PenaltyScoringProofs` | `PenaltiesAreMonotone` | `PenaltyNeverEases` | a merged window that validates is a step function that does not fall |
| | `OverlapOrphansNothing` | `OnlyFailuresOrphan` | inductive `ScoringInv`: a scoring under way has a visit before it; then by the INCR that makes 1 being followed by its own EXPIRE, whatever others do |
| | `ScoringTypes` | `TypeOK` | `InRange` on top of `ScoringInv` |
| | `ExemptClientsPayTheirOwn` | `ExemptPaysOwnOnly` | inductive with `PaidForVisits`: what a scoring has charged to its client's own windows is at most the hard penalties of those it has visited; totals are monotone and add term by term |
| | `AllOrNothingIsCharged` | `ChargedInFull` | inductive `ChargedSoFar`: a scoring under way has charged at least what first hits cost at every visit it has made; a scoring that ends has made them all, or returns the base score |
| | `WindowsStayFixed` | `WindowsAreFixed` | inductive `ExpiryIsFirst`: a counter with an expiry is not zero, and a scoring about to set one is the only one, on a counter that has none |
| `ClassificationProofs` | `InstalledAreWhole` | `InstalledIsWhole` | inductive with `ValidatedIsWhole`: from its validation to the rename an archive is whole |
| | `ClassificationTypes` | `TypeOK` | inductive with `CacheInOrder`: no address is cached twice and the expired ones are the oldest |
| | `ClientsAreBelieved` | `CacheHoldsClients` | what comes before the first proxy's own entry, blanks included, does not change how many entries follow it: counted from the right it is the `Hops`-th |
| | `ExpiredGoFirst` | `FreshOutlivesExpired` | by `CacheInOrder`, the head that is evicted is expired if any entry is |
| | `PrefixesDoNotHide` | `RoutesToMostSpecific` | a prefix below another is longer, and the match is the longest; the lemma `MostSpecificFirst` holds for any number of backends |
| | `SettledKeysAreStable` | `SettledKeysStay` | of a ready process only a successful fetch moves keys or response, and it replaces the whole set by one read from Keycloak |

The invariants are conjunctions of named parts, and the proof of each
preservation has one step per action.  `SlotAccounting` alone is not inductive: a
hand-over adds a holder only if the request had none, which needs `Lifecycle` (a
request in the queue has no task yet, and a handler waiting without a task has
its entry in the queue).  Neither are `ExemptPaysOwnOnly`,
`ChargedInFull` and `FreshOutlivesExpired`: the score of a scoring that ends rests
on what it has added up on the way, and what an eviction takes on the order of the
whole cache.
`OnlyFailuresOrphan` and `WindowsAreFixed` are the two halves of one
argument: a counter without an expiry has a scoring about to set it, and only one.
Likewise `InstanceAccounting` needs that a dispatch
about to select holds no instance, and `NoLostWakeup` that nobody waits
twice.  Cardinality facts come from `FiniteSetTheorems`.  A sum is the
cardinality of a set of units (`Totals`), so that it is monotone and additive by
those facts; a recursive sum would need an induction the provers cannot do.

Assumptions worth knowing.  `AdaptiveAssumption` asks of the minimum, initial and
maximum limit that they are positive, as the configuration does, and nothing of
their order or size; the 20, 100 and 500 of `config/backends.yaml` are covered.
`ScoringAssumption` takes the score clamp to be ordered and a base score to exist
for the classes scored; the code checks neither (see section 6).
It also takes `MaxCount`, where
counters saturate, to be above 1: with a cap of 1 every hit would look like the
first.  `ClassificationAssumption` takes `xff_trusted_hops` to be the number of
proxies, what they append not to be blank, and no client to have a blank
address.  `SegmentAssumption` says that a segment is a string: it has a length,
which is 0 for the empty one only.  `IsList`, in `IsDefaultPenalties`,
`RoutingAssumption` and `ClassificationAssumption`, says that a list is a finite
sequence of its elements; TLC evaluates all of these on the instances.

Only model-checked: all liveness properties, since fairness and `ENABLED` are
beyond the prover.  The safety core of each is proved, which leaves to fairness
only that the step in question is taken: `WaitersHaveProspects` for
`WaitersAreServed` and `AdmissionReopens`, `CancelledIsClosing` for
`CancelledResponseCloses`, `OverloadedTicksShrink` for
`OverloadShrinksToMinimum`, `NoLostWakeup` for `WaitersAcquire`,
`OnlyFailuresOrphan` with `WindowsAreFixed` for `CountersReset`,
`ProbesReachEveryone` for `InstancesRecover`, `SweepsComeRound` for
`ExpiredPinsGo`, `SelectsBestTier` for `TrafficFailsBack`, and `SettledKeysStay`
for `TokensFollowKeys`.

Only proved: properties that no run lists, most of them because a property of a
run implies them.  `AdmissionBound` and `GivenUpNeverSent` of `Backend` follow from
`ImplementsService`, `CancelledIsClosing` from `OnlyLateTimersLeak`, and
`NeverOverAdmits` of `AdaptiveController` from `ImplementsContract`; they are
stated for the reader and proved directly.  `ProbedAreDown` is part of the
inductive invariant of `LoadBalancerSystem`.  `SendsWithinFairShare` says little
of the single instance of `backend_safety`; with `NumPrimaries = 2` in
`BackendSafety.cfg` TLC confirms it on 7.6 million states, in more than four
minutes, too long to be a run.

## 6. Not modelled

* Header filtering, the content of bodies, the `httpx` pool, metrics and log
  formatting: no control depends on them.  Signature checks, address parsing,
  database reads and Redis itself are library code.
* Admin, health and metrics endpoints are reads without state; their routes
  appear in `Routing`.  The documentation routes FastAPI adds by itself, in
  front of the proxy's, are left out.
* Shutdown: the server lets open requests finish, then the tasks of `lifespan`
  are cancelled and the clients closed; dispatches that outlive their answered
  requests are abandoned with the process.  `Stop` and `Restart` model the end
  and the next start, not the order in between.
* Configurations the code accepts and then fails on: a class without a base
  score raises `KeyError` in the scoring and again in its fallback, a 500; an
  override that breaks the order of a window raises in `lifespan`, after the
  guard around `load_config`; a clamp with its bounds reversed always scores its
  minimum.  The models assume them away by name.  Ranges that pydantic declares
  for the other sections are assumptions on the constants.
* Addresses that do not parse, and the derivation of subnets from those that do.
* The test drivers in `scripts/`.

What a next step would be: the order of shutdown with the dispatches it
abandons, and the HTTP client's pool, whose exhaustion a leaked response leads
to.
