--------------------------- MODULE Classification ---------------------------
(***************************************************************************)
(* What a request is classified by (app/classifier.py), over the life of   *)
(* the process (lifespan of app/main.py): the client address it arrives    *)
(* with, the GeoIP databases and their cache, and the key set of the JWT   *)
(* verifier.  A process opens the databases, fetches the keys and is       *)
(* ready; it may stop at any time and be started again, while databases    *)
(* are updated and keys rotate.                                            *)
(***************************************************************************)
EXTENDS GeoIP, JWTVerifier, Routing

CONSTANTS
    Clients,        \* addresses from which clients reach the first proxy
    InnerProxies,   \* addresses of the proxies in front, but for the last
    LastProxy,      \* address of the one that connects to the process
    OtherPeers,     \* addresses of other processes that connect to it
    SentEntries     \* what X-Forwarded-For may hold before the first proxy

ASSUME ClassificationAssumption ==
    /\ IsList(InnerProxies) /\ \A sent \in SentEntries : IsList(sent)
    /\ Len(InnerProxies) = Hops - 1      \* xff_trusted_hops is right
    /\ \A n \in DOMAIN InnerProxies : InnerProxies[n] # Blank
    /\ Blank \notin Clients
    /\ LastProxy \in TrustedPeers
    /\ Clients \union TrustedPeers \subseteq Addresses

VARIABLE process    \* down, starting (in initial_fetch) or ready

vars == <<geoVars, verifierVars, process>>

TypeOK ==
    /\ GeoTypeOK
    /\ VerifierTypeOK
    /\ process \in {"down", "starting", "ready"}

Init ==
    /\ GeoInit
    /\ VerifierInit
    /\ process = "down"

-----------------------------------------------------------------------------
(* lifespan up to the await of initial_fetch                               *)
Start ==
    /\ process = "down" /\ process' = "starting"
    /\ OpenDatabases
    /\ Request
    /\ UNCHANGED updateVars

(* initial_fetch returns, whether it got keys or not: the tasks are        *)
(* created, refresh_loop among them, and requests are served.              *)
Ready == process' = (IF process = "starting" THEN "ready" ELSE process)

FetchStep == \/ ReadResponse /\ UNCHANGED process
             \/ ReplaceKeys /\ Ready
             \/ KeepKeys /\ Ready

(* The exception ends refresh_loop, or the start-up.                       *)
FetchRaises ==
    /\ RefreshRaises
    /\ \/ process = "ready" /\ UNCHANGED <<geoVars, process>>
       \/ /\ process = "starting" /\ process' = "down"
          /\ CloseDatabases /\ UNCHANGED updateVars

(* jwks_refresh_seconds have passed.                                       *)
RefreshDue ==
    /\ process = "ready" /\ refresh = "sleeping"
    /\ Request
    /\ UNCHANGED <<geoVars, process>>

(* The process stops or is killed.                                         *)
Stop ==
    /\ process # "down" /\ process' = "down"
    /\ CloseDatabases
    /\ keys' = {} /\ refresh' = "none" /\ fetched' = {}
    /\ UNCHANGED <<updateVars, published, endpoint>>

(* What X-Forwarded-For holds behind the proxies: each appends the address *)
(* of who connects to it, to what there is.                                *)
Forwarded == UNION {{sent \o <<c>> \o InnerProxies : c \in Clients} : sent \in SentEntries}

Requests(peers, headers) ==
    [peer : peers, xff : headers, path : Paths, method : {"GET", "POST"}]

(* The requests that arrive: other processes connect directly.             *)
Arrivals ==
    Requests({LastProxy}, Forwarded)
       \union Requests(TrustedPeers \union OtherPeers, {<<>>, <<Blank>>})

(* The addresses proxied requests come to classify() with.                 *)
LookedUp == {ClientIp(q) : q \in {q \in Arrivals : IsProxied(q)}} \ {NoAddress}

(* A request arrives.  verify() changes nothing, and neither does one that *)
(* is refused, answered here, not found, or has no address.                *)
Classify ==
    /\ process = "ready"
    /\ \E a \in LookedUp : Lookup(a)
    /\ UNCHANGED <<verifierVars, process>>

Next ==
    \/ Start \/ Stop \/ FetchRaises \/ RefreshDue
    \/ FetchStep /\ UNCHANGED geoVars
    \/ Classify
    \/ EntryExpires /\ UNCHANGED <<verifierVars, process>>
    \/ UpdateStep /\ UNCHANGED <<verifierVars, process>>
    \/ (Rotate \/ EndpointChanges) /\ UNCHANGED <<geoVars, process>>

Spec == Init /\ [][Next]_vars

(* The refresh task runs: its sleep and its requests are bounded.  Nothing *)
(* is assumed of Keycloak, of restarts, of updates or of requests.         *)
FairSpec ==
    /\ Spec
    /\ WF_vars((FetchStep /\ UNCHANGED geoVars) \/ FetchRaises)
    /\ WF_vars(RefreshDue)

-----------------------------------------------------------------------------
(* A database path never names anything but a validated database of its    *)
(* edition (or nothing, before the first update), wherever an update is    *)
(* killed: a process that starts at any moment gets its readers.           *)
InstalledIsWhole == \A e \in Editions : installed[e] # "bad"

(* The cache only holds addresses that somebody connected from to the      *)
(* first or the last proxy, never an entry of a header that came with the  *)
(* request: the client a request is charged to is the one that sent it.    *)
CacheHoldsClients == Cached \subseteq Clients \union TrustedPeers

(* FR-011a: a process that is up routes every path to its most specific    *)
(* backend, whatever accepted configuration it was started with.           *)
RoutesToMostSpecific == process = "ready" => MostSpecific

(* The cache makes room at the expense of the dead first: a fresh entry is *)
(* evicted only when no expired one stays behind.                          *)
FreshOutlivesExpired ==
    [][process' = "ready" /\ (\E a \in Cached \ expired : a \notin Cached')
          => expired' = {}]_vars

(* The verifier agrees with Keycloak on a key, and so does the response    *)
(* that is about to replace its keys.                                      *)
Settled(k, current) ==
    /\ (k \in published) = current /\ (k \in keys) = current
    /\ refresh = "closing" => (k \in fetched) = current

(* What has been settled of a key stays so while Keycloak leaves that key  *)
(* alone: failing or odd answers of the endpoint, and the rotation of      *)
(* other keys, neither bring a retired key back nor lose a current one.    *)
SettledKeysStay ==
    [][process = "ready" /\ process' = "ready" =>
          \A k \in Kids, current \in BOOLEAN :
             Settled(k, current) /\ (k \in published') = current
                => Settled(k, current)']_vars

(* auth.py: a failing fetch "fails open" until a refresh succeeds, and     *)
(* tests/unit/test_auth.py: initial_fetch and refresh_loop "must never     *)
(* raise".  A key set that cannot be parsed makes them raise.              *)
RefreshNeverRaises == refresh # "raised"

(* Classification follows Keycloak: once the endpoint keeps answering and  *)
(* a key stays published, or stays retired, a sound token signed with it   *)
(* is eventually taken, or refused, for good; except by a process whose    *)
(* refresh_loop has been ended by an exception.                            *)
TokenOf(k) == [present |-> TRUE, kid |-> k, sound |-> TRUE, roles |-> {}]

TokensFollowKeys ==
    \A k \in Kids, current \in BOOLEAN :
       (<>[](process = "ready" /\ endpoint = "answers" /\ (k \in published) = current))
          => <>[](\/ UserClassOf(TokenOf(k)) = IF current THEN "researcher" ELSE "unknown"
                  \/ refresh = "raised")
=============================================================================
