------------------------------ MODULE Routing ------------------------------
(***************************************************************************)
(* From the connection to the backend: TrustedProxyMiddleware              *)
(* (app/ingress.py), the route table of create_app (app/main.py) and       *)
(* BackendPolicyRegistry (app/registry.py).                                *)
(*                                                                         *)
(* A path is the sequence of its segments, so that "/a" is <<"a">>, "/a/"  *)
(* is <<"a", "">> and "/" is <<"">>; the empty string, which a prefix may  *)
(* be, is <<>>.                                                            *)
(***************************************************************************)
EXTENDS Configuration, FiniteSets, Totals

CONSTANTS
    Backends,        \* the configured backends
    TrustedPeers,    \* peers within ingress.trusted_proxies
    Hops,            \* ingress.xff_trusted_hops
    ExemptPaths,     \* EXEMPT_PATHS
    OwnRoutes,       \* paths of the routes registered before the proxy's
    PathPrefixes,    \* path prefixes considered
    Paths            \* paths requested

Blank     == "blank"    \* an entry of X-Forwarded-For between two commas
NoAddress == "none"     \* no client_ip on the request

ASSUME RoutingAssumption ==
    /\ Hops \in Nat \ {0}
    /\ Unique(Backends, "path_prefix")
    /\ ExemptPaths \subseteq OwnRoutes
    /\ <<>> \notin Paths
    /\ \A prefix \in PathPrefixes : IsList(prefix)

(* A segment is a string, and "" the one that has no characters.           *)
ASSUME SegmentAssumption ==
    \A prefix \in PathPrefixes : \A n \in DOMAIN prefix :
       Len(prefix[n]) \in Nat /\ (Len(prefix[n]) = 0 <=> prefix[n] = "")

-----------------------------------------------------------------------------
(* ingress.py                                                              *)

(* Where the entries are that are not blank.                               *)
Entries(xff) == {n \in DOMAIN xff : xff[n] # Blank}

(* Mutant: the entry is counted from the left.                             *)
ResolveFromLeft(xff, peer) ==
    IF Cardinality(Entries(xff)) < Hops THEN peer
    ELSE xff[CHOOSE n \in Entries(xff) : Cardinality({m \in Entries(xff) : m =< n}) = Hops]

(* The entry Hops from the right; a request without as many is its peer's. *)
ResolveClientIp(xff, peer) ==
    IF Cardinality(Entries(xff)) < Hops THEN peer
    ELSE xff[CHOOSE n \in Entries(xff) : Cardinality({m \in Entries(xff) : m >= n}) = Hops]

IsExempt(q) == q.path \in ExemptPaths

Forbidden(q) == ~IsExempt(q) /\ q.peer \notin TrustedPeers

ClientIp(q) == IF IsExempt(q) THEN NoAddress ELSE ResolveClientIp(q.xff, q.peer)

-----------------------------------------------------------------------------
(* registry.py                                                             *)

(* How many of its segments every path below a prefix begins with: one     *)
(* that does not end in "/" is one more "/" away from them.                *)
StemLength(prefix) ==
    IF prefix # <<>> /\ prefix[Len(prefix)] = "" THEN Len(prefix) - 1 ELSE Len(prefix)

PrefixMatches(path, prefix) ==
    \/ path = prefix
    \/ /\ Len(path) > StemLength(prefix)
       /\ \A n \in 1..StemLength(prefix) : path[n] = prefix[n]

(* Every segment has a "/" before it.                                      *)
Length(path) == Total([n \in DOMAIN path |-> Len(path[n]) + 1])

(* Mutant: the shortest prefix first.                                      *)
PrecedesShortest(backends, m, n) ==
    LET length(k) == Length(backends[k].path_prefix)
    IN  length(m) < length(n) \/ (length(m) = length(n) /\ m < n)

(* Longest prefix first; sorted() keeps the order of the file among equals.*)
Precedes(backends, m, n) ==
    LET length(k) == Length(backends[k].path_prefix)
    IN  length(m) > length(n) \/ (length(m) = length(n) /\ m < n)

Matching(backends, path) ==
    {n \in DOMAIN backends : PrefixMatches(path, backends[n].path_prefix)}

(* The backend of a path, 0 if there is none.                              *)
Match(backends, path) ==
    LET matching == Matching(backends, path)
    IN  IF matching = {} THEN 0
        ELSE CHOOSE n \in matching : \A m \in matching \ {n} : Precedes(backends, n, m)

-----------------------------------------------------------------------------
(* The routes: the process's own come first and answer GET and HEAD; any   *)
(* other request is proxied to the backend of its path, or not found.      *)
IsProxied(q) ==
    /\ ~Forbidden(q)
    /\ ~(q.path \in OwnRoutes /\ q.method \in {"GET", "HEAD"})
    /\ Match(Backends, q.path) # 0

-----------------------------------------------------------------------------
(* Every choice of three backends that a configuration may have            *)
Routings ==
    {bs \in [1..3 -> [path_prefix : PathPrefixes]] : Unique(bs, "path_prefix")}

(* No backend that a path matches has a prefix below the prefix of the     *)
(* backend that is chosen, whatever the order of the file; so that each is *)
(* reached at its own prefix.                                              *)
MostSpecific ==
    \A bs \in Routings, path \in Paths :
       \A m \in Matching(bs, path) \ {Match(bs, path)} :
          ~PrefixMatches(bs[m].path_prefix, bs[Match(bs, path)].path_prefix)
=============================================================================
