------------------------ MODULE ClassificationProofs ------------------------
(***************************************************************************)
(* Classification for any databases, addresses, cache size, proxies, keys  *)
(* and routes.                                                             *)
(*                                                                         *)
(*  - Files: what a GeoIP update has downloaded need not be whole;         *)
(*    UpdateInv says from which stage on it is.                            *)
(*  - Cache: entries expire in the order of the dictionary, whatever was   *)
(*    evicted, replaced or stored anew in between (CacheInOrder).          *)
(*  - Clients: the entry Hops from the right is the one the first proxy    *)
(*    has appended, whatever the request came with.                        *)
(*  - Routes: a prefix below another one is longer.                        *)
(*  - Keys: a fetch replaces the whole set, or leaves it.                  *)
(***************************************************************************)
EXTENDS Classification, TotalTheorems, SequenceTheorems

-----------------------------------------------------------------------------
(* Files                                                                   *)

(* From its validation to the rename, the content about to be installed is *)
(* a whole database.                                                       *)
ValidatedIsWhole == stage \in {"valid", "writing", "written"} => archive = "whole"

UpdateInv == installed \in [Editions -> {"absent", "whole"}] /\ ValidatedIsWhole

LEMMA InitInv == Init => UpdateInv
  BY DEF Init, GeoInit, UpdateInv, ValidatedIsWhole

(* The steps of the process, of its keys and of its cache leave files and  *)
(* updates alone.                                                          *)
LEMMA OthersLeaveUpdates ==
    ASSUME Next
    PROVE  UpdateStep \/ UNCHANGED updateVars
  <1>1. CASE Start
    BY <1>1 DEF Start
  <1>2. CASE Stop
    BY <1>2 DEF Stop
  <1>3. CASE FetchRaises
    BY <1>3 DEF FetchRaises, geoVars
  <1>4. CASE RefreshDue
    BY <1>4 DEF RefreshDue, geoVars
  <1>5. CASE FetchStep /\ UNCHANGED geoVars
    BY <1>5 DEF geoVars
  <1>6. CASE Classify
    BY <1>6 DEF Classify, Lookup
  <1>7. CASE EntryExpires
    BY <1>7 DEF EntryExpires
  <1>8. CASE (Rotate \/ EndpointChanges) /\ UNCHANGED <<geoVars, process>>
    BY <1>8 DEF geoVars
  <1> QED BY <1>1, <1>2, <1>3, <1>4, <1>5, <1>6, <1>7, <1>8, Next DEF Next

LEMMA UpdateStepKeepsInv ==
    ASSUME UpdateInv, UpdateStep
    PROVE  UpdateInv'
  <1> USE DEF UpdateInv, ValidatedIsWhole, Proceeds
  <1>1. CASE \E e \in Editions, content \in {"whole", "bad"} : Download(e, content)
    BY <1>1 DEF Download
  <1>2. CASE Validate
    BY <1>2 DEF Validate
  <1>3. CASE BeginWrite
    BY <1>3 DEF BeginWrite
  <1>4. CASE EndWrite
    BY <1>4 DEF EndWrite
  <1>5. CASE Replace
    BY <1>5 DEF Replace
  <1>6. CASE Quit
    BY <1>6 DEF Quit
  <1> QED BY <1>1, <1>2, <1>3, <1>4, <1>5, <1>6, UpdateStep DEF UpdateStep

LEMMA NextKeepsInv == UpdateInv /\ [Next]_vars => UpdateInv'
  <1> SUFFICES ASSUME UpdateInv, [Next]_vars PROVE UpdateInv'
    OBVIOUS
  <1>1. CASE UpdateStep
    BY <1>1, UpdateStepKeepsInv
  <1>2. CASE UNCHANGED updateVars
    BY <1>2 DEF updateVars, UpdateInv, ValidatedIsWhole
  <1>3. CASE UNCHANGED vars
    BY <1>2, <1>3 DEF vars, geoVars
  <1> QED BY <1>1, <1>2, <1>3, OthersLeaveUpdates

(* No kill, refused download, damaged archive or full disk at any step of  *)
(* scripts/update_geoip_db.py ever leaves a damaged database where the     *)
(* process looks for it (_validate before _atomic_write).                  *)
THEOREM InstalledAreWhole == Spec => []InstalledIsWhole
  <1>1. UpdateInv => InstalledIsWhole
    BY DEF UpdateInv, InstalledIsWhole
  <1> QED BY <1>1, InitInv, NextKeepsInv, PTL DEF Spec

-----------------------------------------------------------------------------
(* Cache                                                                   *)

Once(q) == \A m, n \in DOMAIN q : q[m] = q[n] => m = n

OldestFirst(q, old) == \A m, n \in DOMAIN q : m < n /\ q[n] \in old => q[m] \in old

(* No address is cached twice, and those that have expired are the oldest. *)
CacheInOrder == Once(cache) /\ OldestFirst(cache, expired)

CacheInv == GeoTypeOK /\ CacheInOrder

LEMMA TailKeepsOrder ==
    ASSUME NEW S, NEW q \in Seq(S), q # <<>>, NEW old, Once(q), OldestFirst(q, old)
    PROVE  /\ Tail(q) \in Seq(S) /\ Len(Tail(q)) = Len(q) - 1
           /\ \A n \in 1..Len(Tail(q)) : Tail(q)[n] = q[n + 1]
           /\ Once(Tail(q)) /\ OldestFirst(Tail(q), old)
  <1>1. /\ Tail(q) \in Seq(S) /\ Len(Tail(q)) = Len(q) - 1
        /\ \A n \in 1..Len(Tail(q)) : Tail(q)[n] = q[n + 1]
    BY HeadTailProperties
  <1>2. DOMAIN q = 1..Len(q) /\ DOMAIN Tail(q) = 1..Len(Tail(q)) /\ Len(q) \in Nat
    BY <1>1, LenProperties
  <1> QED BY <1>1, <1>2 DEF Once, OldestFirst

LEMMA WithoutKeepsOrder ==
    ASSUME NEW S, NEW q \in Seq(S), NEW a, NEW old, Once(q), OldestFirst(q, old)
    PROVE  LET r == Without(q, a)
           IN  /\ r \in Seq(S) /\ Len(r) =< Len(q)
               /\ {r[n] : n \in DOMAIN r} = {q[n] : n \in DOMAIN q} \ {a}
               /\ Once(r) /\ OldestFirst(r, old)
  <1> DEFINE r == Without(q, a)
  <1>1. DOMAIN q = 1..Len(q) /\ Len(q) \in Nat
    BY LenProperties
  <1>2. CASE \A n \in DOMAIN q : q[n] # a
    BY <1>1, <1>2 DEF Without
  <1>3. CASE \E n \in DOMAIN q : q[n] = a
    <2> DEFINE at == CHOOSE n \in DOMAIN q : q[n] = a
               f(n) == IF n < at THEN n ELSE n + 1
    <2>1. at \in 1..Len(q) /\ q[at] = a
      BY <1>1, <1>3
    <2>2. r = SubSeq(q, 1, at - 1) \o SubSeq(q, at + 1, Len(q))
      BY <1>3 DEF Without
    <2> HIDE DEF at, r
    <2> DEFINE front == SubSeq(q, 1, at - 1)
               back  == SubSeq(q, at + 1, Len(q))
    <2>3. /\ front \in Seq(S) /\ Len(front) = at - 1
          /\ \A n \in 1..(at - 1) : front[n] = q[n]
      <3>1. \A n \in 1..(at - 1) : q[n] \in S
        BY <1>1, <2>1, ElementOfSeq
      <3>2. /\ front \in Seq(S) /\ Len(front) = IF 1 <= at - 1 THEN at - 1 - 1 + 1 ELSE 0
            /\ \A n \in 1..(at - 1 - 1 + 1) : front[n] = q[1 + n - 1]
        BY <2>1, <3>1, SubSeqProperties
      <3> HIDE DEF front
      <3> QED BY <2>1, <3>2
    <2>4. /\ back \in Seq(S) /\ Len(back) = Len(q) - at
          /\ \A n \in 1..(Len(q) - at) : back[n] = q[n + at]
      <3>1. \A n \in (at + 1)..Len(q) : q[n] \in S
        BY <1>1, <2>1, ElementOfSeq
      <3>2. /\ back \in Seq(S)
            /\ Len(back) = IF at + 1 <= Len(q) THEN Len(q) - (at + 1) + 1 ELSE 0
            /\ \A n \in 1..(Len(q) - (at + 1) + 1) : back[n] = q[at + 1 + n - 1]
        BY <1>1, <2>1, <3>1, SubSeqProperties
      <3>3. Len(q) - (at + 1) + 1 = Len(q) - at
        BY <1>1, <2>1
      <3>4. Len(back) = Len(q) - at
        <4>1. at \in Nat /\ Len(q) \in Nat /\ at =< Len(q)
          BY <1>1, <2>1
        <4>2. Len(back) = IF at + 1 <= Len(q) THEN Len(q) - (at + 1) + 1 ELSE 0
          BY <3>2
        <4> HIDE DEF back
        <4> QED BY <4>1, <4>2
      <3>5. ASSUME NEW n \in 1..(Len(q) - at)
            PROVE  back[n] = q[n + at]
        <4>1. at + 1 + n - 1 = n + at
          BY <1>1, <2>1
        <4> HIDE DEF back
        <4> QED BY <3>2, <3>3, <4>1
      <3> QED BY <3>2, <3>4, <3>5
    <2> HIDE DEF front, back
    <2>5. /\ r \in Seq(S) /\ Len(r) = Len(q) - 1
          /\ \A n \in 1..(Len(q) - 1) : r[n] = IF n <= at - 1 THEN front[n] ELSE back[n - (at - 1)]
      <3>1. /\ front \o back \in Seq(S) /\ Len(front \o back) = Len(front) + Len(back)
            /\ \A n \in 1..(Len(front) + Len(back)) :
                  (front \o back)[n] = IF n <= Len(front) THEN front[n] ELSE back[n - Len(front)]
        BY <2>3, <2>4, ConcatProperties
      <3>2. r = front \o back
        BY <2>2 DEF front, back
      <3>3. Len(front) + Len(back) = Len(q) - 1
        BY <1>1, <2>1, <2>3, <2>4
      <3> QED BY <2>3, <3>1, <3>2, <3>3
    <2>6. DOMAIN r = 1..(Len(q) - 1)
      BY <2>5, LenProperties
    <2>7. ASSUME NEW n \in 1..(Len(q) - 1)
          PROVE  f(n) \in 1..Len(q) /\ f(n) # at /\ r[n] = q[f(n)]
      <3>1. CASE n < at
        BY <1>1, <2>1, <2>3, <2>5, <3>1
      <3>2. CASE n >= at
        <4>1. n - (at - 1) \in 1..(Len(q) - at) /\ n - (at - 1) + at = n + 1
          BY <1>1, <2>1, <3>2
        <4>2. r[n] = back[n - (at - 1)]
          BY <2>1, <2>5, <3>2
        <4> QED BY <1>1, <2>1, <2>4, <3>2, <4>1, <4>2
      <3> QED BY <2>1, <3>1, <3>2
    <2>8. ASSUME NEW m \in 1..Len(q), m # at
          PROVE  \E n \in 1..(Len(q) - 1) : m = f(n)
      <3>1. CASE m < at
        BY <1>1, <2>1, <3>1
      <3>2. CASE m > at
        <4>1. m - 1 \in 1..(Len(q) - 1) /\ m = f(m - 1)
          BY <1>1, <2>1, <3>2
        <4> QED BY <4>1
      <3> QED BY <1>1, <2>1, <2>8, <3>1, <3>2
    <2>9. Once(r) /\ OldestFirst(r, old)
      <3>1. ASSUME NEW m \in 1..(Len(q) - 1), NEW n \in 1..(Len(q) - 1)
            PROVE  /\ f(m) = f(n) => m = n
                   /\ m < n => f(m) < f(n)
        BY <1>1, <2>1
      <3> HIDE DEF f
      <3>2. ASSUME NEW m \in DOMAIN r, NEW n \in DOMAIN r, r[m] = r[n]
            PROVE  m = n
        <4>1. f(m) \in DOMAIN q /\ f(n) \in DOMAIN q /\ q[f(m)] = q[f(n)]
          BY <1>1, <2>6, <2>7, <3>2
        <4>2. f(m) = f(n)
          BY <4>1 DEF Once
        <4> QED BY <2>6, <3>1, <4>2
      <3>3. ASSUME NEW m \in DOMAIN r, NEW n \in DOMAIN r, m < n, r[n] \in old
            PROVE  r[m] \in old
        <4>1. /\ f(m) \in DOMAIN q /\ f(n) \in DOMAIN q
              /\ r[m] = q[f(m)] /\ r[n] = q[f(n)]
          BY <1>1, <2>6, <2>7
        <4>2. f(m) < f(n)
          BY <2>6, <3>1, <3>3
        <4> QED BY <3>3, <4>1, <4>2 DEF OldestFirst
      <3> QED BY <3>2, <3>3 DEF Once, OldestFirst
    <2>10. {r[n] : n \in DOMAIN r} \subseteq {q[n] : n \in DOMAIN q} \ {a}
      BY <1>1, <2>1, <2>6, <2>7 DEF Once
    <2>11. {q[n] : n \in DOMAIN q} \ {a} \subseteq {r[n] : n \in DOMAIN r}
      <3> SUFFICES ASSUME NEW m \in 1..Len(q), q[m] # a
                   PROVE  \E n \in DOMAIN r : r[n] = q[m]
        BY <1>1
      <3> QED BY <2>1, <2>6, <2>7, <2>8
    <2>12. Len(r) =< Len(q)
      BY <1>1, <2>5
    <2> QED BY <2>5, <2>9, <2>10, <2>11, <2>12 DEF r
  <1> QED BY <1>2, <1>3

LEMMA AppendKeepsOrder ==
    ASSUME NEW S, NEW q \in Seq(S), NEW a \in S, NEW old, Once(q), OldestFirst(q, old),
           \A n \in DOMAIN q : q[n] # a, a \notin old
    PROVE  /\ Append(q, a) \in Seq(S) /\ Len(Append(q, a)) = Len(q) + 1
           /\ {Append(q, a)[n] : n \in DOMAIN Append(q, a)} = {q[n] : n \in DOMAIN q} \union {a}
           /\ Once(Append(q, a)) /\ OldestFirst(Append(q, a), old)
  <1>1. /\ Append(q, a) \in Seq(S) /\ Len(Append(q, a)) = Len(q) + 1
        /\ \A n \in 1..Len(q) : Append(q, a)[n] = q[n]
        /\ Append(q, a)[Len(q) + 1] = a
    BY AppendProperties
  <1>2. DOMAIN q = 1..Len(q) /\ DOMAIN Append(q, a) = 1..(Len(q) + 1) /\ Len(q) \in Nat
    BY <1>1, LenProperties
  <1> DEFINE r == Append(q, a)
  <1> HIDE DEF r
  <1>3. Once(r) /\ OldestFirst(r, old)
    BY <1>1, <1>2 DEF Once, OldestFirst, r
  <1>4. {r[n] : n \in DOMAIN r} = {q[n] : n \in DOMAIN q} \union {a}
    BY <1>1, <1>2 DEF r
  <1> QED BY <1>1, <1>3, <1>4 DEF r

LEMMA MakeRoomKeepsOrder ==
    ASSUME CacheInv
    PROVE  /\ MakeRoom \in Seq(Addresses) /\ Len(MakeRoom) < CacheMaxSize
           /\ Once(MakeRoom) /\ OldestFirst(MakeRoom, expired)
  <1>1. /\ cache \in Seq(Addresses) /\ Len(cache) =< CacheMaxSize /\ Len(cache) \in Nat
        /\ CacheMaxSize \in Nat \ {0}
    BY GeoIPAssumption, LenProperties DEF CacheInv, GeoTypeOK
  <1>2. CASE Len(cache) >= CacheMaxSize
    <2>1. cache # <<>>
      BY <1>1, <1>2, EmptySeq
    <2> QED BY <1>1, <1>2, <2>1, TailKeepsOrder DEF MakeRoom, CacheInv, CacheInOrder
  <1>3. CASE Len(cache) < CacheMaxSize
    BY <1>1, <1>3 DEF MakeRoom, CacheInv, CacheInOrder
  <1> QED BY <1>1, <1>2, <1>3

LEMMA StoreKeepsOrder ==
    ASSUME CacheInv, NEW a \in Addresses, Store(a)
    PROVE  /\ cache' \in Seq(Addresses) /\ Len(cache') =< CacheMaxSize
           /\ CacheInOrder'
           /\ Cached' = ({MakeRoom[n] : n \in DOMAIN MakeRoom} \ {a}) \union {a}
           /\ expired' = (expired \cap Cached') \ {a}
  <1> DEFINE room == MakeRoom
             rest == Without(room, a)
             left == expired \ {a}
  <1>1. cache' = Append(rest, a) /\ expired' = (expired \cap Cached') \ {a}
    BY DEF Store
  <1>2. /\ room \in Seq(Addresses) /\ Len(room) < CacheMaxSize /\ Len(room) \in Nat
        /\ Once(room) /\ OldestFirst(room, expired)
    BY MakeRoomKeepsOrder, LenProperties
  <1> HIDE DEF room
  <1>3. /\ rest \in Seq(Addresses) /\ Len(rest) =< Len(room)
        /\ {rest[n] : n \in DOMAIN rest} = {room[n] : n \in DOMAIN room} \ {a}
        /\ Once(rest) /\ OldestFirst(rest, expired)
    BY <1>2, WithoutKeepsOrder
  <1> HIDE DEF rest
  <1>4. \A n \in DOMAIN rest : rest[n] # a
    BY <1>3
  <1>5. OldestFirst(rest, left)
    BY <1>3, <1>4 DEF OldestFirst
  <1>6. /\ cache' \in Seq(Addresses) /\ Len(cache') = Len(rest) + 1
        /\ {cache'[n] : n \in DOMAIN cache'} = {rest[n] : n \in DOMAIN rest} \union {a}
        /\ Once(cache') /\ OldestFirst(cache', left)
    BY <1>1, <1>3, <1>4, <1>5, AppendKeepsOrder
  <1>7. Cached' = ({room[n] : n \in DOMAIN room} \ {a}) \union {a}
    BY <1>3, <1>6 DEF Cached
  <1>8. Len(cache') =< CacheMaxSize
    BY <1>2, <1>3, <1>6, LenProperties, GeoIPAssumption
  <1>9. OldestFirst(cache', expired')
    <2>1. \A n \in DOMAIN cache' : cache'[n] \in expired' <=> cache'[n] \in left
      BY <1>1 DEF Cached
    <2> QED BY <1>6, <2>1 DEF OldestFirst
  <1>10. Once(cache)' /\ OldestFirst(cache, expired)'
    BY <1>6, <1>9 DEF Once, OldestFirst
  <1> QED BY <1>1, <1>6, <1>7, <1>8, <1>10 DEF CacheInOrder, room

-----------------------------------------------------------------------------
(* Clients                                                                 *)

LEMMA ListWidens ==
    ASSUME NEW s, IsList(s), NEW T, \A n \in DOMAIN s : s[n] \in T
    PROVE  s \in Seq(T)
  <1>1. {s[n] : n \in DOMAIN s} \subseteq T
    OBVIOUS
  <1> QED BY <1>1, SeqMonotonic DEF IsList

(* The entry Hops from the right is the one before those that the proxies  *)
(* behind the first one append, whatever stands before it.                 *)
LEMMA FirstProxyIsBelieved ==
    ASSUME NEW sent \in SentEntries, NEW c \in Clients, NEW peer
    PROVE  ResolveClientIp(sent \o <<c>> \o InnerProxies, peer) = c
  <1> DEFINE xff   == sent \o <<c>> \o InnerProxies
             here  == Len(sent) + 1
             upTo  == Len(sent) + Hops
             from(n) == {m \in Entries(xff) : m >= n}
  <1>1. Hops \in Nat \ {0} /\ Len(InnerProxies) = Hops - 1 /\ c # Blank
    BY RoutingAssumption, ClassificationAssumption
  <1>2. PICK S : sent \in Seq(S) /\ <<c>> \in Seq(S) /\ InnerProxies \in Seq(S)
    <2> DEFINE T == {sent[n] : n \in DOMAIN sent} \union {c}
                      \union {InnerProxies[n] : n \in DOMAIN InnerProxies}
    <2>1. sent \in Seq(T) /\ InnerProxies \in Seq(T)
      <3>1. IsList(sent) /\ IsList(InnerProxies)
        BY ClassificationAssumption
      <3> QED BY <3>1, ListWidens
    <2>2. <<c>> \in Seq(T)
      OBVIOUS
    <2> QED BY <2>1, <2>2
  <1>3. /\ sent \o <<c>> \in Seq(S) /\ Len(sent \o <<c>>) = here
        /\ (sent \o <<c>>)[here] = c /\ Len(sent) \in Nat
    BY <1>2, ConcatProperties, LenProperties
  <1>4. /\ xff \in Seq(S) /\ Len(xff) = upTo /\ xff[here] = c
        /\ \A n \in here + 1..upTo : xff[n] = InnerProxies[n - here]
    <2> DEFINE client == sent \o <<c>>
    <2> HIDE DEF client
    <2>1. /\ client \in Seq(S) /\ Len(client) = here /\ client[here] = c
          /\ InnerProxies \in Seq(S) /\ Len(InnerProxies) = Hops - 1
      BY <1>1, <1>2, <1>3 DEF client
    <2>2. /\ client \o InnerProxies \in Seq(S)
          /\ Len(client \o InnerProxies) = Len(client) + Len(InnerProxies)
          /\ \A n \in 1..Len(client) + Len(InnerProxies) : (client \o InnerProxies)[n]
                = IF n <= Len(client) THEN client[n] ELSE InnerProxies[n - Len(client)]
      BY <2>1, ConcatProperties
    <2>3. xff = client \o InnerProxies
      BY DEF client
    <2> HIDE DEF xff
    <2>4. Len(client) + Len(InnerProxies) = upTo /\ here \in 1..upTo /\ upTo \in Nat
      BY <1>1, <1>3, <2>1
    <2> QED BY <1>3, <2>1, <2>2, <2>3, <2>4
  <1> HIDE DEF xff
  <1>5. DOMAIN xff = 1..upTo
    BY <1>4, LenProperties
  <1>6. IsFiniteSet(Entries(xff)) /\ Entries(xff) \subseteq 1..upTo
    <2>1. IsFiniteSet(1..upTo)
      BY <1>1, <1>3, FS_Interval
    <2> QED BY <1>5, <2>1, FS_Subset DEF Entries
  <1>7. from(here) = here..upTo
    <2>1. ASSUME NEW n \in here..upTo
          PROVE  xff[n] # Blank
      <3>1. CASE n = here
        BY <1>1, <1>4, <3>1
      <3>2. CASE n # here
        <4>1. n \in here + 1..upTo /\ n - here \in 1..Len(InnerProxies)
          BY <1>1, <1>3, <3>2
        <4>2. DOMAIN InnerProxies = 1..Len(InnerProxies)
          BY <1>2, LenProperties
        <4> QED BY <1>4, <4>1, <4>2, ClassificationAssumption
      <3> QED BY <3>1, <3>2
    <2> QED BY <1>1, <1>3, <1>5, <2>1 DEF Entries
  <1>8. Cardinality(from(here)) = Hops
    <2>1. here \in Int /\ upTo \in Int /\ ~(here > upTo) /\ upTo - here + 1 = Hops
      BY <1>1, <1>3
    <2>2. Cardinality(here..upTo) = IF here > upTo THEN 0 ELSE upTo - here + 1
      BY <2>1, FS_Interval
    <2> QED BY <1>7, <2>1, <2>2
  <1>9. here \in Entries(xff) /\ ~(Cardinality(Entries(xff)) < Hops)
    <2>1. Cardinality(from(here)) <= Cardinality(Entries(xff))
      BY <1>6, FS_Subset
    <2>2. Cardinality(Entries(xff)) \in Nat
      BY <1>6, FS_CardinalityType
    <2> QED BY <1>1, <1>3, <1>7, <1>8, <2>1, <2>2
  <1>10. ASSUME NEW n \in Entries(xff), Cardinality(from(n)) = Hops
         PROVE  n = here
    <2>1. IsFiniteSet(from(n)) /\ IsFiniteSet(from(here)) /\ n \in Nat
      BY <1>6, FS_Subset
    <2>2. CASE n < here
      <3>1. from(here) \in SUBSET from(n) /\ n \in from(n)
        BY <1>6, <2>2, <1>3
      <3>2. from(n) = from(here)
        BY <1>8, <1>10, <2>1, <3>1, FS_Subset
      <3> QED BY <1>3, <1>7, <2>1, <2>2, <3>1, <3>2
    <2>3. CASE n > here
      <3>1. from(n) \in SUBSET from(here) /\ here \in from(here) /\ here \notin from(n)
        BY <1>6, <1>9, <2>3, <1>3
      <3> QED BY <1>8, <1>10, <2>1, <3>1, FS_Subset
    <2> QED BY <1>3, <2>1, <2>2, <2>3
  <1>11. (CHOOSE n \in Entries(xff) : Cardinality(from(n)) = Hops) = here
    BY <1>8, <1>9, <1>10
  <1> QED BY <1>4, <1>9, <1>11 DEF ResolveClientIp, xff

(* A request without entries is its peer's.                                *)
LEMMA PeerWithoutEntries ==
    ASSUME NEW xff \in {<<>>, <<Blank>>}, NEW peer
    PROVE  ResolveClientIp(xff, peer) = peer
  <1>1. Entries(xff) = {}
    BY DEF Entries
  <1>2. Cardinality(Entries(xff)) = 0
    BY <1>1, FS_EmptySet
  <1> QED BY <1>2, RoutingAssumption DEF ResolveClientIp

LEMMA LookedUpAreClients == LookedUp \subseteq Clients \union TrustedPeers
  <1> SUFFICES ASSUME NEW q \in Arrivals, IsProxied(q), ClientIp(q) # NoAddress
               PROVE  ClientIp(q) \in Clients \union TrustedPeers
    BY DEF LookedUp
  <1>1. q.peer \in TrustedPeers /\ ClientIp(q) = ResolveClientIp(q.xff, q.peer)
    BY DEF IsProxied, Forbidden, ClientIp
  <1>2. CASE q.xff \in {<<>>, <<Blank>>}
    BY <1>1, <1>2, PeerWithoutEntries
  <1>3. CASE q.xff \in Forwarded
    <2>1. PICK sent \in SentEntries : \E c \in Clients : q.xff = sent \o <<c>> \o InnerProxies
      BY <1>3 DEF Forwarded
    <2>2. PICK c \in Clients : q.xff = sent \o <<c>> \o InnerProxies
      BY <2>1
    <2> QED BY <1>1, <2>2, FirstProxyIsBelieved
  <1> QED BY <1>2, <1>3 DEF Arrivals, Requests

-----------------------------------------------------------------------------
(* Types, and what the cache holds                                         *)

ClassificationInv == TypeOK /\ CacheInOrder /\ CacheHoldsClients

LEMMA MakeRoomHolds ==
    ASSUME CacheInv
    PROVE  {MakeRoom[n] : n \in DOMAIN MakeRoom} \subseteq Cached
  <1>1. cache \in Seq(Addresses) /\ DOMAIN cache = 1..Len(cache) /\ Len(cache) \in Nat
    BY LenProperties DEF CacheInv, GeoTypeOK
  <1>2. CASE MakeRoom = Tail(cache) /\ cache # <<>>
    <2>1. DOMAIN Tail(cache) = 1..(Len(cache) - 1) /\ Len(Tail(cache)) = Len(cache) - 1
          /\ \A n \in 1..Len(Tail(cache)) : Tail(cache)[n] = cache[n + 1]
      BY <1>1, <1>2, HeadTailProperties, LenProperties
    <2>2. \A n \in DOMAIN Tail(cache) : n + 1 \in DOMAIN cache
      BY <1>1, <2>1
    <2> QED BY <1>2, <2>1, <2>2 DEF Cached
  <1>3. CASE MakeRoom = cache
    BY <1>3 DEF Cached
  <1>4. Len(cache) >= CacheMaxSize => cache # <<>>
    BY <1>1, GeoIPAssumption, EmptySeq
  <1> QED BY <1>2, <1>3, <1>4 DEF MakeRoom

LEMMA LookupKeeps ==
    ASSUME ClassificationInv, NEW a \in LookedUp, Lookup(a), UNCHANGED <<verifierVars, process>>
    PROVE  ClassificationInv'
  <1> USE DEF ClassificationInv, TypeOK
  <1>1. a \in Clients \union TrustedPeers /\ a \in Addresses
    BY LookedUpAreClients, ClassificationAssumption
  <1>2. VerifierTypeOK' /\ process' \in {"down", "starting", "ready"}
    BY DEF VerifierTypeOK, verifierVars
  <1>3. CASE UNCHANGED <<cache, expired>>
    BY <1>2, <1>3 DEF Lookup, updateVars, GeoTypeOK, Cached, CacheInOrder, CacheHoldsClients,
                      Once, OldestFirst
  <1>4. CASE Store(a)
    <2>1. /\ cache' \in Seq(Addresses) /\ Len(cache') =< CacheMaxSize /\ CacheInOrder'
          /\ Cached' \subseteq Cached \union {a} /\ expired' \in SUBSET Cached'
      BY <1>1, <1>4, StoreKeepsOrder, MakeRoomHolds DEF CacheInv
    <2>2. GeoTypeOK'
      BY <2>1 DEF Lookup, updateVars, GeoTypeOK
    <2> QED BY <1>1, <1>2, <2>1, <2>2 DEF CacheHoldsClients
  <1> QED BY <1>3, <1>4 DEF Lookup

LEMMA ExpiryKeeps ==
    ASSUME ClassificationInv, EntryExpires, UNCHANGED <<verifierVars, process>>
    PROVE  ClassificationInv'
  <1> USE DEF ClassificationInv, TypeOK
  <1>1. PICK n \in DOMAIN cache :
           /\ \A m \in 1..(n - 1) : cache[m] \in expired
           /\ expired' = expired \union {cache[n]}
    BY DEF EntryExpires
  <1>2. UNCHANGED <<updateVars, opened, cache>>
    BY DEF EntryExpires
  <1>3. VerifierTypeOK' /\ process' \in {"down", "starting", "ready"}
    BY DEF VerifierTypeOK, verifierVars
  <1>4. GeoTypeOK'
    BY <1>1, <1>2 DEF GeoTypeOK, Cached, updateVars
  <1>5. CacheHoldsClients'
    BY <1>2 DEF CacheHoldsClients, Cached
  <1>6. CacheInOrder'
    <2>1. DOMAIN cache = 1..Len(cache) /\ Len(cache) \in Nat
      BY LenProperties DEF GeoTypeOK
    <2>2. Once(cache) /\ OldestFirst(cache, expired)
      BY DEF CacheInOrder
    <2>3. OldestFirst(cache, expired')
      BY <1>1, <2>1, <2>2 DEF Once, OldestFirst
    <2> QED BY <1>2, <2>2, <2>3 DEF CacheInOrder, Once, OldestFirst
  <1> QED BY <1>3, <1>4, <1>5, <1>6

(* Opening and closing the databases starts an empty cache.                *)
LEMMA NewCacheKeeps ==
    ASSUME GeoTypeOK, cache' = <<>>, expired' = {}, opened' \in SUBSET Editions,
           UNCHANGED updateVars
    PROVE  GeoTypeOK' /\ CacheInOrder' /\ CacheHoldsClients'
  <1>1. cache' \in Seq(Addresses) /\ Len(cache') = 0 /\ DOMAIN cache' = {} /\ Cached' = {}
    BY EmptySeq DEF Cached
  <1>2. CacheInOrder' /\ CacheHoldsClients'
    BY <1>1 DEF CacheInOrder, Once, OldestFirst, CacheHoldsClients
  <1> QED BY <1>1, <1>2, GeoIPAssumption DEF GeoTypeOK, updateVars

LEMMA SameCacheKeeps ==
    ASSUME ClassificationInv, UNCHANGED geoVars
    PROVE  GeoTypeOK' /\ CacheInOrder' /\ CacheHoldsClients'
  BY DEF ClassificationInv, TypeOK, GeoTypeOK, geoVars, updateVars, lookupVars, Cached,
         CacheInOrder, Once, OldestFirst, CacheHoldsClients

LEMMA UpdateKeeps ==
    ASSUME ClassificationInv, UpdateStep, UNCHANGED <<verifierVars, process>>
    PROVE  ClassificationInv'
  <1> USE DEF ClassificationInv, TypeOK, Proceeds
  <1>1. UNCHANGED lookupVars
    BY DEF UpdateStep, Download, Validate, BeginWrite, EndWrite, Replace, Quit
  <1>2. /\ installed' \in [Editions -> {"absent", "whole", "bad"}] /\ updating' \in Editions
        /\ stage' \in {"idle", "downloaded", "valid", "writing", "written"}
        /\ archive' \in {"absent", "whole", "bad"}
    <2> USE DEF GeoTypeOK
    <2>1. CASE \E e \in Editions, content \in {"whole", "bad"} : Download(e, content)
      BY <2>1 DEF Download
    <2>2. CASE Validate \/ BeginWrite \/ EndWrite
      BY <2>2 DEF Validate, BeginWrite, EndWrite
    <2>3. CASE Replace
      BY <2>3 DEF Replace
    <2>4. CASE Quit
      BY <2>4 DEF Quit
    <2> QED BY <2>1, <2>2, <2>3, <2>4 DEF UpdateStep
  <1>3. VerifierTypeOK' /\ process' \in {"down", "starting", "ready"}
    BY DEF VerifierTypeOK, verifierVars
  <1> QED BY <1>1, <1>2, <1>3 DEF GeoTypeOK, lookupVars, Cached, CacheInOrder, Once, OldestFirst,
                                  CacheHoldsClients

LEMMA VerifierKeepsTypes ==
    ASSUME VerifierTypeOK,
           Request \/ ReadResponse \/ ReplaceKeys \/ KeepKeys \/ RefreshRaises
             \/ Rotate \/ EndpointChanges
    PROVE  VerifierTypeOK'
  <1> USE DEF VerifierTypeOK
  <1>1. CASE Request
    BY <1>1 DEF Request
  <1>2. CASE ReadResponse
    BY <1>2, VerifierAssumption DEF ReadResponse
  <1>3. CASE ReplaceKeys
    BY <1>3 DEF ReplaceKeys
  <1>4. CASE KeepKeys
    BY <1>4 DEF KeepKeys
  <1>5. CASE RefreshRaises
    BY <1>5 DEF RefreshRaises
  <1>6. CASE Rotate
    BY <1>6 DEF Rotate
  <1>7. CASE EndpointChanges
    BY <1>7 DEF EndpointChanges
  <1> QED BY <1>1, <1>2, <1>3, <1>4, <1>5, <1>6, <1>7

LEMMA StepKeepsClassification == ClassificationInv /\ [Next]_vars => ClassificationInv'
  <1> SUFFICES ASSUME ClassificationInv, [Next]_vars PROVE ClassificationInv'
    OBVIOUS
  <1>t. GeoTypeOK /\ VerifierTypeOK /\ process \in {"down", "starting", "ready"}
    BY DEF ClassificationInv, TypeOK
  <1> USE <1>t DEF ClassificationInv, TypeOK
  <1>1. CASE Start
    <2>1. GeoTypeOK' /\ CacheInOrder' /\ CacheHoldsClients'
      BY <1>1, NewCacheKeeps DEF Start, OpenDatabases
    <2> QED BY <1>1, <2>1, VerifierKeepsTypes DEF Start
  <1>2. CASE Stop
    <2>1. GeoTypeOK' /\ CacheInOrder' /\ CacheHoldsClients'
      BY <1>2, NewCacheKeeps DEF Stop, CloseDatabases
    <2> QED BY <1>2, <2>1 DEF Stop, VerifierTypeOK
  <1>3. CASE FetchRaises
    <2>1. VerifierTypeOK'
      BY <1>3, VerifierKeepsTypes DEF FetchRaises
    <2>2. CASE UNCHANGED <<geoVars, process>>
      BY <2>1, <2>2, SameCacheKeeps
    <2>3. CASE process' = "down" /\ CloseDatabases /\ UNCHANGED updateVars
      BY <2>1, <2>3, NewCacheKeeps DEF CloseDatabases
    <2> QED BY <1>3, <2>2, <2>3 DEF FetchRaises
  <1>4. CASE RefreshDue
    <2>1. VerifierTypeOK'
      BY <1>4, VerifierKeepsTypes DEF RefreshDue
    <2> QED BY <1>4, <2>1, SameCacheKeeps DEF RefreshDue
  <1>5. CASE FetchStep /\ UNCHANGED geoVars
    <2>1. VerifierTypeOK' /\ process' \in {"down", "starting", "ready"}
      BY <1>5, VerifierKeepsTypes DEF FetchStep, Ready
    <2> QED BY <1>5, <2>1, SameCacheKeeps
  <1>6. CASE Classify
    <2>1. PICK a \in LookedUp : Lookup(a)
      BY <1>6 DEF Classify
    <2> QED BY <1>6, <2>1, LookupKeeps DEF Classify
  <1>7. CASE EntryExpires /\ UNCHANGED <<verifierVars, process>>
    BY <1>7, ExpiryKeeps
  <1>8. CASE UpdateStep /\ UNCHANGED <<verifierVars, process>>
    BY <1>8, UpdateKeeps
  <1>9. CASE (Rotate \/ EndpointChanges) /\ UNCHANGED <<geoVars, process>>
    <2>1. VerifierTypeOK'
      BY <1>9, VerifierKeepsTypes
    <2> QED BY <1>9, <2>1, SameCacheKeeps
  <1>10. CASE UNCHANGED vars
    <2>1. VerifierTypeOK'
      BY <1>10 DEF vars, verifierVars, VerifierTypeOK
    <2>2. UNCHANGED geoVars /\ UNCHANGED process
      BY <1>10 DEF vars
    <2> QED BY <2>1, <2>2, SameCacheKeeps
  <1> QED BY <1>1, <1>2, <1>3, <1>4, <1>5, <1>6, <1>7, <1>8, <1>9, <1>10 DEF Next

LEMMA InitClassification == Init => ClassificationInv
  <1> SUFFICES ASSUME Init PROVE ClassificationInv
    OBVIOUS
  <1>1. cache \in Seq(Addresses) /\ Len(cache) = 0 /\ DOMAIN cache = {} /\ Cached = {}
    BY EmptySeq DEF Init, GeoInit, Cached
  <1>2. CacheInOrder /\ CacheHoldsClients
    BY <1>1 DEF CacheInOrder, Once, OldestFirst, CacheHoldsClients
  <1>3. GeoTypeOK
    BY <1>1, GeoIPAssumption DEF Init, GeoInit, GeoTypeOK
  <1>4. VerifierTypeOK
    BY DEF Init, VerifierInit, VerifierTypeOK
  <1> QED BY <1>2, <1>3, <1>4 DEF ClassificationInv, TypeOK, Init

LEMMA AlwaysClassification == Spec => []ClassificationInv
  BY InitClassification, StepKeepsClassification, PTL DEF Spec

(* The cache is never over its size, whatever is looked up and expires,    *)
(* and what has expired is in it (GeoIPLookup.lookup).                     *)
THEOREM ClassificationTypes == Spec => []TypeOK
  BY AlwaysClassification, PTL DEF ClassificationInv

(* However many entries a request brings along in X-Forwarded-For, blank   *)
(* ones among them, and however many proxies append to it: with as many of *)
(* them as xff_trusted_hops says, the address looked up is that of who     *)
(* connected to the first proxy (resolve_client_ip).                       *)
THEOREM ClientsAreBelieved == Spec => []CacheHoldsClients
  BY AlwaysClassification, PTL DEF ClassificationInv

(* A process that is up answers from its cache.                            *)
LEMMA OnlyStoreEvicts ==
    ASSUME ClassificationInv, Next, process' = "ready",
           NEW a \in Cached \ expired, a \notin Cached'
    PROVE  \E b \in LookedUp : Store(b)
  <1>1. CASE Start
    BY <1>1 DEF Start
  <1>2. CASE Stop
    BY <1>2 DEF Stop
  <1>3. CASE UNCHANGED geoVars
    BY <1>3 DEF geoVars, lookupVars, Cached
  <1>4. CASE FetchRaises
    BY <1>3, <1>4 DEF FetchRaises
  <1>5. CASE Classify
    <2>1. PICK b \in LookedUp : Lookup(b)
      BY <1>5 DEF Classify
    <2>2. cache' # cache
      BY DEF Cached
    <2> QED BY <2>1, <2>2 DEF Lookup
  <1>6. CASE EntryExpires
    BY <1>6 DEF EntryExpires, Cached
  <1>7. CASE UpdateStep
    BY <1>7 DEF UpdateStep, Download, Validate, BeginWrite, EndWrite, Replace, Quit, lookupVars,
                Cached
  <1> QED BY <1>1, <1>2, <1>3, <1>4, <1>5, <1>6, <1>7, Next DEF Next, RefreshDue

(* The entry that makes room is the first, and all are fresh if it is.     *)
LEMMA StoreSpares ==
    ASSUME ClassificationInv, NEW b \in LookedUp, Store(b),
           NEW a \in Cached \ expired, a \notin Cached'
    PROVE  expired' = {}
  <1>1. CacheInv /\ b \in Addresses
    BY LookedUpAreClients, ClassificationAssumption DEF ClassificationInv, CacheInv, TypeOK
  <1>2. /\ cache \in Seq(Addresses) /\ DOMAIN cache = 1..Len(cache) /\ Len(cache) \in Nat
        /\ Once(cache) /\ OldestFirst(cache, expired) /\ expired \subseteq Cached
    BY <1>1, LenProperties DEF CacheInv, GeoTypeOK, CacheInOrder
  <1>3. /\ Cached' = ({MakeRoom[n] : n \in DOMAIN MakeRoom} \ {b}) \union {b}
        /\ expired' = (expired \cap Cached') \ {b}
    BY <1>1, StoreKeepsOrder
  <1>4. \A n \in DOMAIN MakeRoom : MakeRoom[n] # a
    BY <1>3
  <1>5. PICK n \in DOMAIN cache : cache[n] = a
    BY DEF Cached
  <1>6. MakeRoom = Tail(cache) /\ cache # <<>>
    <2>1. MakeRoom # cache
      BY <1>4, <1>5
    <2>2. Len(cache) # 0
      BY <1>2, <1>5
    <2> QED BY <2>1, <2>2, EmptySeq DEF MakeRoom
  <1>7. DOMAIN Tail(cache) = 1..(Len(cache) - 1)
        /\ \A m \in 1..(Len(cache) - 1) : Tail(cache)[m] = cache[m + 1]
    BY <1>2, <1>6, HeadTailProperties, LenProperties
  <1>8. n = 1
    <2>1. CASE n > 1
      <3>1. n - 1 \in 1..(Len(cache) - 1) /\ n - 1 + 1 = n
        BY <1>2, <2>1
      <3> QED BY <1>4, <1>5, <1>6, <1>7, <3>1
    <2> QED BY <1>2, <2>1
  <1>9. \A m \in DOMAIN cache : cache[m] \notin expired
    BY <1>2, <1>5, <1>8 DEF OldestFirst
  <1>10. expired = {}
    BY <1>2, <1>9 DEF Cached
  <1> QED BY <1>3, <1>10

(* A client that was just looked up is not forgotten for the sake of one   *)
(* whose entry has expired and would be looked up anew anyway: eviction by *)
(* the time of storing evicts expired entries first, for any addresses and *)
(* any cache size.                                                         *)
THEOREM ExpiredGoFirst == Spec => FreshOutlivesExpired
  <1> DEFINE Spared == process' = "ready" /\ (\E a \in Cached \ expired : a \notin Cached')
                          => expired' = {}
  <1>1. ClassificationInv /\ [Next]_vars => [Spared]_vars
    BY OnlyStoreEvicts, StoreSpares
  <1> QED BY <1>1, AlwaysClassification, PTL DEF Spec, FreshOutlivesExpired

-----------------------------------------------------------------------------
(* Routes                                                                  *)

LengthOf(path) == [n \in DOMAIN path |-> Len(path[n]) + 1]

LEMMA PrefixIsSeq ==
    ASSUME NEW p \in PathPrefixes
    PROVE  /\ IsList(p) /\ Len(p) \in Nat /\ DOMAIN p = 1..Len(p)
           /\ IsMeasure(LengthOf(p)) /\ Length(p) \in Nat
  <1>1. IsList(p)
    BY RoutingAssumption
  <1>2. Len(p) \in Nat /\ DOMAIN p = 1..Len(p)
    BY <1>1, LenProperties DEF IsList
  <1>3. IsFiniteSet(DOMAIN p)
    <2>1. 1 \in Int /\ Len(p) \in Int
      BY <1>2
    <2> QED BY <1>2, <2>1, FS_Interval
  <1>4. IsMeasure(LengthOf(p))
    <2>1. ASSUME NEW n \in DOMAIN p
          PROVE  LengthOf(p)[n] \in Nat
      <3>1. Len(p[n]) \in Nat
        BY SegmentAssumption
      <3> QED BY <3>1 DEF LengthOf
    <2> QED BY <1>3, <2>1 DEF IsMeasure, LengthOf
  <1> QED BY <1>1, <1>2, <1>4, TotalIsNat DEF Length, LengthOf

(* What lies below a prefix is longer.  A final "/" makes no difference to *)
(* what lies below, and yet one to the length: the prefix with it is below *)
(* the one without.                                                        *)
LEMMA LongerBelow ==
    ASSUME NEW p \in PathPrefixes, NEW q \in PathPrefixes, PrefixMatches(p, q), p # q
    PROVE  Length(p) > Length(q)
  <1> DEFINE f == LengthOf(q)
             g == LengthOf(p)
  <1>1. /\ IsMeasure(f) /\ IsMeasure(g)
        /\ DOMAIN f = 1..Len(q) /\ DOMAIN g = 1..Len(p)
        /\ Len(q) \in Nat /\ Len(p) \in Nat
    BY PrefixIsSeq DEF LengthOf
  <1>2. /\ \A n \in 1..Len(q) : f[n] = Len(q[n]) + 1 /\ Len(q[n]) \in Nat
        /\ \A n \in 1..Len(p) : g[n] = Len(p[n]) + 1 /\ Len(p[n]) \in Nat
    BY PrefixIsSeq, SegmentAssumption DEF LengthOf
  <1>3. Len(p) > StemLength(q) /\ \A n \in 1..StemLength(q) : p[n] = q[n]
    BY DEF PrefixMatches
  <1> HIDE DEF f, g
  <1>4. CASE StemLength(q) = Len(q)
    <2>1. Len(p) \in DOMAIN g /\ Len(p) \notin DOMAIN f /\ g[Len(p)] > 0
      BY <1>1, <1>2, <1>3, <1>4
    <2>2. DOMAIN f \subseteq DOMAIN g
      BY <1>1, <1>3, <1>4
    <2>3. ASSUME NEW n \in DOMAIN f
          PROVE  f[n] =< g[n]
      <3>1. n \in 1..Len(q) /\ n \in 1..Len(p) /\ p[n] = q[n]
        BY <1>1, <1>3, <1>4, <2>2
      <3> QED BY <1>2, <3>1
    <2>4. Total(f) < Total(g)
      BY <1>1, <2>1, <2>2, <2>3, TotalStrict
    <2> QED BY <2>4, PrefixIsSeq DEF f, g, Length, LengthOf
  <1>5. CASE StemLength(q) # Len(q)
    <2>1. q # <<>> /\ q[Len(q)] = "" /\ StemLength(q) = Len(q) - 1
      BY <1>5 DEF StemLength
    <2>2. Len(q) \in 1..Len(q)
      <3>1. q \in Seq({q[n] : n \in DOMAIN q})
        BY PrefixIsSeq DEF IsList
      <3>2. Len(q) \in Nat \ {0}
        BY <2>1, <3>1, EmptySeq
      <3> QED BY <3>2
    <2>3. Len(q[Len(q)]) = 0 /\ f[Len(q)] = 1
      <3>1. Len(q) \in DOMAIN q
        BY <2>2, PrefixIsSeq
      <3>2. Len(q[Len(q)]) = 0
        BY <2>1, <3>1, SegmentAssumption
      <3> QED BY <1>2, <2>2, <3>2
    <2>4. Len(p) >= Len(q) /\ \A n \in 1..(Len(q) - 1) : p[n] = q[n]
      <3>1. Len(p) > Len(q) - 1 /\ \A n \in 1..(Len(q) - 1) : p[n] = q[n]
        BY <1>3, <2>1
      <3> QED BY <1>1, <3>1
    <2>5. DOMAIN f \subseteq DOMAIN g
      BY <1>1, <2>4
    <2>6. ASSUME NEW n \in DOMAIN f
          PROVE  f[n] =< g[n]
      <3>1. n \in 1..Len(q) /\ n \in 1..Len(p)
        BY <1>1, <2>5
      <3>2. CASE n = Len(q)
        BY <1>2, <2>3, <3>1, <3>2
      <3>3. CASE n # Len(q)
        <4>1. n \in 1..(Len(q) - 1)
          BY <1>1, <3>1, <3>3
        <4> QED BY <1>2, <2>4, <3>1, <4>1
      <3> QED BY <3>2, <3>3
    <2>7. CASE Len(p) > Len(q)
      <3>1. Len(p) \in DOMAIN g /\ Len(p) \notin DOMAIN f /\ g[Len(p)] > 0
        BY <1>1, <1>2, <2>7
      <3>2. Total(f) < Total(g)
        BY <1>1, <2>5, <2>6, <3>1, TotalStrict
      <3> QED BY <3>2, PrefixIsSeq DEF f, g, Length, LengthOf
    <2>8. CASE Len(p) = Len(q)
      <3>1. p[Len(q)] # ""
        <4> SUFFICES ASSUME p[Len(q)] = "" PROVE FALSE
          OBVIOUS
        <4>1. ASSUME NEW n \in 1..Len(p)
              PROVE  p[n] = q[n]
          <5>1. CASE n = Len(q)
            BY <2>1, <5>1
          <5>2. CASE n # Len(q)
            <6>1. Len(q) \in Nat /\ n \in 1..Len(q)
              BY <1>1, <2>8
            <6>2. n \in 1..(Len(q) - 1)
              BY ONLY <5>2, <6>1
            <6> QED BY <2>4, <6>2
          <5> QED BY <5>1, <5>2
        <4> DEFINE T == {p[n] : n \in DOMAIN p} \union {q[n] : n \in DOMAIN q}
        <4>2. p \in Seq(T) /\ q \in Seq(T)
          BY PrefixIsSeq, ListWidens
        <4> QED BY <2>8, <4>1, <4>2, SeqEqual
      <3>2. Len(q) \in DOMAIN p
        BY <2>2, <2>8, PrefixIsSeq
      <3>3. Len(p[Len(q)]) \in Nat /\ Len(p[Len(q)]) # 0
        BY <3>1, <3>2, SegmentAssumption
      <3>4. Len(q) \in DOMAIN f /\ Len(q) \in DOMAIN g /\ f[Len(q)] < g[Len(q)]
        BY <1>1, <1>2, <2>2, <2>3, <2>8, <3>3
      <3>5. Total(f) < Total(g)
        BY <1>1, <2>5, <2>6, <3>4, TotalStrict
      <3> QED BY <3>5, PrefixIsSeq DEF f, g, Length, LengthOf
    <2> QED BY <1>1, <2>4, <2>7, <2>8
  <1> QED BY <1>4, <1>5

(* Among backends that match there is a first, so that match() finds it.   *)
LEMMA MatchIsFirst ==
    ASSUME NEW backends, IsFiniteSet(DOMAIN backends), DOMAIN backends \subseteq Nat \ {0},
           \A n \in DOMAIN backends : backends[n].path_prefix \in PathPrefixes,
           NEW path, Matching(backends, path) # {}
    PROVE  /\ Match(backends, path) \in Matching(backends, path)
           /\ \A m \in Matching(backends, path) \ {Match(backends, path)} :
                 Precedes(backends, Match(backends, path), m)
  <1> DEFINE S == Matching(backends, path)
             R == {p \in S \X S : Precedes(backends, p[1], p[2])}
             length(n) == Length(backends[n].path_prefix)
  <1>1. IsFiniteSet(S) /\ S \subseteq Nat
    BY FS_Subset DEF Matching
  <1>2. \A n \in S : length(n) \in Nat
    BY PrefixIsSeq DEF Matching
  <1>3. \A m, n \in S : Precedes(backends, m, n)
                            <=> length(m) > length(n) \/ (length(m) = length(n) /\ m < n)
    BY DEF Precedes
  <1> HIDE DEF length
  <1>4. \A m, n \in S : <<m, n>> \in R <=> Precedes(backends, m, n)
    OBVIOUS
  <1> HIDE DEF R, S
  <1>5. \A x \in S : <<x, x>> \notin R
    BY <1>1, <1>2, <1>3, <1>4
  <1>6. \A x, y, z \in S : <<x, y>> \in R /\ <<y, z>> \in R => <<x, z>> \in R
    <2> SUFFICES ASSUME NEW x \in S, NEW y \in S, NEW z \in S,
                        Precedes(backends, x, y), Precedes(backends, y, z)
                 PROVE  Precedes(backends, x, z)
      BY <1>4
    <2> QED BY <1>1, <1>2, <1>3
  <1>7. PICK n \in S : \A m \in S : <<m, n>> \notin R
    <2>1. S # {}
      BY DEF S
    <2>2. StrictlyOrders(R, S)
      BY <1>5, <1>6 DEF StrictlyOrders
    <2> QED BY <1>1, <2>1, <2>2, FiniteHasFirst
  <1>8. ASSUME NEW m \in S \ {n}
        PROVE  Precedes(backends, n, m)
    <2>1. ~Precedes(backends, m, n)
      BY <1>4, <1>7
    <2> QED BY <1>1, <1>2, <1>3, <2>1
  <1>9. Match(backends, path) = CHOOSE k \in S : \A m \in S \ {k} : Precedes(backends, k, m)
    BY DEF Match, S
  <1> QED BY <1>8, <1>9 DEF S

(* Any number of backends, in any order.                                   *)
LEMMA MostSpecificFirst ==
    ASSUME NEW backends, IsFiniteSet(DOMAIN backends), DOMAIN backends \subseteq Nat \ {0},
           \A n \in DOMAIN backends : backends[n].path_prefix \in PathPrefixes,
           Unique(backends, "path_prefix"),
           NEW path, NEW m \in Matching(backends, path) \ {Match(backends, path)}
    PROVE  ~PrefixMatches(backends[m].path_prefix, backends[Match(backends, path)].path_prefix)
  <1> DEFINE n == Match(backends, path)
             p == backends[m].path_prefix
             q == backends[n].path_prefix
  <1>1. n \in Matching(backends, path) /\ Precedes(backends, n, m)
    BY MatchIsFirst
  <1>2. p \in PathPrefixes /\ q \in PathPrefixes /\ p # q
    BY <1>1 DEF Matching, Unique
  <1>3. Length(q) >= Length(p)
    BY <1>1, <1>2, PrefixIsSeq DEF Precedes
  <1> HIDE DEF p, q
  <1>4. PrefixMatches(p, q) => Length(p) > Length(q)
    BY <1>2, LongerBelow
  <1> QED BY <1>2, <1>3, <1>4, PrefixIsSeq DEF p, q

LEMMA AllMostSpecific == MostSpecific
  <1> SUFFICES ASSUME NEW bs \in Routings, NEW path \in Paths,
                      NEW m \in Matching(bs, path) \ {Match(bs, path)}
               PROVE  ~PrefixMatches(bs[m].path_prefix, bs[Match(bs, path)].path_prefix)
    BY DEF MostSpecific
  <1>1. /\ DOMAIN bs = 1..3 /\ Unique(bs, "path_prefix")
        /\ \A n \in DOMAIN bs : bs[n].path_prefix \in PathPrefixes
    BY DEF Routings
  <1>2. IsFiniteSet(DOMAIN bs)
    <2>1. 1 \in Int /\ 3 \in Int
      OBVIOUS
    <2> QED BY <1>1, <2>1, FS_Interval
  <1> QED BY <1>1, <1>2, MostSpecificFirst

(* FR-011a for all prefixes and paths there may be: the order by length,   *)
(* with whole segments and a "/" at the end of some prefixes, never lets a *)
(* backend hide one below it (BackendPolicyRegistry).                      *)
THEOREM PrefixesDoNotHide == Spec => []RoutesToMostSpecific
  BY AllMostSpecific, PTL DEF RoutesToMostSpecific

-----------------------------------------------------------------------------
(* Keys                                                                    *)

(* While the process is ready, _keys and the response about to replace     *)
(* them change in two ways only.                                           *)
LEMMA KeysMoveByFetch ==
    ASSUME Next, process = "ready", process' = "ready"
    PROVE  \/ ReadResponse
           \/ ReplaceKeys
           \/ UNCHANGED <<keys, fetched>> /\ (refresh' = "closing" => refresh = "closing")
  <1>1. ~Start /\ ~Stop
    BY DEF Start, Stop
  <1>2. CASE FetchRaises
    BY <1>2 DEF FetchRaises, RefreshRaises
  <1>3. CASE RefreshDue
    BY <1>3 DEF RefreshDue, Request
  <1>4. CASE FetchStep
    BY <1>4 DEF FetchStep, KeepKeys
  <1>5. CASE UNCHANGED verifierVars
    BY <1>5 DEF verifierVars
  <1>6. CASE Classify
    BY <1>5, <1>6 DEF Classify, verifierVars
  <1>7. CASE (EntryExpires \/ UpdateStep) /\ UNCHANGED <<verifierVars, process>>
    BY <1>5, <1>7
  <1>8. CASE Rotate
    BY <1>8 DEF Rotate
  <1>9. CASE EndpointChanges
    BY <1>9 DEF EndpointChanges
  <1> QED BY <1>1, <1>2, <1>3, <1>4, <1>6, <1>7, <1>8, <1>9, Next DEF Next

(* For any keys and any rotations, what verifier and Keycloak have settled *)
(* of a key stays until Keycloak touches that key: a fetch that fails, or  *)
(* raises, changes nothing, and one that succeeds replaces the whole set   *)
(* by one that agrees on the key.                                          *)
THEOREM SettledKeysAreStable == Spec => SettledKeysStay
  <1> DEFINE Stays == process = "ready" /\ process' = "ready" =>
                         \A k \in Kids, current \in BOOLEAN :
                            Settled(k, current) /\ (k \in published') = current
                               => Settled(k, current)'
  <1>1. Next => Stays
    <2> SUFFICES ASSUME Next, process = "ready", process' = "ready",
                        NEW k \in Kids, NEW current \in BOOLEAN,
                        Settled(k, current), (k \in published') = current
                 PROVE  Settled(k, current)'
      OBVIOUS
    <2>1. CASE ReadResponse
      BY <2>1 DEF ReadResponse, Settled
    <2>2. CASE ReplaceKeys
      BY <2>2 DEF ReplaceKeys, Settled
    <2>3. CASE UNCHANGED <<keys, fetched>> /\ (refresh' = "closing" => refresh = "closing")
      BY <2>3 DEF Settled
    <2> QED BY <2>1, <2>2, <2>3, KeysMoveByFetch
  <1> QED BY <1>1, PTL DEF Spec, SettledKeysStay
=============================================================================
