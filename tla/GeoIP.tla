------------------------------- MODULE GeoIP -------------------------------
(***************************************************************************)
(* The GeoIP databases: scripts/update_geoip_db.py, which replaces a       *)
(* database file and may be killed between any two of its steps, and       *)
(* GeoIPLookup of app/geoip.py, which opens the files once and answers     *)
(* from a bounded cache.                                                   *)
(*                                                                         *)
(* A file's content is "whole" (a database of the requested edition),      *)
(* "bad" (anything else: truncated, foreign, no database) or "absent".     *)
(* Time is abstract: an address joins `expired' when its cache entry       *)
(* outlives the TTL, which happens in the order of the timestamps.         *)
(***************************************************************************)
EXTENDS Integers, Sequences

CONSTANTS
    Editions,       \* database files: city, ASN
    Addresses,      \* client addresses
    CacheMaxSize    \* _CACHE_MAX_SIZE (10 000 in the code)

ASSUME GeoIPAssumption == CacheMaxSize \in Nat \ {0}

VARIABLES
    installed,   \* content of the file at each destination path
    updating,    \* the edition an update is for
    stage,       \* how far the update has got
    archive,     \* content of what it has downloaded, "absent" before
    opened,      \* editions GeoIPLookup has a reader for
    cache,       \* addresses in _cache, by timestamp, oldest first
    expired      \* those whose entry is older than _CACHE_TTL_SECONDS

updateVars == <<installed, updating, stage, archive>>
lookupVars == <<opened, cache, expired>>
geoVars    == <<updateVars, lookupVars>>

Cached == {cache[n] : n \in DOMAIN cache}

GeoTypeOK ==
    /\ installed \in [Editions -> {"absent", "whole", "bad"}]
    /\ updating \in Editions
    /\ stage \in {"idle", "downloaded", "valid", "writing", "written"}
    /\ archive \in {"absent", "whole", "bad"}
    /\ opened \in SUBSET Editions
    /\ cache \in Seq(Addresses) /\ Len(cache) =< CacheMaxSize
    /\ expired \in SUBSET Cached

GeoInit ==
    /\ installed \in [Editions -> {"absent", "whole"}]
    /\ updating \in Editions
    /\ stage = "idle" /\ archive = "absent"
    /\ opened = {} /\ cache = <<>> /\ expired = {}

-----------------------------------------------------------------------------
(* update_geoip_db.py                                                      *)

Proceeds(from, to) == stage = from /\ stage' = to

(* _download and _extract_mmdb: what they return may be anything.          *)
Download(e, content) ==
    /\ Proceeds("idle", "downloaded")
    /\ updating' = e /\ archive' = content
    /\ UNCHANGED <<installed, lookupVars>>

(* _validate, on a probe file of its own.  Anything but a database of the  *)
(* edition ends the update there (Quit).                                   *)
Validate ==
    /\ archive = "whole"
    /\ Proceeds("downloaded", "valid")
    /\ UNCHANGED <<installed, updating, archive, lookupVars>>

(* Mutant: the destination itself is opened for writing.                   *)
BeginWriteInPlace ==
    /\ Proceeds("valid", "writing")
    /\ installed' = [installed EXCEPT ![updating] = "bad"]
    /\ UNCHANGED <<updating, archive, lookupVars>>

(* _atomic_write: a temporary file in the directory of the destination is  *)
(* written and closed ...                                                  *)
BeginWrite ==
    /\ Proceeds("valid", "writing")
    /\ UNCHANGED <<installed, updating, archive, lookupVars>>

EndWrite ==
    /\ Proceeds("writing", "written")
    /\ UNCHANGED <<installed, updating, archive, lookupVars>>

(* ... and renamed over it.                                                *)
Replace ==
    /\ Proceeds("written", "idle")
    /\ installed' = [installed EXCEPT ![updating] = archive]
    /\ archive' = "absent"
    /\ UNCHANGED <<updating, lookupVars>>

(* A refused download, an invalid archive, a full disk or a kill: the      *)
(* update ends where it is.  Temporary files it leaves are read by nobody. *)
Quit ==
    /\ stage # "idle" /\ stage' = "idle"
    /\ archive' = "absent"
    /\ UNCHANGED <<installed, updating, lookupVars>>

UpdateStep ==
    \/ \E e \in Editions, content \in {"whole", "bad"} : Download(e, content)
    \/ Validate \/ BeginWrite \/ EndWrite \/ Replace \/ Quit

-----------------------------------------------------------------------------
(* GeoIPLookup                                                             *)

(* __init__: a file that is missing or no database gives no reader.  (A    *)
(* database of another edition would be opened; InstalledIsWhole says that *)
(* there is none.)                                                         *)
OpenDatabases ==
    /\ opened' = {e \in Editions : installed[e] = "whole"}
    /\ cache' = <<>> /\ expired' = {}

CloseDatabases == opened' = {} /\ cache' = <<>> /\ expired' = {}

Hit(a) == a \in Cached \ expired

(* Mutants: room is made one entry too late; the newest entry goes.        *)
MakeRoomLate == IF Len(cache) > CacheMaxSize THEN Tail(cache) ELSE cache

MakeRoomFromNewest ==
    IF Len(cache) >= CacheMaxSize THEN SubSeq(cache, 1, Len(cache) - 1) ELSE cache

(* A full cache loses its oldest entry, even when the one about to be      *)
(* stored would take the place of an expired one of its own.               *)
MakeRoom == IF Len(cache) >= CacheMaxSize THEN Tail(cache) ELSE cache

(* The keys of a dictionary without one of them.                           *)
Without(q, a) ==
    IF \A n \in DOMAIN q : q[n] # a THEN q
    ELSE LET at == CHOOSE n \in DOMAIN q : q[n] = a
         IN  SubSeq(q, 1, at - 1) \o SubSeq(q, at + 1, Len(q))

Store(a) ==
    /\ cache' = Append(Without(MakeRoom, a), a)
    /\ expired' = (expired \cap Cached') \ {a}

(* lookup(): nothing is cached without a reader.                           *)
Lookup(a) ==
    /\ IF opened = {} \/ Hit(a) THEN UNCHANGED <<cache, expired>> ELSE Store(a)
    /\ UNCHANGED <<updateVars, opened>>

EntryExpires ==
    /\ \E n \in DOMAIN cache :
          /\ cache[n] \notin expired
          /\ \A m \in 1..(n - 1) : cache[m] \in expired
          /\ expired' = expired \union {cache[n]}
    /\ UNCHANGED <<updateVars, opened, cache>>
=============================================================================
