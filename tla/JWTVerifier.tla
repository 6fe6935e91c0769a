---------------------------- MODULE JWTVerifier ----------------------------
(***************************************************************************)
(* JWTVerifier of app/auth.py with auth.enabled: the key set fetched from  *)
(* Keycloak at start-up and then periodically, and the user class verify() *)
(* derives from a request's Authorization header.                          *)
(*                                                                         *)
(* Keycloak is the environment: the keys it publishes change, and its      *)
(* endpoint answers, fails in a way _safe_refresh catches (no connection,  *)
(* an error status, no JSON), or serves an odd key set: one that makes it  *)
(* raise something else once it is parsed, such as the InvalidKeyError of  *)
(* RSAAlgorithm.from_jwk for a key that is not RSA.                        *)
(***************************************************************************)
EXTENDS Integers

CONSTANTS
    Kids,       \* key identifiers
    KeySets     \* the sets of keys Keycloak may publish

ASSUME VerifierAssumption == KeySets \subseteq SUBSET Kids

VARIABLES
    keys,        \* _keys
    refresh,     \* the task that runs _safe_refresh
    fetched,     \* the key set of the response it has read
    published,   \* Keycloak: the keys now published
    endpoint     \* Keycloak: how the endpoint answers now

verifierVars == <<keys, refresh, fetched, published, endpoint>>

VerifierTypeOK ==
    /\ keys \in SUBSET Kids
    /\ refresh \in {"none", "sleeping", "requesting", "closing", "closing_odd", "raised"}
    /\ fetched \in SUBSET Kids
    /\ published \in KeySets
    /\ endpoint \in {"answers", "fails", "odd"}

VerifierInit ==
    /\ keys = {} /\ refresh = "none" /\ fetched = {}
    /\ published \in KeySets
    /\ endpoint \in {"answers", "fails", "odd"}

-----------------------------------------------------------------------------
(* _safe_refresh                                                           *)

Request ==
    /\ refresh' = "requesting"
    /\ UNCHANGED <<keys, fetched, published, endpoint>>

(* The response is read.  Leaving the client's context suspends before the *)
(* keys are replaced.                                                      *)
ReadResponse ==
    /\ refresh = "requesting"
    /\ \/ endpoint = "answers" /\ refresh' = "closing" /\ fetched' = published
       \/ endpoint = "odd" /\ refresh' = "closing_odd" /\ UNCHANGED fetched
    /\ UNCHANGED <<keys, published, endpoint>>

(* Mutant: keys are added and never removed.                               *)
ReplaceKeysAddOnly ==
    /\ refresh = "closing"
    /\ keys' = keys \union fetched
    /\ refresh' = "sleeping" /\ fetched' = {}
    /\ UNCHANGED <<published, endpoint>>

(* The new dictionary is built, then assigned.                             *)
ReplaceKeys ==
    /\ refresh = "closing"
    /\ keys' = fetched
    /\ refresh' = "sleeping" /\ fetched' = {}
    /\ UNCHANGED <<published, endpoint>>

(* Mutant: a caught failure leaves no keys.                                *)
KeepNoKeys ==
    /\ refresh = "requesting" /\ endpoint = "fails"
    /\ refresh' = "sleeping" /\ keys' = {}
    /\ UNCHANGED <<fetched, published, endpoint>>

(* A caught failure keeps the keys there are.                              *)
KeepKeys ==
    /\ refresh = "requesting" /\ endpoint = "fails"
    /\ refresh' = "sleeping"
    /\ UNCHANGED <<keys, fetched, published, endpoint>>

(* A key set that cannot be parsed: the exception leaves _safe_refresh,    *)
(* and the task that called it.                                            *)
RefreshRaises ==
    /\ refresh = "closing_odd"
    /\ refresh' = "raised"
    /\ UNCHANGED <<keys, fetched, published, endpoint>>

-----------------------------------------------------------------------------
(* verify().  A header is a record: is it there, which key does its bearer *)
(* token name (one outside Kids if it is no token), are its signature,     *)
(* expiry, issuer and audience sound, and what roles does it claim?        *)
Verifies(header) == header.kid \in keys /\ header.sound

UserClassOf(header) ==
    IF ~header.present THEN "anonymous"
    ELSE IF ~Verifies(header) THEN "unknown"
    ELSE IF "internal" \in header.roles THEN "internal"
    ELSE IF "service_account" \in header.roles THEN "service_account"
    ELSE "researcher"

-----------------------------------------------------------------------------
(* Keycloak rotates its keys; its endpoint changes state.                  *)
Rotate ==
    /\ published' \in KeySets \ {published}
    /\ UNCHANGED <<keys, refresh, fetched, endpoint>>

EndpointChanges ==
    /\ endpoint' \in {"answers", "fails", "odd"} \ {endpoint}
    /\ UNCHANGED <<keys, refresh, fetched, published>>
=============================================================================
