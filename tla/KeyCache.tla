------------------------------ MODULE KeyCache ------------------------------
(* projects/service-token-verifier.ts: verifying Cernere service tokens     *)
(* with Cernere's public keys, which are kept for a while, fetched once for *)
(* all callers that wait, and fetched early for a key that is not known.    *)
(* A token is the key it was signed with.                                   *)
EXTENDS Naturals, Integers

CONSTANTS
  Callers, Keys, None,
  Ttl,          \* KEY_CACHE_MS
  MinInterval,  \* KEY_REFRESH_MIN_INTERVAL_MS
  Timeout       \* KEY_FETCH_TIMEOUT_MS

KeyCacheAssumption ==
  /\ Ttl \in Nat \ {0} /\ MinInterval \in Nat /\ Timeout \in Nat
  /\ MinInterval <= Ttl
  /\ None \notin Keys \cup Nat
  /\ \A S \in SUBSET Keys : None # S

(* Times are ages, counted up to where they no longer make a difference.    *)
VARIABLES
  keys, age,   \* the cache: a set of keys, and its age (up to Ttl)
  fetch,       \* inFlight: its age, what Cernere served
  caller,      \* verify() in progress
  published,   \* external: the keys of Cernere
  since,       \* history: the time since a key was last published
  forced       \* history: the time since the last fetch for an unknown key

vars == <<keys, age, fetch, caller, published, since, forced>>

Enough == Ttl + 2 * Timeout
NoFetch == [age |-> None, served |-> None]
Idle == [key |-> None, at |-> "idle", forced |-> FALSE, fresh |-> FALSE, got |-> None]

Init ==
  /\ keys = None /\ age = Ttl
  /\ fetch = NoFetch
  /\ caller = [c \in Callers |-> Idle]
  /\ published \in SUBSET Keys
  /\ since = [k \in Keys |-> IF k \in published THEN 0 ELSE Enough]
  /\ forced = MinInterval

Fresh == keys # None /\ age < Ttl
MayRefresh == keys = None \/ age >= MinInterval
Cached(force) == (Fresh /\ ~(force /\ MayRefresh)) \/ ~MayRefresh

(* currentKeys has to wait: for the fetch in flight, or one it begins.      *)
Wait(c, key, force) ==
  /\ caller' = [caller EXCEPT ![c] =
       [key |-> key, at |-> "waiting", forced |-> force, fresh |-> Fresh, got |-> None]]
  /\ fetch' = IF fetch = NoFetch THEN [age |-> 0, served |-> None] ELSE fetch
  /\ forced' = IF fetch = NoFetch /\ force THEN 0 ELSE forced

Answer(c, key, ks) ==
  /\ caller' = [caller EXCEPT ![c] = [Idle EXCEPT
       !.key = key,
       !.at = IF ks = None THEN "unavailable" ELSE IF key \in ks THEN "ok" ELSE "invalid"]]
  /\ UNCHANGED <<fetch, forced>>

(* verify, with the keys of its first currentKeys: an unknown key makes it  *)
(* ask again.                                                               *)
Verify(c, key, ks) ==
  IF ks # None /\ key \notin ks
  THEN IF Cached(TRUE) THEN Answer(c, key, keys) ELSE Wait(c, key, TRUE)
  ELSE Answer(c, key, ks)

Begin(c, key) ==
  /\ caller[c].at = "idle"
  /\ IF Cached(FALSE) THEN Verify(c, key, keys) ELSE Wait(c, key, FALSE)
  /\ UNCHANGED <<keys, age, published, since>>

Serve ==
  /\ fetch # NoFetch /\ fetch.served = None /\ published # {}
  /\ fetch' = [fetch EXCEPT !.served = published]
  /\ UNCHANGED <<keys, age, caller, published, since, forced>>

(* The fetch is over: every caller that waits has its answer, keys it can   *)
(* still use when there is none.                                            *)
Wake(ks) ==
  [c \in Callers |->
     IF caller[c].at # "waiting" THEN caller[c]
     ELSE [caller[c] EXCEPT
       !.at = "woken",
       !.got = IF ks # None THEN ks ELSE IF caller[c].fresh THEN keys ELSE None]]

Fetched ==
  /\ fetch.served # None
  /\ keys' = fetch.served
  /\ age' = 0
  /\ caller' = Wake(fetch.served)
  /\ fetch' = NoFetch
  /\ UNCHANGED <<published, since, forced>>

FailFetched ==      \* mutant: a failed fetch counts as one
  /\ fetch # NoFetch
  /\ fetch' = NoFetch /\ caller' = Wake(None)
  /\ age' = 0
  /\ UNCHANGED <<keys, published, since, forced>>

Fail ==
  /\ fetch # NoFetch
  /\ fetch' = NoFetch /\ caller' = Wake(None)
  /\ UNCHANGED <<keys, age, published, since, forced>>

Resume(c) ==
  /\ caller[c].at = "woken"
  /\ IF caller[c].forced THEN Answer(c, caller[c].key, caller[c].got)
                         ELSE Verify(c, caller[c].key, caller[c].got)
  /\ UNCHANGED <<keys, age, published, since>>

Done(c) ==
  /\ caller[c].at \in {"ok", "invalid", "unavailable"}
  /\ caller' = [caller EXCEPT ![c] = Idle]
  /\ UNCHANGED <<keys, age, fetch, published, since, forced>>

(* Cernere publishes other keys.                                            *)
Rotate ==
  /\ published' \in SUBSET Keys /\ published' # published
  /\ since' = [k \in Keys |-> IF k \in published \cup published' THEN 0 ELSE since[k]]
  /\ UNCHANGED <<keys, age, fetch, caller, forced>>

Older(n, limit) == IF n < limit THEN n + 1 ELSE limit

(* Nothing resumed waits, and a fetch ends within its timeout.              *)
Tick ==
  /\ \A c \in Callers : caller[c].at \in {"idle", "waiting"}
  /\ fetch # NoFetch => fetch.age < Timeout
  /\ fetch' = IF fetch = NoFetch THEN fetch ELSE [fetch EXCEPT !.age = @ + 1]
  /\ age' = Older(age, Ttl)
  /\ since' = [k \in Keys |-> IF k \in published THEN 0 ELSE Older(since[k], Enough)]
  /\ forced' = Older(forced, MinInterval)
  /\ UNCHANGED <<keys, caller, published>>

Next ==
  \/ \E c \in Callers, k \in Keys : Begin(c, k)
  \/ \E c \in Callers : Resume(c) \/ Done(c)
  \/ Serve \/ Fetched \/ Fail \/ Rotate \/ Tick

Spec == Init /\ [][Next]_vars

Sets == {None} \cup SUBSET Keys

TypeOK ==
  /\ keys \in Sets /\ age \in 0..Ttl
  /\ fetch \in [age : {None} \cup 0..Timeout, served : Sets]
  /\ caller \in [Callers -> [key : Keys \cup {None},
       at : {"idle", "waiting", "woken", "ok", "invalid", "unavailable"},
       forced : BOOLEAN, fresh : BOOLEAN, got : Sets]]
  /\ published \subseteq Keys
  /\ since \in [Keys -> 0..Enough]
  /\ forced \in 0..MinInterval

(* A token is accepted only with a key that Cernere published within the    *)
(* life of the cache and two fetches of now: whatever was waited for, and   *)
(* however many fetches failed (service-token-verifier.ts:110).             *)
AcceptedKeyIsRecent ==
  \A c \in Callers : caller[c].at = "ok" => since[caller[c].key] < Enough

(* An unknown key makes Cernere be asked no more often than every           *)
(* MinInterval (the comment of KEY_REFRESH_MIN_INTERVAL_MS).                *)
RefetchIsSpaced ==
  [][forced' < forced => forced = MinInterval]_vars
=============================================================================
