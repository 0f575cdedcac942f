---------------------------- MODULE CernereOwner ----------------------------
(***************************************************************************)
(* plugins/cernere/shared-owner.ts: who may open and close the Hub's       *)
(* Cernere clients.  Plugins hold a facade of an entry and never a client; *)
(* rotate() builds a candidate client with the new secret, awaits its      *)
(* authentication and only then replaces the entry's client; revoke() and  *)
(* closeAll() end clients at once, rotations in flight included.           *)
(*                                                                         *)
(* One client key is modelled: the map's keys never meet.  The clients are *)
(* those of CernereClient, seen through ready() and close().               *)
(***************************************************************************)
EXTENDS FiniteSets

CONSTANTS
  Entries,   \* Entry objects get() may create (bounds revocations)
  Clients,   \* CernereProjectClient objects (bounds rotations)
  Secrets,   \* client secrets
  None

ASSUME NoneAssumption == None \notin Entries \cup Clients \cup Secrets

VARIABLES
  ownerClosed,  \* the owner's `closed'
  current,      \* entries.get(key)
  entry,        \* Entry objects; `rotating' is candidate # None
  client,       \* the client objects: secret and whether close() was called
  ready         \* the promise of candidate.ready() of a rotation

vars == <<ownerClosed, current, entry, client, ready>>

Unused == [client |-> None, secret |-> None, revoked |-> FALSE, candidate |-> None]

Made == {e \in Entries : entry[e] # Unused}
OpenClients == {k \in Clients : client[k].state = "open"}
FreshClients == {k \in Clients : client[k].state = "unused"}

Init ==
  /\ ownerClosed = FALSE
  /\ current = None
  /\ entry = [e \in Entries |-> Unused]
  /\ client = [k \in Clients |-> [state |-> "unused", secret |-> None]]
  /\ ready = [k \in Clients |-> "none"]

Opened(k, x) == [client EXCEPT ![k] = [state |-> "open", secret |-> x]]

(* client.close() on each of K, some of which may be None; ready() of a    *)
(* closed candidate rejects unless it had already resolved.                *)
Shut(K) ==
  /\ client' = [k \in Clients |->
                  IF k \in K THEN [client[k] EXCEPT !.state = "closed"] ELSE client[k]]
  /\ ready' = [k \in Clients |->
                 IF k \in K /\ ready[k] = "waiting" THEN "failed" ELSE ready[k]]

-----------------------------------------------------------------------------
(* get() of a key with no entry; with one it returns the facade or throws. *)
Get(x) ==
  /\ ~ownerClosed
  /\ current = None
  /\ \E e \in Entries \ Made, k \in FreshClients :
       /\ current' = e
       /\ entry' = [entry EXCEPT ![e] = [Unused EXCEPT !.client = k, !.secret = x]]
       /\ client' = Opened(k, x)
  /\ UNCHANGED <<ownerClosed, ready>>

Rotate(x) ==
  /\ ~ownerClosed
  /\ current # None
  /\ entry[current].candidate = None
  /\ \E k \in FreshClients :
       /\ entry' = [entry EXCEPT ![current].candidate = k]
       /\ client' = Opened(k, x)
       /\ ready' = [ready EXCEPT ![k] = "waiting"]
  /\ UNCHANGED <<ownerClosed, current>>

(* The candidate's connect() succeeds or fails.                            *)
Authenticated(k) ==
  /\ ready[k] = "waiting"
  /\ \E outcome \in {"ok", "failed"} : ready' = [ready EXCEPT ![k] = outcome]
  /\ UNCHANGED <<ownerClosed, current, entry, client>>

ActivateWithoutWaiting(e) ==   \* mutant: ready() is not awaited
  /\ ~ownerClosed /\ current = e
  /\ LET k == entry[e].candidate IN
       entry' = [entry EXCEPT ![e] = [@ EXCEPT !.client = k,
                                               !.secret = client[k].secret,
                                               !.candidate = None]]
  /\ Shut({entry[e].client})
  /\ UNCHANGED <<ownerClosed, current>>

ActivateOldSecret(e) ==   \* mutant: entry.secret is not updated
  /\ ready[entry[e].candidate] = "ok"
  /\ ~ownerClosed /\ current = e
  /\ entry' = [entry EXCEPT ![e].client = entry[e].candidate, ![e].candidate = None]
  /\ Shut({entry[e].client})
  /\ UNCHANGED <<ownerClosed, current>>

(* rotate() resumes after ready() resolved: it looks again at the owner    *)
(* and the map before it replaces the client.                              *)
Activate(e) ==
  /\ ready[entry[e].candidate] = "ok"
  /\ ~ownerClosed /\ current = e
  /\ LET k == entry[e].candidate IN
       entry' = [entry EXCEPT ![e] = [@ EXCEPT !.client = k,
                                               !.secret = client[k].secret,
                                               !.candidate = None]]
  /\ Shut({entry[e].client})
  /\ UNCHANGED <<ownerClosed, current>>

AbandonOnFailureOnly(e) ==   \* mutant: a revoked rotation is never ended
  /\ ready[entry[e].candidate] = "failed"
  /\ current = e
  /\ entry' = [entry EXCEPT ![e].candidate = None]
  /\ Shut({entry[e].candidate})
  /\ UNCHANGED <<ownerClosed, current>>

Abandon(e) ==
  /\ \/ ready[entry[e].candidate] = "failed"
     \/ ready[entry[e].candidate] = "ok" /\ (ownerClosed \/ current # e)
  /\ entry' = [entry EXCEPT ![e].candidate = None]
  /\ Shut({entry[e].candidate})
  /\ UNCHANGED <<ownerClosed, current>>

RevokeKeepsCandidate ==   \* mutant: a rotation in flight survives
  /\ current # None
  /\ current' = None
  /\ entry' = [entry EXCEPT ![current].revoked = TRUE]
  /\ Shut({entry[current].client})
  /\ UNCHANGED ownerClosed

Revoke ==
  /\ current # None
  /\ current' = None
  /\ entry' = [entry EXCEPT ![current].revoked = TRUE]
  /\ Shut({entry[current].client, entry[current].candidate})
  /\ UNCHANGED ownerClosed

CloseAll ==
  /\ ~ownerClosed
  /\ ownerClosed' = TRUE
  /\ current' = None
  /\ entry' = IF current = None THEN entry ELSE [entry EXCEPT ![current].revoked = TRUE]
  /\ Shut({entry[e].candidate : e \in Made} \cup
          (IF current = None THEN {} ELSE {entry[current].client}))

Next ==
  \/ \E x \in Secrets : Get(x) \/ Rotate(x)
  \/ \E k \in Clients : Authenticated(k)
  \/ \E e \in Entries : entry[e].candidate # None /\ (Activate(e) \/ Abandon(e))
  \/ Revoke
  \/ CloseAll

(* connect() has its own timers and a resolved promise is resumed.         *)
Fairness ==
  /\ \A k \in Clients : WF_vars(Authenticated(k))
  /\ \A e \in Entries :
       WF_vars(entry[e].candidate # None /\ (Activate(e) \/ Abandon(e)))

Spec == Init /\ [][Next]_vars /\ Fairness

-----------------------------------------------------------------------------
Entry == [client : Clients \cup {None}, secret : Secrets \cup {None},
          revoked : BOOLEAN, candidate : Clients \cup {None}]

(* Every variable keeps its range. *)
TypeOK ==
  /\ ownerClosed \in BOOLEAN
  /\ current \in Entries \cup {None}
  /\ entry \in [Entries -> Entry]
  /\ client \in [Clients -> [state : {"unused", "open", "closed"},
                             secret : Secrets \cup {None}]]
  /\ ready \in [Clients -> {"none", "waiting", "ok", "failed"}]

(* Every open client belongs to the entry in the map, as its client or as  *)
(* the candidate of its rotation: a revocation, a shutdown or a rotation   *)
(* that races them leaves no connection nobody can close.                  *)
OpenClientIsOwned ==
  \A k \in OpenClients :
    current # None /\ k \in {entry[current].client, entry[current].candidate}

(* The facade of the entry in the map always reaches an open client that   *)
(* logs in with the secret the entry is known by; a rotation, whatever its *)
(* outcome, never takes the service away.                                  *)
FacadeIsServed ==
  current # None =>
    LET k == entry[current].client IN
      k \in OpenClients /\ client[k].secret = entry[current].secret

-----------------------------------------------------------------------------
(* What makes these inductive.  An entry that is made has a client, the one*)
(* in the map is made, and a closed owner has an empty map.                *)
EntriesAreMade ==
  /\ \A e \in Made : entry[e].client # None
  /\ \A e \in Entries : entry[e].candidate # None => entry[e].client # None
  /\ current # None => entry[current].client # None
  /\ ownerClosed => current = None

(* Clients are made once and have one place: a candidate is neither the    *)
(* client in use nor the candidate of another rotation.                    *)
ClientsHaveOnePlace ==
  /\ \A e \in Entries, k \in Clients :
       k \in {entry[e].client, entry[e].candidate} => client[k].state # "unused"
  /\ \A e \in Entries : entry[e].candidate # None =>
       /\ current # None => entry[e].candidate # entry[current].client
       /\ \A f \in Entries \ {e} : entry[f].candidate # entry[e].candidate

(* The rotation of the entry in the map works on an open candidate.        *)
CandidateIsOpen ==
  current # None /\ entry[current].candidate # None =>
    entry[current].candidate \in OpenClients

Inv ==
  /\ TypeOK
  /\ OpenClientIsOwned
  /\ FacadeIsServed
  /\ EntriesAreMade
  /\ ClientsHaveOnePlace
  /\ CandidateIsOpen

(* A client is replaced only by one whose authentication was confirmed.    *)
RotatesToAuthenticated ==
  [][\A e \in Made :
       entry'[e].client # entry[e].client =>
         entry'[e].client = entry[e].candidate /\ ready[entry[e].candidate] = "ok"]_vars
=============================================================================
