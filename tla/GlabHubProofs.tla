--------------------------- MODULE GlabHubProofs ---------------------------
(***************************************************************************)
(* Safety of the owner of the Cernere clients for any number of entries,   *)
(* clients and secrets, alone and in the process of the Hub (GlabHub).     *)
(* Inv (CernereOwner) and HubInv (GlabHub) are inductive: one lemma per    *)
(* action and one step per conjunct.                                       *)
(***************************************************************************)
EXTENDS GlabHub, TLAPS

(* An entry keeps its shape when one of its fields is set.                 *)
LEMMA EntryUpdate ==
  ASSUME NEW r \in Entry, NEW k \in Clients \cup {None}
  PROVE  /\ [r EXCEPT !.candidate = k] \in Entry
         /\ [r EXCEPT !.revoked = TRUE] \in Entry
BY DEF Entry

(* A new entry is the only one in the map and its client is fresh.         *)
LEMMA GetInv == ASSUME Inv, NEW x \in Secrets, Get(x) PROVE Inv'
<1> USE NoneAssumption DEF Inv, TypeOK, Get, Opened, Shut
<1>a. PICK f \in Entries \ Made, k \in FreshClients :
        /\ current' = f
        /\ entry' = [entry EXCEPT ![f] = [Unused EXCEPT !.client = k, !.secret = x]]
        /\ client' = Opened(k, x)
  OBVIOUS
<1>b. entry'[f] = [client |-> k, secret |-> x, revoked |-> FALSE, candidate |-> None]
  BY <1>a DEF Unused
<1>1. TypeOK'
  <2>1. entry' \in [Entries -> Entry]
    <3>0. k \in Clients \cup {None} /\ x \in Secrets \cup {None} /\ FALSE \in BOOLEAN
      BY DEF FreshClients
    <3>1. entry'[f] \in Entry
      <4> HIDE DEF Inv, TypeOK, Get, Opened, Shut
      <4> QED BY <1>b, <3>0 DEF Entry
    <3>2. \A g \in Entries : entry'[g] \in Entry
      BY <1>a, <3>1
    <3> QED BY <1>a, <3>2
  <2>2. client' \in [Clients -> [state : {"unused", "open", "closed"},
                                  secret : Secrets \cup {None}]]
    BY <1>a, <1>b
  <2>3. /\ ownerClosed' \in BOOLEAN /\ current' \in Entries \cup {None}
        /\ ready' \in [Clients -> {"none", "waiting", "ok", "failed"}]
    BY <1>a, <1>b
  <2> QED BY <2>1, <2>2, <2>3
<1>2. OpenClientIsOwned'
  BY <1>a, <1>b DEF OpenClientIsOwned, OpenClients
<1>3. FacadeIsServed'
  BY <1>a, <1>b DEF FacadeIsServed, OpenClients, FreshClients
<1>4. EntriesAreMade'
  <2>1. \A g \in Entries : entry'[g] = entry[g] \/ entry'[g].client # None
    BY <1>a, <1>b DEF FreshClients
  <2>2. \A g \in Made' : entry'[g].client # None
    BY <2>1 DEF EntriesAreMade, Made
  <2>3. \A g \in Entries : entry'[g].candidate # None => entry'[g].client # None
    BY <1>a, <1>b DEF EntriesAreMade, Unused
  <2>4. /\ current' # None => entry'[current'].client # None
        /\ ownerClosed' => current' = None
    BY <1>a, <1>b DEF FreshClients
  <2> QED BY <2>2, <2>3, <2>4 DEF EntriesAreMade
<1>5. ClientsHaveOnePlace'
  BY <1>a, <1>b DEF ClientsHaveOnePlace, FreshClients, Unused
<1>6. CandidateIsOpen'
  BY <1>a, <1>b DEF CandidateIsOpen, Unused
<1> QED BY <1>1, <1>2, <1>3, <1>4, <1>5, <1>6

(* The candidate of a new rotation is fresh.                               *)
LEMMA RotateInv == ASSUME Inv, NEW x \in Secrets, Rotate(x) PROVE Inv'
<1> USE NoneAssumption DEF Inv, TypeOK, Rotate, Opened, Shut
<1>1. TypeOK'
  <2>1. entry' \in [Entries -> Entry]
    <3>1. PICK k \in Clients : entry' = [entry EXCEPT ![current].candidate = k]
      BY DEF FreshClients
    <3>2. entry[current] \in Entry
      OBVIOUS
    <3>3. entry'[current] \in Entry
      <4>1. entry'[current] = [entry[current] EXCEPT !.candidate = k]
        BY <3>1
      <4> HIDE DEF Inv, TypeOK, Rotate, Opened, Shut
      <4> QED BY <4>1, <3>2, EntryUpdate
    <3>4. \A f \in Entries : entry'[f] \in Entry
      BY <3>1, <3>3
    <3> QED BY <3>1, <3>4
  <2>2. client' \in [Clients -> [state : {"unused", "open", "closed"},
                                  secret : Secrets \cup {None}]]
    BY DEF FreshClients
  <2>3. /\ ownerClosed' \in BOOLEAN /\ current' \in Entries \cup {None}
        /\ ready' \in [Clients -> {"none", "waiting", "ok", "failed"}]
    OBVIOUS
  <2> QED BY <2>1, <2>2, <2>3
<1>2. OpenClientIsOwned'
  BY DEF OpenClientIsOwned, OpenClients
<1>3. FacadeIsServed'
  BY DEF FacadeIsServed, OpenClients, FreshClients
<1>4. EntriesAreMade'
  <2>1. \A g \in Entries : entry'[g] = entry[g] \/ entry'[g].client # None
    BY DEF FacadeIsServed, OpenClients
  <2>2. \A g \in Made' : entry'[g].client # None
    BY <2>1 DEF EntriesAreMade, Made
  <2>3. \A g \in Entries : entry'[g].candidate # None => entry'[g].client # None
    BY DEF EntriesAreMade
  <2>4. /\ current' # None => entry'[current'].client # None
        /\ ownerClosed' => current' = None
    BY DEF FacadeIsServed, OpenClients
  <2> QED BY <2>2, <2>3, <2>4 DEF EntriesAreMade
<1>5. ClientsHaveOnePlace'
  BY DEF ClientsHaveOnePlace, FreshClients
<1>6. CandidateIsOpen'
  BY DEF CandidateIsOpen, OpenClients, FreshClients
<1> QED BY <1>1, <1>2, <1>3, <1>4, <1>5, <1>6

(* The outcome of an authentication moves no client.                       *)
LEMMA AuthenticatedInv ==
  ASSUME Inv, NEW k \in Clients, Authenticated(k)
  PROVE  Inv'
<1> USE NoneAssumption DEF Inv, TypeOK, Authenticated, Opened, Shut
<1>1. TypeOK'
  <2>1. entry' \in [Entries -> Entry]
    OBVIOUS
  <2>2. client' \in [Clients -> [state : {"unused", "open", "closed"},
                                  secret : Secrets \cup {None}]]
    OBVIOUS
  <2>3. /\ ownerClosed' \in BOOLEAN /\ current' \in Entries \cup {None}
        /\ ready' \in [Clients -> {"none", "waiting", "ok", "failed"}]
    OBVIOUS
  <2> QED BY <2>1, <2>2, <2>3
<1>2. OpenClientIsOwned'
  BY DEF OpenClientIsOwned, OpenClients
<1>3. FacadeIsServed'
  BY DEF FacadeIsServed, OpenClients
<1>4. EntriesAreMade'
  <2>1. \A g \in Entries : entry'[g] = entry[g] \/ entry'[g].client # None
    OBVIOUS
  <2>2. \A g \in Made' : entry'[g].client # None
    BY <2>1 DEF EntriesAreMade, Made
  <2>3. \A g \in Entries : entry'[g].candidate # None => entry'[g].client # None
    BY DEF EntriesAreMade
  <2>4. /\ current' # None => entry'[current'].client # None
        /\ ownerClosed' => current' = None
    BY DEF EntriesAreMade
  <2> QED BY <2>2, <2>3, <2>4 DEF EntriesAreMade
<1>5. ClientsHaveOnePlace'
  BY DEF ClientsHaveOnePlace
<1>6. CandidateIsOpen'
  BY DEF CandidateIsOpen, OpenClients
<1> QED BY <1>1, <1>2, <1>3, <1>4, <1>5, <1>6

(* The candidate that takes over is open and is nobody else's.             *)
LEMMA ActivateInv ==
  ASSUME Inv, NEW e \in Entries, entry[e].candidate # None, Activate(e)
  PROVE  Inv'
<1> USE NoneAssumption DEF Inv, TypeOK, Activate, Opened, Shut
<1>1. TypeOK'
  <2>1. entry' \in [Entries -> Entry]
    <3>1. /\ entry[e] \in Entry
          /\ client[entry[e].candidate].secret \in Secrets \cup {None}
      BY DEF Entry
    <3>2. entry'[e] = [entry[e] EXCEPT !.client = entry[e].candidate,
                                       !.secret = client[entry[e].candidate].secret,
                                       !.candidate = None]
      OBVIOUS
    <3>3. entry'[e] \in Entry
      BY <3>1, <3>2 DEF Entry
    <3>4. \A f \in Entries : entry'[f] \in Entry
      BY <3>3
    <3> QED BY <3>4
  <2>2. client' \in [Clients -> [state : {"unused", "open", "closed"},
                                  secret : Secrets \cup {None}]]
    OBVIOUS
  <2>3. /\ ownerClosed' \in BOOLEAN /\ current' \in Entries \cup {None}
        /\ ready' \in [Clients -> {"none", "waiting", "ok", "failed"}]
    OBVIOUS
  <2> QED BY <2>1, <2>2, <2>3
<1>2. OpenClientIsOwned'
  BY DEF OpenClientIsOwned, OpenClients
<1>3. FacadeIsServed'
  BY DEF FacadeIsServed, ClientsHaveOnePlace, CandidateIsOpen, OpenClients
<1>4. EntriesAreMade'
  <2>1. \A g \in Entries : entry'[g] = entry[g] \/ entry'[g].client # None
    OBVIOUS
  <2>2. \A g \in Made' : entry'[g].client # None
    BY <2>1 DEF EntriesAreMade, Made
  <2>3. \A g \in Entries : entry'[g].candidate # None => entry'[g].client # None
    BY DEF EntriesAreMade
  <2>4. /\ current' # None => entry'[current'].client # None
        /\ ownerClosed' => current' = None
    OBVIOUS
  <2> QED BY <2>2, <2>3, <2>4 DEF EntriesAreMade
<1>5. ClientsHaveOnePlace'
  BY DEF ClientsHaveOnePlace
<1>6. CandidateIsOpen'
  BY DEF CandidateIsOpen
<1> QED BY <1>1, <1>2, <1>3, <1>4, <1>5, <1>6

(* The candidate given up is not the client of the entry in the map        *)
(* (ClientsHaveOnePlace).                                                  *)
LEMMA AbandonInv ==
  ASSUME Inv, NEW e \in Entries, entry[e].candidate # None, Abandon(e)
  PROVE  Inv'
<1> USE NoneAssumption DEF Inv, TypeOK, Abandon, Opened, Shut
<1>1. TypeOK'
  <2>1. entry' \in [Entries -> Entry]
    <3>1. \A f \in Entries :
            entry'[f] = entry[f] \/ entry'[f] = [entry[f] EXCEPT !.candidate = None]
      OBVIOUS
    <3>2. \A f \in Entries : entry'[f] \in Entry
      BY <3>1, EntryUpdate
    <3> QED BY <3>2
  <2>2. client' \in [Clients -> [state : {"unused", "open", "closed"},
                                  secret : Secrets \cup {None}]]
    OBVIOUS
  <2>3. /\ ownerClosed' \in BOOLEAN /\ current' \in Entries \cup {None}
        /\ ready' \in [Clients -> {"none", "waiting", "ok", "failed"}]
    OBVIOUS
  <2> QED BY <2>1, <2>2, <2>3
<1>2. OpenClientIsOwned'
  BY DEF OpenClientIsOwned, OpenClients
<1>3. FacadeIsServed'
  BY DEF FacadeIsServed, ClientsHaveOnePlace, OpenClients
<1>4. EntriesAreMade'
  <2>1. \A g \in Entries : entry'[g] = entry[g] \/ entry'[g].client # None
    BY DEF EntriesAreMade
  <2>2. \A g \in Made' : entry'[g].client # None
    BY <2>1 DEF EntriesAreMade, Made
  <2>3. \A g \in Entries : entry'[g].candidate # None => entry'[g].client # None
    BY DEF EntriesAreMade
  <2>4. /\ current' # None => entry'[current'].client # None
        /\ ownerClosed' => current' = None
    BY DEF EntriesAreMade
  <2> QED BY <2>2, <2>3, <2>4 DEF EntriesAreMade
<1>5. ClientsHaveOnePlace'
  BY DEF ClientsHaveOnePlace
<1>6. CandidateIsOpen'
  BY DEF ClientsHaveOnePlace, CandidateIsOpen, OpenClients
<1> QED BY <1>1, <1>2, <1>3, <1>4, <1>5, <1>6

(* A revocation closes both clients of the entry it removes.               *)
LEMMA RevokeInv == ASSUME Inv, Revoke PROVE Inv'
<1> USE NoneAssumption DEF Inv, TypeOK, Revoke, Opened, Shut
<1>1. TypeOK'
  <2>1. entry' \in [Entries -> Entry]
    <3>1. \A f \in Entries :
            entry'[f] = entry[f] \/ entry'[f] = [entry[f] EXCEPT !.revoked = TRUE]
      OBVIOUS
    <3>2. \A f \in Entries : entry'[f] \in Entry
      BY <3>1, EntryUpdate
    <3> QED BY <3>2
  <2>2. client' \in [Clients -> [state : {"unused", "open", "closed"},
                                  secret : Secrets \cup {None}]]
    OBVIOUS
  <2>3. /\ ownerClosed' \in BOOLEAN /\ current' \in Entries \cup {None}
        /\ ready' \in [Clients -> {"none", "waiting", "ok", "failed"}]
    OBVIOUS
  <2> QED BY <2>1, <2>2, <2>3
<1>2. OpenClientIsOwned'
  BY DEF OpenClientIsOwned, OpenClients
<1>3. FacadeIsServed'
  BY DEF FacadeIsServed
<1>4. EntriesAreMade'
  <2>1. \A g \in Entries : entry'[g] = entry[g] \/ entry'[g].client # None
    BY DEF FacadeIsServed, OpenClients
  <2>2. \A g \in Made' : entry'[g].client # None
    BY <2>1 DEF EntriesAreMade, Made
  <2>3. \A g \in Entries : entry'[g].candidate # None => entry'[g].client # None
    BY DEF EntriesAreMade
  <2>4. /\ current' # None => entry'[current'].client # None
        /\ ownerClosed' => current' = None
    OBVIOUS
  <2> QED BY <2>2, <2>3, <2>4 DEF EntriesAreMade
<1>5. ClientsHaveOnePlace'
  BY DEF ClientsHaveOnePlace
<1>6. CandidateIsOpen'
  BY DEF CandidateIsOpen
<1> QED BY <1>1, <1>2, <1>3, <1>4, <1>5, <1>6

(* The shutdown closes the client in use and every candidate.              *)
LEMMA CloseAllInv == ASSUME Inv, CloseAll PROVE Inv'
<1> USE NoneAssumption DEF Inv, TypeOK, CloseAll, Opened, Shut
<1>1. TypeOK'
  <2>1. entry' \in [Entries -> Entry]
    <3>1. \A f \in Entries :
            entry'[f] = entry[f] \/ entry'[f] = [entry[f] EXCEPT !.revoked = TRUE]
      OBVIOUS
    <3>2. \A f \in Entries : entry'[f] \in Entry
      BY <3>1, EntryUpdate
    <3> QED BY <3>2
  <2>2. client' \in [Clients -> [state : {"unused", "open", "closed"},
                                  secret : Secrets \cup {None}]]
    OBVIOUS
  <2>3. /\ ownerClosed' \in BOOLEAN /\ current' \in Entries \cup {None}
        /\ ready' \in [Clients -> {"none", "waiting", "ok", "failed"}]
    OBVIOUS
  <2> QED BY <2>1, <2>2, <2>3
<1>2. OpenClientIsOwned'
  BY DEF OpenClientIsOwned, OpenClients, Made, Unused
<1>3. FacadeIsServed'
  BY DEF FacadeIsServed
<1>4. EntriesAreMade'
  <2>1. \A g \in Entries : entry'[g] = entry[g] \/ entry'[g].client # None
    BY DEF FacadeIsServed, OpenClients
  <2>2. \A g \in Made' : entry'[g].client # None
    BY <2>1 DEF EntriesAreMade, Made
  <2>3. \A g \in Entries : entry'[g].candidate # None => entry'[g].client # None
    BY DEF EntriesAreMade
  <2>4. /\ current' # None => entry'[current'].client # None
        /\ ownerClosed' => current' = None
    OBVIOUS
  <2> QED BY <2>2, <2>3, <2>4 DEF EntriesAreMade
<1>5. ClientsHaveOnePlace'
  BY DEF ClientsHaveOnePlace
<1>6. CandidateIsOpen'
  BY DEF CandidateIsOpen
<1> QED BY <1>1, <1>2, <1>3, <1>4, <1>5, <1>6

(* The initial state has no entry and no client.                           *)
LEMMA InitInv == Init => Inv
<1> SUFFICES ASSUME Init PROVE Inv OBVIOUS
<1> USE NoneAssumption DEF Init
<1>1. TypeOK BY DEF TypeOK, Entry, Unused
<1>2. OpenClientIsOwned /\ FacadeIsServed /\ CandidateIsOpen
  BY DEF OpenClientIsOwned, FacadeIsServed, CandidateIsOpen, OpenClients
<1>3. EntriesAreMade /\ ClientsHaveOnePlace
  BY DEF EntriesAreMade, ClientsHaveOnePlace, Made, Unused
<1> QED BY <1>1, <1>2, <1>3 DEF Inv

(* Inv is inductive.                                                       *)
LEMMA StepInv == Inv /\ [Next]_vars => Inv'
<1> SUFFICES ASSUME Inv, [Next]_vars PROVE Inv' OBVIOUS
<1>1. CASE \E x \in Secrets : Get(x) \/ Rotate(x)
  BY <1>1, GetInv, RotateInv
<1>2. CASE \E k \in Clients : Authenticated(k)
  BY <1>2, AuthenticatedInv
<1>3. CASE \E e \in Entries :
             entry[e].candidate # None /\ (Activate(e) \/ Abandon(e))
  BY <1>3, ActivateInv, AbandonInv
<1>4. CASE Revoke
  BY <1>4, RevokeInv
<1>5. CASE CloseAll
  BY <1>5, CloseAllInv
<1>6. CASE UNCHANGED vars
  BY <1>6 DEF vars, Inv, TypeOK, OpenClientIsOwned, FacadeIsServed,
              EntriesAreMade, ClientsHaveOnePlace, CandidateIsOpen,
              OpenClients, Made
<1> QED BY <1>1, <1>2, <1>3, <1>4, <1>5, <1>6 DEF Next

-----------------------------------------------------------------------------
(* Inv holds in every reachable state.                                     *)
THEOREM Invariance == Spec => []Inv
<1> QED BY InitInv, StepInv, PTL DEF Spec

(* Type correctness.                                                       *)
THEOREM TypeCorrect == Spec => []TypeOK
<1>1. Inv => TypeOK BY DEF Inv
<1> QED BY Invariance, <1>1, PTL

(* No connection is left that nobody can close: every open client is the   *)
(* client or the rotation's candidate of the entry in the map.             *)
THEOREM NoOrphanedClient == Spec => []OpenClientIsOwned
<1>1. Inv => OpenClientIsOwned BY DEF Inv
<1> QED BY Invariance, <1>1, PTL

(* The entry in the map is always served by an open client with its secret.*)
THEOREM ServiceIsKept == Spec => []FacadeIsServed
<1>1. Inv => FacadeIsServed BY DEF Inv
<1> QED BY Invariance, <1>1, PTL

(* The candidate of an entry, authenticated, becomes its client.           *)
TakesOver(e) ==
  entry'[e].client = entry[e].candidate /\ ready[entry[e].candidate] = "ok"

(* The step behind the next theorem.                                       *)
LEMMA StepTakesOver ==
  ASSUME Inv, Next, NEW e \in Made, entry'[e].client # entry[e].client
  PROVE  TakesOver(e)
<1> USE DEF Inv, TypeOK, Entry
<1>0. e \in Entries BY DEF Made
<1>1. ASSUME NEW f \in Entries, Activate(f) PROVE TakesOver(e)
  BY <1>0, <1>1 DEF Activate, TakesOver
<1>2. ASSUME NEW f \in Entries, Abandon(f) PROVE FALSE
  BY <1>0, <1>2 DEF Abandon
<1>3. ASSUME NEW x \in Secrets, Get(x) PROVE FALSE
  BY <1>0, <1>3 DEF Get
<1>4. ASSUME NEW x \in Secrets, Rotate(x) PROVE FALSE
  BY <1>0, <1>4 DEF Rotate
<1>5. ASSUME NEW k \in Clients, Authenticated(k) PROVE FALSE
  BY <1>5 DEF Authenticated
<1>6. CASE Revoke
  BY <1>0, <1>6 DEF Revoke
<1>7. CASE CloseAll
  BY <1>0, <1>7 DEF CloseAll
<1> QED BY <1>1, <1>2, <1>3, <1>4, <1>5, <1>6, <1>7 DEF Next

(* A rotation hands over to an authenticated client only.                  *)
THEOREM RotationIsAuthenticated == Spec => RotatesToAuthenticated
<1>1. Inv /\ [Next]_vars =>
        [\A e \in Made : entry'[e].client # entry[e].client => TakesOver(e)]_vars
  BY StepTakesOver
<1> QED BY <1>1, Invariance, PTL DEF Spec, RotatesToAuthenticated, TakesOver

-----------------------------------------------------------------------------
(* The process.  Its initial state: nothing is open and no cleanup began.  *)
LEMMA LifecycleInitInv == Hub!Init => Hub!Inv /\ \A s \in Hub!Stores : cleanup[s] = "idle"
<1> SUFFICES ASSUME Hub!Init
             PROVE  Hub!Inv /\ \A s \in Hub!Stores : cleanup[s] = "idle"
  OBVIOUS
<1> QED BY DEF Hub!Init, Hub!Each, Hub!Inv, Hub!TypeOK, Hub!CleanupsBeginTogether,
        Hub!ClosingFollowsInitialization, Hub!StoresFollowClosing, Hub!EndsClean

(* Every step of the process keeps its invariant.                          *)
LEMMA LifecycleStepInv == ASSUME Hub!Inv, Hub!Next PROVE Hub!Inv'
<1> USE DEF Hub!Inv, Hub!TypeOK, Hub!CleanupsBeginTogether, Hub!ClosingFollowsInitialization,
        Hub!StoresFollowClosing, Hub!EndsClean, Hub!Initializing, Hub!Stores
<1>0. exit = "running" BY DEF Hub!Next, Hub!Progress
<1>1. CASE Hub!OpenEvents BY <1>0, <1>1 DEF Hub!OpenEvents
<1>2. CASE Hub!OpenFacility BY <1>0, <1>2 DEF Hub!OpenFacility
<1>3. CASE Hub!Initialized BY <1>0, <1>3 DEF Hub!Initialized, Hub!Fails, Hub!Shutdown
<1>4. CASE Hub!Started BY <1>0, <1>4 DEF Hub!Started, Hub!Fails, Hub!Shutdown
<1>5. CASE Hub!LateClosed BY <1>0, <1>5 DEF Hub!LateClosed, Hub!Fails, Hub!Shutdown
<1>6. CASE Hub!Signal BY <1>0, <1>6 DEF Hub!Signal, Hub!Shutdown
<1>7. ASSUME NEW s \in Hub!Stores, Hub!CloseCorpus(s) PROVE Hub!Inv'
  BY <1>0, <1>7 DEF Hub!CloseCorpus
<1>8. CASE Hub!CorpusClosed BY <1>0, <1>8 DEF Hub!CorpusClosed
<1>9. ASSUME NEW s \in Hub!Stores, Hub!CloseStore(s) PROVE Hub!Inv'
  BY <1>0, <1>9 DEF Hub!CloseStore
<1>10. CASE Hub!Exit BY <1>0, <1>10 DEF Hub!Exit, Hub!Settled, Hub!FailedCleanup
<1> QED
  <2> HIDE DEF Hub!Inv
  <2> QED BY <1>1, <1>2, <1>3, <1>4, <1>5, <1>6, <1>7, <1>8, <1>9, <1>10
       DEF Hub!Next, Hub!Progress

(* To the owner a step of the process is a step of its own or none.        *)
LEMMA ProcessStep == HubNext => [Next]_vars
<1> SUFFICES ASSUME HubNext PROVE [Next]_vars OBVIOUS
<1>1. CASE WithCloseAll(Hub!Next) BY <1>1 DEF WithCloseAll, Next
<1>2. CASE Plugins BY <1>2 DEF Plugins, Next
<1> QED BY <1>1, <1>2 DEF HubNext

(* The first cleanup begins in the step that closes the owner, and the     *)
(* owner stays closed.                                                     *)
LEMMA CleanupCloses ==
  ASSUME HubInv, HubNext, NEW s \in Hub!Stores, cleanup'[s] # "idle"
  PROVE  ownerClosed'
<1>1. CASE WithCloseAll(Hub!Next) /\ Hub!ShutdownStarts
  BY <1>1 DEF WithCloseAll, CloseAll
<1>2. CASE WithCloseAll(Hub!Next) /\ ~Hub!ShutdownStarts
  <2>1. ownerClosed' = ownerClosed BY <1>2 DEF WithCloseAll, vars
  <2>2. cleanup # Hub!Each("idle") \/ cleanup' = cleanup
    BY <1>2 DEF Hub!ShutdownStarts
  <2>3. CASE cleanup' = cleanup BY <2>1, <2>3 DEF HubInv
  <2>4. CASE cleanup # Hub!Each("idle")
    <3>1. PICK t \in Hub!Stores : cleanup[t] # "idle"
      BY <2>4 DEF HubInv, Hub!Inv, Hub!TypeOK, Hub!Each
    <3> QED BY <2>1, <3>1 DEF HubInv
  <2> QED BY <2>2, <2>3, <2>4
<1>3. CASE Plugins
  <2>1. cleanup' = cleanup BY <1>3 DEF Plugins, lifecycleVars
  <2>2. ownerClosed BY <2>1 DEF HubInv
  <2>3. ownerClosed' = ownerClosed
    BY <1>3 DEF Plugins, Revoke, Get, Rotate, Authenticated, Activate, Abandon
  <2> QED BY <2>2, <2>3
<1> QED BY <1>1, <1>2, <1>3 DEF HubNext

(* HubInv is inductive.                                                    *)
LEMMA ProcessStepInv == HubInv /\ [HubNext]_hubVars => HubInv'
<1> SUFFICES ASSUME HubInv, [HubNext]_hubVars PROVE HubInv' OBVIOUS
<1>1. CASE HubNext
  <2>1. Inv' BY <1>1, ProcessStep, StepInv DEF HubInv
  <2>2. Hub!Inv'
    <3>1. CASE WithCloseAll(Hub!Next) BY <3>1, LifecycleStepInv DEF WithCloseAll, HubInv
    <3>2. CASE Plugins
      <4>1. UNCHANGED lifecycleVars BY <3>2 DEF Plugins
      <4> QED BY <4>1 DEF lifecycleVars, HubInv, Hub!Inv, Hub!TypeOK, Hub!CleanupsBeginTogether,
                          Hub!ClosingFollowsInitialization, Hub!StoresFollowClosing,
                          Hub!EndsClean, Hub!Initializing, Hub!FailedCleanup
    <3> QED BY <1>1, <3>1, <3>2 DEF HubNext
  <2>3. (\E s \in Hub!Stores : cleanup'[s] # "idle") => ownerClosed'
    BY <1>1, CleanupCloses
  <2> QED BY <2>1, <2>2, <2>3 DEF HubInv
<1>2. CASE UNCHANGED hubVars
  <2>1. Inv' BY <1>2, StepInv DEF hubVars, HubInv
  <2>2. Hub!Inv'
    BY <1>2 DEF hubVars, lifecycleVars, HubInv, Hub!Inv, Hub!TypeOK, Hub!CleanupsBeginTogether,
                Hub!ClosingFollowsInitialization, Hub!StoresFollowClosing,
                Hub!EndsClean, Hub!Initializing, Hub!FailedCleanup
  <2>3. (\E s \in Hub!Stores : cleanup'[s] # "idle") => ownerClosed'
    BY <1>2 DEF hubVars, lifecycleVars, vars, HubInv
  <2> QED BY <2>1, <2>2, <2>3 DEF HubInv
<1> QED BY <1>1, <1>2

(* HubInv holds in every state of the process.                             *)
THEOREM ProcessInvariance == HubSpec => []HubInv
<1>1. HubInit => HubInv BY InitInv, LifecycleInitInv DEF HubInit, HubInv
<1> QED BY <1>1, ProcessStepInv, PTL DEF HubSpec

(* The promises of the owner hold in the process of the Hub: connections   *)
(* are owned, the entry in the map is served, and a rotation hands over to *)
(* an authenticated client only, whatever the process does meanwhile.      *)
THEOREM ProcessKeepsOwner ==
  HubSpec => [](OpenClientIsOwned /\ FacadeIsServed) /\ RotatesToAuthenticated
<1>1. HubInv => Inv /\ OpenClientIsOwned /\ FacadeIsServed BY DEF HubInv, Inv
<1>2. Inv /\ [Next]_vars =>
        [\A e \in Made : entry'[e].client # entry[e].client => TakesOver(e)]_vars
  BY StepTakesOver
<1>3. [HubNext]_hubVars => [Next]_vars BY ProcessStep DEF hubVars
<1> QED BY <1>1, <1>2, <1>3, ProcessInvariance, PTL
     DEF HubSpec, RotatesToAuthenticated, TakesOver

(* The Hub ends from the outside in and clean: no cleanup begins while a   *)
(* Cernere client can send, no store ends under a Corpus that serves, and  *)
(* an exit leaves no pool open that its exit code does not report.         *)
THEOREM ProcessEndsInOrder == HubSpec => []ClosesInOrderAndClean
<1>1. HubInv => ClosesInOrderAndClean
  <2> SUFFICES ASSUME HubInv PROVE ClosesInOrder /\ EndsClean
    BY DEF ClosesInOrderAndClean
  <2>1. (\E s \in Hub!Stores : cleanup[s] # "idle") => OpenClients = {}
    BY DEF HubInv, Inv, EntriesAreMade, OpenClientIsOwned
  <2>2. main = "serving" /\ corpus # "closed" => \A s \in Hub!Stores : store[s] # "closed"
    BY DEF HubInv, Hub!Inv, Hub!ClosingFollowsInitialization, Hub!StoresFollowClosing
  <2>3. EndsClean BY DEF HubInv, Hub!Inv, EndsClean
  <2> QED BY <2>1, <2>2, <2>3 DEF ClosesInOrder
<1> QED BY <1>1, ProcessInvariance, PTL
=============================================================================
