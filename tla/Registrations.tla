---------------------------- MODULE Registrations ----------------------------
(* plugins/access: who may use the Hub.  Registrations of Cernere arrive by *)
(* POST /external/sync, a page at a time after a cursor that starts over at *)
(* the end, and by the first request of a user; administrators decide.      *)
EXTENDS Naturals, Integers, FiniteSets

CONSTANTS
  Users,       \* user ids, in the order Cernere lists them
  Syncs,       \* POST /external/sync in progress
  Admins,      \* PUT /requests/:userId in progress
  PageSize,    \* 100
  MaxRevision, \* bound
  None         \* no row, no cursor, no request

RegistrationsAssumption ==
  Users \subseteq Nat /\ IsFiniteSet(Users) /\ PageSize \in Nat \ {0} /\ None \notin Users

VARIABLES
  registered,  \* external: the accounts of Cernere
  admission,   \* glab_admission: status and revision
  cursor,      \* glab_admission_sync.cursor
  sync,        \* of a sync: the page it got, or that it waits
  opened       \* the row an administrator has before him

vars == <<registered, admission, cursor, sync, opened>>

Idle == [at |-> "idle", after |-> None, page |-> {}, next |-> None]
Pending == [status |-> "pending", revision |-> 0]

Init ==
  /\ registered \in SUBSET Users
  /\ admission = [u \in Users |-> None]
  /\ cursor = None
  /\ sync = [s \in Syncs |-> Idle]
  /\ opened = [a \in Admins |-> None]

Register(u) ==
  /\ u \notin registered
  /\ registered' = registered \cup {u}
  /\ UNCHANGED <<admission, cursor, sync, opened>>

(* mutant: a row that is there starts over                                  *)
Restart(rows, us) == [u \in Users |-> IF u \in us THEN Pending ELSE rows[u]]

(* recordRegistration: ON CONFLICT DO NOTHING                               *)
Recorded(rows, us) ==
  [u \in Users |-> IF u \in us /\ rows[u] = None THEN Pending ELSE rows[u]]

(* memberAccessPolicy and GET /self                                         *)
Visit(u) ==
  /\ u \in registered
  /\ admission' = Recorded(admission, {u})
  /\ UNCHANGED <<registered, cursor, sync, opened>>

StartSync(s) ==
  /\ sync[s].at = "idle"
  /\ sync' = [sync EXCEPT ![s] = [Idle EXCEPT !.at = "called", !.after = cursor]]
  /\ UNCHANGED <<registered, admission, cursor, opened>>

Behind(s) == {u \in registered : sync[s].after = None \/ u > sync[s].after}

(* External: the accounts after the cursor; next is null at the end, which  *)
(* a last page that is full may not show yet.                               *)
Listed(s) ==
  LET page == {u \in Behind(s) : Cardinality({v \in Behind(s) : v < u}) < PageSize}
      last == CHOOSE u \in page : \A v \in page : v <= u
  IN  /\ sync[s].at = "called"
      /\ \E next \in {None} \cup page :
           /\ next # None => next = last /\ Cardinality(page) = PageSize
           /\ Behind(s) # page => next # None
           /\ sync' = [sync EXCEPT ![s].at = "listed", ![s].page = page, ![s].next = next]
      /\ UNCHANGED <<registered, admission, cursor, opened>>

StayBehind(s) == IF sync[s].next = None THEN cursor ELSE sync[s].next   \* mutant

(* At the end the cursor starts over.                                       *)
Advance(s) == sync[s].next

Stored(s) ==
  /\ sync[s].at = "listed"
  /\ admission' = Recorded(admission, sync[s].page)
  /\ cursor' = Advance(s)
  /\ sync' = [sync EXCEPT ![s] = Idle]
  /\ UNCHANGED <<registered, opened>>

SyncFails(s) ==
  /\ sync[s].at = "called"
  /\ sync' = [sync EXCEPT ![s] = Idle]
  /\ UNCHANGED <<registered, admission, cursor, opened>>

Open(a, u) ==
  /\ admission[u] # None
  /\ opened' = [opened EXCEPT ![a] = [user |-> u, revision |-> admission[u].revision]]
  /\ UNCHANGED <<registered, admission, cursor, sync>>

(* decideAdmission, if the row is the one that was opened.                  *)
Decide(a, status) ==
  /\ opened[a] # None /\ opened[a].revision < MaxRevision
  /\ LET u == opened[a].user IN
     admission' = IF admission[u].revision = opened[a].revision
                  THEN [admission EXCEPT ![u] = [status |-> status, revision |-> @.revision + 1]]
                  ELSE admission
  /\ opened' = [opened EXCEPT ![a] = None]
  /\ UNCHANGED <<registered, cursor, sync>>

Next ==
  \/ \E u \in Users : Register(u) \/ Visit(u) \/ \E a \in Admins : Open(a, u)
  \/ \E s \in Syncs : StartSync(s) \/ Listed(s) \/ Stored(s) \/ SyncFails(s)
  \/ \E a \in Admins, status \in {"approved", "rejected"} : Decide(a, status)

(* The sync is asked for again and again, and Cernere answers now and then. *)
Fairness ==
  \A s \in Syncs : WF_vars(StartSync(s)) /\ SF_vars(Listed(s)) /\ WF_vars(Stored(s))

Spec == Init /\ [][Next]_vars /\ Fairness

TypeOK ==
  /\ registered \subseteq Users
  /\ \A u \in Users : admission[u] # None =>
       admission[u] \in [status : {"pending", "approved", "rejected"}, revision : 0..MaxRevision]
  /\ cursor \in Users \cup {None}
  /\ sync \in [Syncs -> [at : {"idle", "called", "listed"}, after : Users \cup {None},
                         page : SUBSET Users, next : Users \cup {None}]]
  /\ \A a \in Admins : opened[a] # None =>
       opened[a] \in [user : Users, revision : 0..MaxRevision]

(* Every account comes before the administrators although it never visits,  *)
(* whichever syncs overlap, fail, or began with a cursor now behind         *)
(* (registration-sync.ts:11-13).                                            *)
EveryAccountIsListed == \A u \in Users : u \in registered ~> admission[u] # None

(* A decision stands until another one by somebody who has seen it: no      *)
(* replay of a registration and no late click undoes it.                    *)
DecisionsStand ==
  [][\A u \in Users : admission[u] # None =>
       \/ admission'[u] = admission[u]
       \/ /\ admission'[u].revision = admission[u].revision + 1
          /\ \E a \in Admins : opened[a] = [user |-> u, revision |-> admission[u].revision]]_vars

(* Both: admissions come in, and only administrators move them.             *)
AdmissionsConverge == EveryAccountIsListed /\ DecisionsStand
=============================================================================
