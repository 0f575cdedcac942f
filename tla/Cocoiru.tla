------------------------------ MODULE Cocoiru -------------------------------
(***************************************************************************)
(* plugins/cocoiru: the leases, calls and broadcasts of the desktop        *)
(* residents.  Every route is one synchronous step on the SQLite tables,   *)
(* all of its tests included; what is hard is the long run: expiry that    *)
(* only a PUT /availability sweeps, acknowledgments that delete the rows   *)
(* the rate limits look at, and an inbox of limited length.                *)
(***************************************************************************)
EXTENDS Integers, FiniteSets

CONSTANTS
  Users,
  Ids,               \* randomUUID values: integers, in the order of the text
  Lease,             \* LEASE_SECONDS
  CallTtl,           \* CALL_TTL_MS
  RepeatWindow,      \* CALL_REPEAT_WINDOW_MS
  TasuketeWindow,    \* TASUKETE_WINDOW_MS
  InboxLimit         \* INBOX_LIMIT

CocoiruAssumption ==
  /\ IsFiniteSet(Users) /\ Ids \subseteq Int
  /\ {Lease, CallTtl, RepeatWindow, TasuketeWindow, InboxLimit} \subseteq Nat
  /\ RepeatWindow < CallTtl /\ TasuketeWindow < CallTtl

VARIABLES
  lease,   \* glab_cocoiru_availability: what remains of a lease, 0 for none
  calls    \* rows of glab_cocoiru_call, with their age up to CallTtl

vars == <<lease, calls>>

Init == lease = [u \in Users |-> 0] /\ calls = {}

Alive(c) == c.age < CallTtl
Active == {u \in Users : lease[u] > 0}
Pending(u) == {c \in calls : c.to = u /\ Alive(c)}
FreeIds == Ids \ {c.id : c \in calls}

Before(c, d) == c.age > d.age \/ (c.age = d.age /\ c.id < d.id)

(* listInbox: the oldest InboxLimit calls that have not expired.           *)
Inbox(u) == {c \in Pending(u) : Cardinality({d \in Pending(u) : Before(d, c)}) < InboxLimit}

Row(i, from, to, kind) == [id |-> i, from |-> from, to |-> to, kind |-> kind, age |-> 0]

-----------------------------------------------------------------------------
(* PUT /availability: purgeExpired, then the lease.  A row that says not   *)
(* available is like none.                                                 *)
PutAvailability(u, available) ==
  /\ calls' = {c \in calls : Alive(c)}
  /\ lease' = [lease EXCEPT ![u] = IF available THEN Lease ELSE 0]

RecentCall(from, to) ==
  \E c \in calls : c.kind = "call" /\ c.from = from /\ c.to = to /\ c.age < RepeatWindow

PostCallUncounted(from, to) ==   \* mutant: the inbox is not counted
  /\ to \in Active /\ ~RecentCall(from, to)
  /\ \E i \in FreeIds : calls' = calls \cup {Row(i, from, to, "call")}
  /\ UNCHANGED lease

PostCall(from, to) ==
  /\ to \in Active
  /\ Cardinality(Pending(to)) < InboxLimit
  /\ ~RecentCall(from, to)
  /\ \E i \in FreeIds : calls' = calls \cup {Row(i, from, to, "call")}
  /\ UNCHANGED lease

(* DELETE /inbox/:id                                                       *)
Acknowledge(u) ==
  /\ \E c \in calls : c.to = u /\ calls' = calls \ {c}
  /\ UNCHANGED lease

RecentTasuketeTo(from) ==   \* mutant: looks at the broadcasts received
  \E c \in calls : c.kind = "tasukete" /\ c.to = from /\ c.age < TasuketeWindow

RecentTasukete(from) ==
  \E c \in calls : c.kind = "tasukete" /\ c.from = from /\ c.age < TasuketeWindow

(* POST /tasukete: one row for every active member but the sender.         *)
PostTasukete(from) ==
  /\ ~RecentTasukete(from)
  /\ LET To == Active \ {from} IN
       /\ To # {}
       /\ \E id \in [To -> FreeIds] :
            /\ \A u, v \in To : u # v => id[u] # id[v]
            /\ calls' = calls \cup {Row(id[u], from, u, "tasukete") : u \in To}
  /\ UNCHANGED lease

Tick ==
  /\ lease' = [u \in Users |-> IF lease[u] = 0 THEN 0 ELSE lease[u] - 1]
  /\ calls' = {[c EXCEPT !.age = IF Alive(c) THEN @ + 1 ELSE @] : c \in calls}

Next ==
  \/ \E u \in Users : Acknowledge(u) \/ PostTasukete(u)
  \/ \E u \in Users, available \in BOOLEAN : PutAvailability(u, available)
  \/ \E u, v \in Users : PostCall(u, v)
  \/ Tick

Spec == Init /\ [][Next]_vars

-----------------------------------------------------------------------------
TypeOK ==
  /\ lease \in [Users -> 0..Lease]
  /\ calls \subseteq [id : Ids, from : Users, to : Users, kind : {"call", "tasukete"},
                      age : 0..CallTtl]

(* A call that was answered 201 is shown to its recipient until it is      *)
(* acknowledged or expires, full inbox and unlimited broadcasts            *)
(* notwithstanding; only a broadcast of the same millisecond can take its  *)
(* place.                                                                  *)
AcceptedCallIsShown ==
  \A c \in calls :
    c.kind = "call" /\ Alive(c) =>
      \/ c \in Inbox(c.to)
      \/ \E d \in Pending(c.to) : d.kind = "tasukete" /\ d.age = c.age /\ d.id < c.id

(* The windows of the rate limits hold between the calls nobody has        *)
(* acknowledged, though the sweep deletes the rows they are read from.     *)
PendingCallsAreSpaced ==
  \A c, d \in calls :
    c # d /\ c.from = d.from /\ c.kind = d.kind /\ Alive(c) /\ c.age >= d.age =>
      CASE c.kind = "call" -> c.to = d.to => c.age >= d.age + RepeatWindow
        [] c.kind = "tasukete" -> c.age = d.age \/ c.age >= d.age + TasuketeWindow

(* Both: a call accepted within the limits is shown, and the limits hold.  *)
CallsAreShownAndSpaced == AcceptedCallIsShown /\ PendingCallsAreSpaced
=============================================================================
