------------------------------ MODULE EventDesk ------------------------------
(***************************************************************************)
(* Events and their facility reservations (plugins/events/index.ts,        *)
(* plugins/events/store.ts, plugins/facility/meeting-event.ts).  The event *)
(* rows are GLAB's own, in PostgreSQL; reservations and meeting surveys    *)
(* belong to Aedilis.  A request does one external step after another:     *)
(* each may take effect and lose its answer, and before each the actor is  *)
(* checked again (assertCurrent), which ends the request.  The booking     *)
(* page writes to the same reservations and meetings (plugins/facility).   *)
(*                                                                         *)
(* External, as the code relies on it: Aedilis answers 404 for a           *)
(* reservation already cancelled, accepts a repeated cancellation of a     *)
(* handed-off meeting, hands a meeting over with its one reservation and   *)
(* from then on lets the booking page neither change nor cancel it; a      *)
(* change or cancellation of a meeting cancels its reservation.            *)
(***************************************************************************)
EXTENDS Naturals, FiniteSets

CONSTANTS
  Requests,      \* HTTP requests (bounds their number)
  Rows,          \* ids of glab_event
  Reservations,  \* ids of Aedilis reservations made for events and meetings
  Meetings,      \* meeting surveys of Aedilis
  None

EventAssumption == None \notin Rows \cup Reservations \cup Meetings

VARIABLES
  request,      \* the await each request is in, and what it read before
  row,          \* glab_event
  link,         \* glab_meeting_event: the event of a meeting, kept for ever
  reservation,  \* Aedilis
  meeting,      \* Aedilis: a meeting survey and its reservation
  doomed,       \* rows whose deletion somebody with the right to it asked for
  forced,       \* rows deleted with ?force=1 although the cancellation failed
  unconfirmed,  \* reservations of requests that ended without an event to show
  released      \* history: reservations cancelled at the booking page

vars == <<request, row, link, reservation, meeting, doomed, forced, unconfirmed, released>>

NoRow == [state |-> "absent", reservation |-> None, meeting |-> None]
NoRequest == [at |-> "none", row |-> None, reservation |-> None, meeting |-> None]

Live == {e \in Rows : row[e].state = "live"}

TypeOK ==
  /\ request \in [Requests -> [at : {"none", "reserve", "insert", "handover", "import",
                                     "cancel", "remove", "done", "failed"},
                               row : Rows \cup {None},
                               reservation : Reservations \cup {None},
                               meeting : Meetings \cup {None}]]
  /\ row \in [Rows -> [state : {"absent", "live", "deleted"},
                       reservation : Reservations \cup {None},
                       meeting : Meetings \cup {None}]]
  /\ link \in [Meetings -> Rows \cup {None}]
  /\ reservation \in [Reservations -> {"none", "active", "cancelled"}]
  /\ meeting \in [Meetings -> [state : {"open", "finalized", "handed", "cancelled"},
                               reservation : Reservations \cup {None}]]
  /\ doomed \subseteq Rows
  /\ forced \subseteq Rows
  /\ unconfirmed \subseteq Reservations
  /\ released \subseteq Reservations

Init ==
  /\ request = [q \in Requests |-> NoRequest]
  /\ row = [e \in Rows |-> NoRow]
  /\ link = [m \in Meetings |-> None]
  /\ reservation = [r \in Reservations |-> "none"]
  /\ meeting = [m \in Meetings |-> [state |-> "open", reservation |-> None]]
  /\ doomed = {}
  /\ forced = {}
  /\ unconfirmed = {}
  /\ released = {}

Goto(q, at) == request' = [request EXCEPT ![q].at = at]

(* The answer of a step that took effect arrives, or the request ends.     *)
Proceed(q, at) == \E next \in {at, "failed"} : Goto(q, next)

(* A failed creation answers its caller with an error (502 if the id of    *)
(* the reservation is unknown, 503 and `unconfirmed' if the insert failed).*)
Lost(q) == IF request[q].at = "insert" THEN {request[q].reservation} \ {None} ELSE {}

-----------------------------------------------------------------------------
(* A request ends before its next step took effect: the actor is no longer *)
(* current, the service or the database is unreachable, the Hub stops.     *)
Fail(q) ==
  /\ request[q].at \notin {"none", "done", "failed"}
  /\ Goto(q, "failed")
  /\ unconfirmed' = unconfirmed \cup Lost(q)
  /\ UNCHANGED <<row, link, reservation, meeting, doomed, forced, released>>

-----------------------------------------------------------------------------
(* POST /events *)

Create(q) ==
  /\ request[q].at = "none"
  /\ \E at \in {"reserve", "insert"} : Goto(q, at)
  /\ UNCHANGED <<row, link, reservation, meeting, doomed, forced, unconfirmed, released>>

(* Aedilis reserves; if the id does not arrive the caller is told so.      *)
Reserve(q) ==
  /\ request[q].at = "reserve"
  /\ \E r \in Reservations, next \in {"insert", "failed"} :
       /\ reservation[r] = "none"
       /\ reservation' = [reservation EXCEPT ![r] = "active"]
       /\ request' = [request EXCEPT ![q].at = next, ![q].reservation = r]
       /\ unconfirmed' = IF next = "failed" THEN unconfirmed \cup {r} ELSE unconfirmed
  /\ UNCHANGED <<row, link, meeting, doomed, forced, released>>

InsertCompensated(q) ==   \* mutant: an unconfirmed creation takes its reservation back
  /\ request[q].at = "insert"
  /\ \E e \in Rows :
       /\ row[e] = NoRow
       /\ row' = [row EXCEPT ![e] = [state |-> "live", meeting |-> None,
                                     reservation |-> request[q].reservation]]
  /\ Goto(q, "failed")
  /\ reservation' = [r \in Reservations |-> IF r = request[q].reservation
                                             THEN "cancelled" ELSE reservation[r]]
  /\ UNCHANGED <<link, meeting, doomed, forced, unconfirmed, released>>

(* events.create commits.  Its reservation is left alone even if the       *)
(* acknowledgment is lost.                                                 *)
Insert(q) ==
  /\ request[q].at = "insert"
  /\ \E e \in Rows :
       /\ row[e] = NoRow
       /\ row' = [row EXCEPT ![e] = [state |-> "live", meeting |-> None,
                                     reservation |-> request[q].reservation]]
  /\ Proceed(q, "done")
  /\ UNCHANGED <<link, reservation, meeting, doomed, forced, unconfirmed, released>>

-----------------------------------------------------------------------------
(* POST /meetings/:id/glab-event *)

Finalize(q, m) ==
  /\ request[q].at = "none"
  /\ request' = [request EXCEPT ![q].at = "handover", ![q].meeting = m]
  /\ UNCHANGED <<row, link, reservation, meeting, doomed, forced, unconfirmed, released>>

(* A slot that needs a facility is reserved once; another has none.        *)
SlotReserved(r) == r \in {None} \cup {x \in Reservations : reservation[x] = "none"}
Reserved(r) == [x \in Reservations |-> IF x = r /\ reservation[x] = "none"
                                       THEN "active" ELSE reservation[x]]

(* Aedilis fixes the date, unless the booking page already did, marks the  *)
(* meeting as handed over and returns the snapshot.                        *)
Handover(q) ==
  LET m == request[q].meeting IN
  /\ request[q].at = "handover"
  /\ meeting[m].state # "cancelled"
  /\ \E r \in Reservations \cup {None} :
       /\ IF meeting[m].state = "open" THEN SlotReserved(r) ELSE r = meeting[m].reservation
       /\ reservation' = Reserved(r)
       /\ meeting' = [meeting EXCEPT ![m] = [state |-> "handed", reservation |-> r]]
       /\ \E next \in {"import", "failed"} :
            request' = [request EXCEPT ![q].at = next, ![q].reservation = r]
  /\ UNCHANGED <<row, link, doomed, forced, unconfirmed, released>>

ImportUnlinked(q) ==   \* mutant: only the live events are looked at
  LET m == request[q].meeting IN
  /\ request[q].at = "import"
  /\ IF \E e \in Live : row[e].meeting = m
     THEN UNCHANGED <<row, link>>
     ELSE \E e \in Rows :
            /\ row[e] = NoRow
            /\ row' = [row EXCEPT ![e] = [state |-> "live", meeting |-> m,
                                          reservation |-> request[q].reservation]]
            /\ link' = [link EXCEPT ![m] = e]
  /\ Proceed(q, "done")
  /\ UNCHANGED <<reservation, meeting, doomed, forced, unconfirmed, released>>

(* importMeeting, one transaction under the lock of the link row: a        *)
(* meeting already linked gets no second event, deleted or not.            *)
Import(q) ==
  LET m == request[q].meeting IN
  /\ request[q].at = "import"
  /\ IF link[m] # None
     THEN UNCHANGED <<row, link>>
     ELSE \E e \in Rows :
            /\ row[e] = NoRow
            /\ row' = [row EXCEPT ![e] = [state |-> "live", meeting |-> m,
                                          reservation |-> request[q].reservation]]
            /\ link' = [link EXCEPT ![m] = e]
  /\ Proceed(q, "done")
  /\ UNCHANGED <<reservation, meeting, doomed, forced, unconfirmed, released>>

-----------------------------------------------------------------------------
(* DELETE /events/:id *)

DeleteSkipsCancel(q, e) ==   \* mutant: meetings are left to Aedilis
  /\ request[q].at = "none"
  /\ e \in Live
  /\ request' = [request EXCEPT ![q].row = e, ![q].at =
                   IF row[e].reservation # None /\ row[e].meeting = None
                   THEN "cancel" ELSE "remove"]
  /\ doomed' = doomed \cup {e}
  /\ UNCHANGED <<row, link, reservation, meeting, forced, unconfirmed, released>>

Delete(q, e) ==
  /\ request[q].at = "none"
  /\ e \in Live
  /\ request' = [request EXCEPT ![q].row = e, ![q].at =
                   IF row[e].meeting # None \/ row[e].reservation # None
                   THEN "cancel" ELSE "remove"]
  /\ doomed' = doomed \cup {e}
  /\ UNCHANGED <<row, link, reservation, meeting, forced, unconfirmed, released>>

(* The owner of the reservation cancels it: Aedilis' meeting, or the       *)
(* reservation of the event.                                               *)
Cancel(q) ==
  LET e == request[q].row IN
  /\ request[q].at = "cancel"
  /\ reservation' = [r \in Reservations |->
                       IF r = row[e].reservation THEN "cancelled" ELSE reservation[r]]
  /\ meeting' = [m \in Meetings |-> IF m = row[e].meeting
                                    THEN [meeting[m] EXCEPT !.state = "cancelled"]
                                    ELSE meeting[m]]
  /\ Proceed(q, "remove")
  /\ UNCHANGED <<row, link, doomed, forced, unconfirmed, released>>

(* ?force=1 goes on after a failed cancellation, but never for a meeting.  *)
ForceOn(q) ==
  LET e == request[q].row IN
  /\ request[q].at = "cancel"
  /\ row[e].meeting = None
  /\ Goto(q, "remove")
  /\ forced' = forced \cup {e}
  /\ UNCHANGED <<row, link, reservation, meeting, doomed, unconfirmed, released>>

(* The second look at the event and its deletion under the row lock.       *)
Remove(q) ==
  LET e == request[q].row IN
  /\ request[q].at = "remove"
  /\ IF e \in Live
     THEN /\ row' = [row EXCEPT ![e].state = "deleted"]
          /\ Proceed(q, "done")
     ELSE /\ Goto(q, "failed")
          /\ UNCHANGED row
  /\ UNCHANGED <<link, reservation, meeting, doomed, forced, unconfirmed, released>>

-----------------------------------------------------------------------------
(* The booking page, relayed to Aedilis as it is (bookingProxy). *)

Release(rs) ==
  /\ reservation' = [r \in Reservations |-> IF r \in rs THEN "cancelled" ELSE reservation[r]]
  /\ released' = released \cup rs

(* DELETE /reservations/:id, of whichever reservation.                     *)
CancelReservation(r) ==
  /\ reservation[r] = "active"
  /\ Release({r})
  /\ UNCHANGED <<request, row, link, meeting, doomed, forced, unconfirmed>>

(* POST /meetings/:id/finalize: a date without an event of GLAB's.         *)
FinalizeMeeting(m) ==
  /\ meeting[m].state = "open"
  /\ \E r \in Reservations \cup {None} :
       /\ SlotReserved(r)
       /\ reservation' = Reserved(r)
       /\ meeting' = [meeting EXCEPT ![m] = [state |-> "finalized", reservation |-> r]]
  /\ UNCHANGED <<request, row, link, doomed, forced, unconfirmed, released>>

(* PATCH /meetings/:id begins the survey anew, DELETE ends it.             *)
ReopenMeeting(m) ==
  /\ meeting[m].state = "finalized"
  /\ Release({meeting[m].reservation} \ {None})
  /\ meeting' = [meeting EXCEPT ![m] = [state |-> "open", reservation |-> None]]
  /\ UNCHANGED <<request, row, link, doomed, forced, unconfirmed>>

CancelMeeting(m) ==
  /\ meeting[m].state \in {"open", "finalized"}
  /\ Release({meeting[m].reservation} \ {None})
  /\ meeting' = [meeting EXCEPT ![m].state = "cancelled"]
  /\ UNCHANGED <<request, row, link, doomed, forced, unconfirmed>>

Handle(q) ==
  \/ Fail(q)
  \/ Create(q)
  \/ Reserve(q)
  \/ Insert(q)
  \/ \E m \in Meetings : Finalize(q, m)
  \/ Handover(q)
  \/ Import(q)
  \/ \E e \in Rows : Delete(q, e)
  \/ Cancel(q)
  \/ ForceOn(q)
  \/ Remove(q)

Book ==
  \/ \E r \in Reservations : CancelReservation(r)
  \/ \E m \in Meetings : FinalizeMeeting(m) \/ ReopenMeeting(m) \/ CancelMeeting(m)

Next == Book \/ \E q \in Requests : Handle(q)

Spec == Init /\ [][Next]_vars

-----------------------------------------------------------------------------
(* A live event keeps its reservation: unless its owner cancels it at the  *)
(* booking page, it goes only on behalf of a deletion of that event        *)
(* somebody entitled to it asked for, however many answers of the creation *)
(* were lost (plugins/events/index.ts:251).                                *)
LiveEventKeepsReservation ==
  \A e \in Live : row[e].reservation # None =>
    \/ reservation[row[e].reservation] = "active"
    \/ e \in doomed
    \/ row[e].reservation \in released

(* Deleting an event never leaves its reservation behind, unless its owner *)
(* forced the deletion.                                                    *)
DeletedEventFreesReservation ==
  \A e \in Rows : row[e].state = "deleted" /\ row[e].reservation # None =>
    reservation[row[e].reservation] = "cancelled" \/ e \in forced

(* A reservation of POST /events that no event refers to is never silent:  *)
(* a request still works on it, or its caller got an error instead of an   *)
(* event.  (Those of a meeting are Aedilis' to clean up.)                  *)
OrphansAreUnconfirmed ==
  \A r \in Reservations :
    reservation[r] = "active" =>
      \/ \E e \in Rows : row[e].reservation = r /\ (e \in Live \/ e \in forced)
      \/ \E q \in Requests : request[q].reservation = r /\ request[q].at = "insert"
      \/ r \in unconfirmed
      \/ \E m \in Meetings : meeting[m].reservation = r

(* GLAB's rows and Aedilis' reservations agree, whichever answers are lost *)
(* and whichever requests interleave or end half way: the three above.     *)
EventsMatchReservations ==
  LiveEventKeepsReservation /\ DeletedEventFreesReservation /\ OrphansAreUnconfirmed

(* A meeting becomes an event at most once: repeated and late handoffs     *)
(* return the first one, and a deleted one is not brought back.            *)
OneEventPerMeeting ==
  \A m \in Meetings : Cardinality({e \in Rows : row[e].meeting = m}) <= 1

(* Both: what the Hub has of reservations and meetings is what Aedilis has.*)
EventsMatchAedilis == EventsMatchReservations /\ OneEventPerMeeting
=============================================================================
