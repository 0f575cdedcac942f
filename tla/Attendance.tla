----------------------------- MODULE Attendance -----------------------------
(***************************************************************************)
(* plugins/attendance: the ledger of arrivals and the four ways into it.   *)
(* An attestation signed by an Ostiarius gateway is presented to /checkin  *)
(* or /automatic/checkin and used up by its nonce; a GPS check-in is       *)
(* relayed to Aedilis, then written to the ledger and its photo stored; an *)
(* administrator writes by hand.  Being at the facility is one thing, the  *)
(* organizer's approval of attendance at an event another.  One day, one   *)
(* facility and one event are modelled, and the Hub may restart at any     *)
(* await.                                                                  *)
(***************************************************************************)
EXTENDS Integers, FiniteSets

CONSTANTS
  Users,
  Organizer,      \* the event's created_by
  Attestations,   \* signed by a gateway, each with its own nonce
  Waits,          \* /automatic/checkin requests awaiting bookingGroups
  GpsRequests,
  Photos,
  Freshness,      \* CHECKIN_FRESHNESS_MS
  AutoFreshness,  \* the 15 s of /automatic/checkin
  Retention,      \* ATTENDANCE_NONCE_RETENTION_MS
  MaxWait,        \* bound: how long bookingGroups may take
  None

AttendanceAssumption ==
  /\ {Freshness, AutoFreshness, Retention, MaxWait} \subseteq Nat
  /\ AutoFreshness <= Freshness
  /\ 2 * Freshness + MaxWait <= Retention
  /\ Organizer \in Users
  /\ None \notin Users \cup Photos \cup Int
  /\ None \notin [sub : Users, age : Int]
  /\ None \notin [attestation : Attestations, age : Int]
  /\ None \notin [source : {"attested", "session", "manual", "gps"}, event : BOOLEAN]
  /\ None \notin [user : Users, linked : BOOLEAN]

VARIABLES
  attest,     \* attestations: subject and age on the Hub's clock
  nonce,      \* glab_attendance_nonce: age of a reservation
  accepted,   \* how often an attestation was accepted
  waiting,    \* /automatic/checkin: what each request waits with, how long
  ledger,     \* glab_attendance of the day at the facility
  gps,        \* GPS check-ins under way
  aedilis,    \* photos Aedilis accepted
  files,      \* photos in CORPUS_DATA/gps-photos
  photoRow,   \* glab_gps_photo
  event,      \* the event: before, active or over
  approval,   \* glab_event_attendance_approval
  gateway     \* whether glab_gateway has the gateway's key

vars == <<attest, nonce, accepted, waiting, ledger, gps, aedilis, files, photoRow,
          event, approval, gateway>>

Idle == [at |-> "idle", user |-> None, photo |-> None, linked |-> FALSE]

Init ==
  /\ attest = [a \in Attestations |-> None]
  /\ nonce = [a \in Attestations |-> None]
  /\ accepted = [a \in Attestations |-> 0]
  /\ waiting = [w \in Waits |-> None]
  /\ ledger = [u \in Users |-> None]
  /\ gps = [g \in GpsRequests |-> Idle]
  /\ aedilis = {} /\ files = {}
  /\ photoRow = [p \in Photos |-> None]
  /\ event = "before"
  /\ approval = [u \in Users |-> "none"]
  /\ gateway \in BOOLEAN

SameGps == UNCHANGED <<gps, aedilis, files, photoRow>>
SameEvent == UNCHANGED <<event, approval>>

-----------------------------------------------------------------------------
(* A gateway signs; its clock may be off by the freshness either way.      *)
Issue(a) ==
  /\ attest[a] = None
  /\ \E u \in Users, age \in -Freshness..0 :
       attest' = [attest EXCEPT ![a] = [sub |-> u, age |-> age]]
  /\ UNCHANGED <<nonce, accepted, waiting, ledger, gateway>> /\ SameGps /\ SameEvent

Fresh(a, freshness) == attest[a] # None /\ attest[a].age \in -freshness..freshness

PurgeOnFreshness ==   \* mutant: nonces are kept for the freshness only
  [a \in Attestations |-> IF nonce[a] # None /\ nonce[a] > Freshness THEN None ELSE nonce[a]]

(* reserveAttendanceNonce first deletes what is older than the retention.  *)
Purged ==
  [a \in Attestations |-> IF nonce[a] # None /\ nonce[a] > Retention THEN None ELSE nonce[a]]

(* recordAttendance: the first row of a day and facility stays.            *)
Recorded(u, source, ev) ==
  IF ledger[u] = None THEN [ledger EXCEPT ![u] = [source |-> source, event |-> ev]] ELSE ledger

(* The end of both attestation routes, synchronous: nonce, then ledger.    *)
Use(a, source) ==
  IF Purged[a] = None
    THEN /\ nonce' = [Purged EXCEPT ![a] = 0]
         /\ accepted' = [accepted EXCEPT ![a] = @ + 1]
         /\ ledger' = Recorded(attest[a].sub, source, FALSE)
    ELSE nonce' = Purged /\ UNCHANGED <<accepted, ledger>>

(* POST /checkin by the subject of the attestation.                        *)
Checkin(a) ==
  /\ gateway /\ Fresh(a, Freshness)
  /\ Use(a, "attested")
  /\ UNCHANGED <<attest, waiting, gateway>> /\ SameGps /\ SameEvent

(* POST /automatic/checkin: verified against the configured gateways, then *)
(* waits for the memberships.                                              *)
AutomaticVerified(a, w) ==
  /\ waiting[w] = None /\ Fresh(a, AutoFreshness)
  /\ waiting' = [waiting EXCEPT ![w] = [attestation |-> a, age |-> 0]]
  /\ UNCHANGED <<attest, nonce, accepted, ledger, gateway>> /\ SameGps /\ SameEvent

(* The memberships arrive; not a member or none to be had ends it.         *)
AutomaticCheckin(w) ==
  /\ waiting[w] # None
  /\ waiting' = [waiting EXCEPT ![w] = None]
  /\ Use(waiting[w].attestation, "session") \/ UNCHANGED <<nonce, accepted, ledger>>
  /\ UNCHANGED <<attest, gateway>> /\ SameGps /\ SameEvent

(* POST /manual                                                            *)
Manual(u) ==
  /\ ledger' = Recorded(u, "manual", FALSE)
  /\ UNCHANGED <<attest, nonce, accepted, waiting, gateway>> /\ SameGps /\ SameEvent

Tick ==
  /\ \A w \in Waits : waiting[w] # None => waiting[w].age < MaxWait
  /\ attest' = [a \in Attestations |->
                  IF attest[a] # None /\ attest[a].age <= Freshness
                    THEN [attest[a] EXCEPT !.age = @ + 1] ELSE attest[a]]
  /\ nonce' = [a \in Attestations |->
                 IF nonce[a] # None /\ nonce[a] <= Retention THEN nonce[a] + 1 ELSE nonce[a]]
  /\ waiting' = [w \in Waits |->
                   IF waiting[w] = None THEN None ELSE [waiting[w] EXCEPT !.age = @ + 1]]
  /\ UNCHANGED <<accepted, ledger, gateway>> /\ SameGps /\ SameEvent

-----------------------------------------------------------------------------
GpsAt(g, where) == gps' = [gps EXCEPT ![g].at = where]
SameArrivals == UNCHANGED <<attest, nonce, accepted, waiting, gateway>>

(* POST /checkin/gps up to the relay, the Os' location statement at hand.  *)
GpsBegin(g, u, p) ==
  /\ gps[g] = Idle
  /\ gps' = [gps EXCEPT ![g] = [at |-> "relayed", user |-> u, photo |-> p, linked |-> FALSE]]
  /\ UNCHANGED <<ledger, aedilis, files, photoRow>> /\ SameArrivals /\ SameEvent

(* Aedilis takes a photo once, or refuses; its answer may be lost.         *)
AedilisAnswers(g) ==
  /\ gps[g].at = "relayed"
  /\ \/ /\ gps[g].photo \notin aedilis
        /\ aedilis' = aedilis \cup {gps[g].photo}
        /\ \E where \in {"accepted", "done"} : GpsAt(g, where)
     \/ GpsAt(g, "done") /\ UNCHANGED aedilis
  /\ UNCHANGED <<ledger, files, photoRow>> /\ SameArrivals /\ SameEvent

(* recordLedger: the visible event that is active when it was looked up,   *)
(* or none; a statement that cannot be read leaves no row.                 *)
GpsRecord(g) ==
  /\ gps[g].at = "accepted"
  /\ \/ /\ \E ev \in {FALSE, event = "active"} : ledger' = Recorded(gps[g].user, "gps", ev)
        /\ gps' = [gps EXCEPT ![g].at = "photo", ![g].linked = TRUE]
     \/ GpsAt(g, "photo") /\ UNCHANGED ledger
  /\ UNCHANGED <<aedilis, files, photoRow>> /\ SameArrivals /\ SameEvent

StorePhotoRow(g) ==
  photoRow' = [photoRow EXCEPT ![gps[g].photo] =
                 IF @ = None THEN [user |-> gps[g].user, linked |-> gps[g].linked] ELSE @]

RowBeforeFile(g) ==   \* mutant: the row is saved, then the file written
  /\ gps[g].at = "photo"
  /\ StorePhotoRow(g) /\ GpsAt(g, "written") /\ UNCHANGED files
  /\ UNCHANGED <<ledger, aedilis>> /\ SameArrivals /\ SameEvent

(* photos.write: a temporary file renamed to its digest, or a failure.     *)
WriteFile(g) ==
  /\ gps[g].at = "photo"
  /\ \/ files' = files \cup {gps[g].photo} /\ GpsAt(g, "written")
     \/ UNCHANGED files /\ GpsAt(g, "done")
  /\ UNCHANGED <<ledger, aedilis, photoRow>> /\ SameArrivals /\ SameEvent

(* saveGpsPhoto, or a failure of it; the answer is 200 all the same.       *)
SaveRow(g) ==
  /\ gps[g].at = "written"
  /\ StorePhotoRow(g) \/ UNCHANGED photoRow
  /\ GpsAt(g, "done")
  /\ UNCHANGED <<ledger, aedilis, files>> /\ SameArrivals /\ SameEvent

-----------------------------------------------------------------------------
EventGoesOn ==
  /\ event' = CASE event = "before" -> "active" [] OTHER -> "over"
  /\ UNCHANGED <<ledger, approval>> /\ SameArrivals /\ SameGps

(* POST /events/request and /events/approve, once the event has started.   *)
RequestApproval(u) ==
  /\ event # "before" /\ approval[u] = "none"
  /\ approval' = [approval EXCEPT ![u] = "requested"]
  /\ UNCHANGED <<ledger, event>> /\ SameArrivals /\ SameGps

Approve(by, u) ==
  /\ by = Organizer /\ approval[u] = "requested"
  /\ approval' = [approval EXCEPT ![u] = "approved"]
  /\ UNCHANGED <<ledger, event>> /\ SameArrivals /\ SameGps

(* The Hub restarts: requests under way are gone, and setup asks the Os    *)
(* for its key; without an answer the cached one stays.                    *)
Restart ==
  /\ waiting' = [w \in Waits |-> None]
  /\ gps' = [g \in GpsRequests |-> IF gps[g] = Idle THEN Idle ELSE [gps[g] EXCEPT !.at = "done"]]
  /\ gateway' \in {gateway, TRUE}
  /\ UNCHANGED <<attest, nonce, accepted, ledger, aedilis, files, photoRow>> /\ SameEvent

Next ==
  \/ \E a \in Attestations : Issue(a) \/ Checkin(a) \/ \E w \in Waits : AutomaticVerified(a, w)
  \/ \E w \in Waits : AutomaticCheckin(w)
  \/ \E u \in Users : Manual(u) \/ RequestApproval(u) \/ \E by \in Users : Approve(by, u)
  \/ Tick
  \/ \E g \in GpsRequests :
       \/ \E u \in Users, p \in Photos : GpsBegin(g, u, p)
       \/ AedilisAnswers(g) \/ GpsRecord(g) \/ WriteFile(g) \/ SaveRow(g)
  \/ EventGoesOn
  \/ Restart

Spec == Init /\ [][Next]_vars

-----------------------------------------------------------------------------
TypeOK ==
  /\ attest \in [Attestations -> [sub : Users, age : -Freshness..(Freshness + 1)] \cup {None}]
  /\ nonce \in [Attestations -> 0..(Retention + 1) \cup {None}]
  /\ accepted \in [Attestations -> Nat]
  /\ waiting \in [Waits -> [attestation : Attestations, age : 0..MaxWait] \cup {None}]
  /\ ledger \in [Users -> [source : {"attested", "session", "manual", "gps"}, event : BOOLEAN]
                          \cup {None}]
  /\ aedilis \subseteq Photos /\ files \subseteq Photos
  /\ photoRow \in [Photos -> [user : Users, linked : BOOLEAN] \cup {None}]
  /\ event \in {"before", "active", "over"}
  /\ approval \in [Users -> {"none", "requested", "approved"}]
  /\ gateway \in BOOLEAN

(* An attestation is accepted once at most, over both routes, through      *)
(* restarts, with the clocks apart, a request waiting while others come,   *)
(* and although old nonces are deleted.                                    *)
AcceptedOnce == \A a \in Attestations : accepted[a] <= 1

(* What is stored of a GPS check-in holds together whatever step failed or *)
(* was cut off by a restart: a photo row has its file, was accepted by     *)
(* Aedilis, and the arrival it is linked to is in the ledger; a GPS        *)
(* arrival in the ledger is one Aedilis accepted.                          *)
GpsRecordsAreBacked ==
  /\ \A p \in Photos : photoRow[p] # None =>
       /\ p \in files /\ p \in aedilis
       /\ photoRow[p].linked => ledger[photoRow[p].user] # None
  /\ \A u \in Users : ledger[u] # None /\ ledger[u].source = "gps" =>
       \E g \in GpsRequests : gps[g].user = u /\ gps[g].photo \in aedilis

(* Both: every arrival of the ledger has its proof, used once.             *)
ArrivalsAreBacked == AcceptedOnce /\ GpsRecordsAreBacked

(* attendance/index.ts: facility arrival never confirms event attendance;  *)
(* only the organizer can approve it.  eventAttendance (events) counts the *)
(* ledger rows that name the event as present.                             *)
Present(u) == ledger[u] # None /\ ledger[u].event

OnlyApprovedArePresent == \A u \in Users : Present(u) => approval[u] = "approved"
=============================================================================
