----------------------------- MODULE MCHubParts -----------------------------
(* Parts that share no state, each explored on its own: `part' says which. *)
(* screen: two attempts on one event in two pages of one user, so that one *)
(*   resumes what the other began.                                         *)
(* desk: three requests on one meeting and two events, say two handoffs of *)
(*   the meeting and its deletion, and the booking page beside them.       *)
(* attendance: two users, one the organizer; an attestation over both      *)
(*   routes, or two GPS check-ins with one photo (these and attestations   *)
(*   meet in the ledger alone, whose first row stays).                     *)
(* cocoiru: two users, three calls, an inbox of two.                       *)
(* presence: two readers and a writer.                                     *)
(* token: two callers and tokens that live shorter and longer than the     *)
(*   margin.                                                               *)
(* keys: two verifications, two keys, and a cache that outlives two        *)
(*   refetch intervals.                                                    *)
(* header: both settings, two values each, written elsewhere at any time.  *)
(* voice: three presses of "start", a queue of two, four audio frames.     *)
EXTENDS OdeumScreen, Integers, FiniteSets, TLC

CONSTANTS
  a1, a2, p1, p2, v1,                              \* screen: the functions of a page
  Requests, Rows, Reservations, Meetings,          \* desk
  Visitors, Organizer, Attestations, Waits, GpsRequests, Photos,
  Freshness, AutoFreshness, Retention, MaxWait,    \* attendance
  Residents, CallIds, Lease, CallTtl, RepeatWindow, TasuketeWindow, InboxLimit,
  Readers, Writers,                                \* presence
  TokenCallers, Lives, Margin, Backoff, IssueTimeout, MaxNow,
  KeyCallers, Keys, Ttl, MinInterval, FetchTimeout,
  Settings, Values, Unknown,                       \* header
  MaxCalls, MaxQueue, MaxSeq                       \* voice

VARIABLES part,
  request, row, link, reservation, meeting, doomed, forced, unconfirmed, released,
  attest, nonce, accepted, waiting, arrivals, gps, aedilis, files, photoRow,
  event, approval, gateway,
  lease, calls,
  declaration, setupSettled, asking, failed,
  now, cached, failure, issue, caller,
  keys, age, fetch, verifying, published, since, refetched,
  server, saved, shown, awaiting, answer, saving, allowed, disposed, recent, had,
  live, stage, mic, known, current, deletion, queue, timer, upload, seq, heard

MCPageOf == (a1 :> p1) @@ (a2 :> p2)
MCUserOf == [g \in Pages |-> v1]

Desk == INSTANCE EventDesk
Attendance == INSTANCE Attendance WITH Users <- Visitors, ledger <- arrivals
Cocoiru == INSTANCE Cocoiru WITH Users <- Residents, Ids <- CallIds
Presence == INSTANCE Presence WITH request <- asking
Token == INSTANCE ServiceToken WITH Callers <- TokenCallers, Timeout <- IssueTimeout
KeyCache == INSTANCE KeyCache WITH
  Callers <- KeyCallers, Timeout <- FetchTimeout, caller <- verifying, forced <- refetched
Header == INSTANCE HeaderStatus
Voice == INSTANCE TrBrowser

ASSUME DeskAssumption == Desk!EventAssumption
ASSUME ArrivalsAssumption == Attendance!AttendanceAssumption
ASSUME CallsAssumption == Cocoiru!CocoiruAssumption
ASSUME IssueAssumption == Token!TokenAssumption
ASSUME KeysAssumption == KeyCache!KeyCacheAssumption
ASSUME SettingsAssumption == Header!HeaderStatusAssumption
ASSUME VoiceAssumption == Voice!TrBrowserAssumption

screenVars == vars
deskVars == <<request, row, link, reservation, meeting, doomed, forced, unconfirmed, released>>
attendanceVars == <<attest, nonce, accepted, waiting, arrivals, gps, aedilis, files,
                    photoRow, event, approval, gateway>>
cocoiruVars == <<lease, calls>>
presenceVars == <<declaration, setupSettled, asking, failed>>
tokenVars == <<now, cached, failure, issue, caller>>
keyVars == <<keys, age, fetch, verifying, published, since, refetched>>
headerVars == <<server, saved, shown, awaiting, answer, saving, allowed, disposed, recent, had>>
voiceVars == <<live, stage, mic, known, current, deletion, queue, timer, upload, seq, heard>>
partVars == <<part, screenVars, deskVars, attendanceVars, cocoiruVars, presenceVars,
              tokenVars, keyVars, headerVars, voiceVars>>

(* Only the part explored varies where it begins.                          *)
PartsInit ==
  /\ part \in {"screen", "desk", "attendance", "cocoiru", "presence", "token",
               "keys", "header", "voice"}
  /\ Init /\ Desk!Init /\ Attendance!Init /\ Cocoiru!Init /\ Presence!Init /\ Token!Init
  /\ KeyCache!Init /\ Header!Init /\ Voice!Init
  /\ part # "attendance" => gateway
  /\ part # "keys" => published = {}
  /\ part # "header" => server = [s \in Settings |-> CHOOSE v \in Values : TRUE] /\ saved = server

(* Ids are interchangeable until they are used: they are used in order.    *)
IdsInOrder ==
  /\ \A e, f \in Rows : e < f /\ row[f] # Desk!NoRow => row[e] # Desk!NoRow
  /\ \A r, x \in Reservations : r < x /\ reservation[x] # "none" => reservation[r] # "none"
  /\ \A q, o \in Requests : q < o /\ request[o].at # "none" => request[q].at # "none"

SessionsInOrder ==
  \A s, t \in Sessions : s < t /\ status[t] # "unused" => status[s] # "unused"

AttestedOrRelayed ==
  (\A a \in Attestations : attest[a] = None) \/ \A g \in GpsRequests : gps[g] = Attendance!Idle

PartsNext ==
  /\ UNCHANGED part
  /\ \/ part = "screen" /\ Next /\ SessionsInOrder'
     \/ part # "screen" /\ UNCHANGED screenVars
  /\ \/ part = "desk" /\ Desk!Next /\ IdsInOrder'
     \/ part # "desk" /\ UNCHANGED deskVars
  /\ \/ part = "attendance" /\ Attendance!Next /\ AttestedOrRelayed'
     \/ part # "attendance" /\ UNCHANGED attendanceVars
  /\ \/ part = "cocoiru" /\ Cocoiru!Next
     \/ part # "cocoiru" /\ UNCHANGED cocoiruVars
  /\ \/ part = "presence" /\ Presence!Next
     \/ part # "presence" /\ UNCHANGED presenceVars
  /\ \/ part = "token" /\ Token!Next
     \/ part # "token" /\ UNCHANGED tokenVars
  /\ \/ part = "keys" /\ KeyCache!Next
     \/ part # "keys" /\ UNCHANGED keyVars
  /\ \/ part = "header" /\ Header!Next
     \/ part # "header" /\ UNCHANGED headerVars
  /\ \/ part = "voice" /\ Voice!Next
     \/ part # "voice" /\ UNCHANGED voiceVars

PartsSpec == PartsInit /\ [][PartsNext]_partVars

(* What the Hub remembers of Cernere: a token is handed out, and the key   *)
(* of one accepted, only while it is fresh, and the failure a reader is     *)
(* answered with is its own.                                               *)
CernereIsRemembered ==
  Token!HandedTokenIsLive /\ KeyCache!AcceptedKeyIsRecent /\ Presence!FailuresAreOwn

(* The properties of the parts, each stated and explained in its module.   *)
EventsMatchAedilis == Desk!EventsMatchAedilis
ArrivalsAreBacked == Attendance!ArrivalsAreBacked
OnlyApprovedArePresent == Attendance!OnlyApprovedArePresent
CallsAreShownAndSpaced == Cocoiru!CallsAreShownAndSpaced
HeaderIsCurrent == Header!HeaderIsCurrent
CallsAreTheirOwn == Voice!CallsAreTheirOwn
=============================================================================
