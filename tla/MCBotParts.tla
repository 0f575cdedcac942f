----------------------------- MODULE MCBotParts -----------------------------
(* Parts around the Discord bot, each explored on its own: `part' says     *)
(* which.                                                                  *)
(* jobs: one posting, two users, three operations and as many audit rows:  *)
(*   an assignment, another, and the rollback of either.                   *)
(* notify: an admission, an event and two reviews with a batch of one: the *)
(*   second review waits behind the first, an event failure ends the tick  *)
(*   before the reviews; the bot may stop once anywhere.                   *)
(* roster: two rows, one user, two logins.                                 *)
(* daily: three projects over three days, asked for by Hub and bot.        *)
(* done: the quests of the three days, while no project is active.         *)
(* releases: one project, two repositories of a release each, two syncs.   *)
(* schema: Hub and bot open a database of an earlier version at once; two  *)
(*   columns are new, two arrivals are registered, one crash.              *)
(* weeks: two events, weekly or not, one of them open to all, over two     *)
(*   weeks between which the clock is changed.                             *)
EXTENDS JobOwner, Integers, FiniteSets, TLC

CONSTANTS
  Items, Kind, Batch, MaxCrashes, Ticks,         \* notify
  Members, Linked, Handles, Deleted,             \* roster: Linked, its users
  Projects, Processes, Days,                     \* daily, done; schema too
  Games, Repos, Syncs, Published, HomeOf, Waiting, Unavailable,  \* releases
  Columns, MaxDeaths, MaxRows,                   \* schema
  Events, Starts, Lengths, WEEK, Change, Shifts, Window, MaxNow, \* weeks
  a1, e1, r1, r2, e2, ra, rb, x1, x2             \* of the functions

VARIABLES part,
  ledger, queue, delivered, run, up, crashes,
  member, tick, stopped,
  today, active, content, asking, answers, always, card, press, completed,
  project, stored, pending, sync, cache, published, typed, imported, announced,
  attendance, present, lock, process, written, deaths,
  now, shift, event, marked, sent, checked

MCKind == (a1 :> "admission") @@ (e1 :> "event") @@ (r1 :> "review") @@ (r2 :> "review")
MCShifts == {-1, 0, 1}
MCHomeOf == (x1 :> ra) @@ (x2 :> rb)

Notify == INSTANCE Notify
Roster == INSTANCE Roster WITH Users <- Linked
Daily == INSTANCE Daily
Releases == INSTANCE Releases WITH Projects <- Games, Releases <- Published
Schema == INSTANCE Schema WITH
  MaxCrashes <- MaxDeaths, ledger <- attendance, crashes <- deaths

Weeks == INSTANCE Recurrence

ASSUME NoticesAssumption == Notify!NotifyAssumption
ASSUME MembersAssumption == Roster!RosterAssumption
ASSUME SpotlightsAssumption == Daily!DailyAssumption
ASSUME GamesAssumption == Releases!ReleasesAssumption
ASSUME StartsAssumption == Schema!SchemaAssumption
ASSUME WeeksAssumption == Weeks!RecurrenceAssumption

jobVars == vars
notifyVars == <<ledger, queue, delivered, run, up, crashes>>
rosterVars == <<member, tick, stopped>>
dailyVars == <<today, active, content, asking, answers, always, card, press, completed>>
releaseVars == <<project, stored, pending, sync, cache, published, typed, imported, announced>>
schemaVars == <<attendance, present, lock, process, written, deaths>>
weekVars == <<now, shift, event, marked, sent, checked>>
partVars == <<part, jobVars, notifyVars, rosterVars, dailyVars, releaseVars, schemaVars,
              weekVars>>

Closed == [start |-> 0, length |-> 1, weekly |-> FALSE, open |-> FALSE, notified |-> FALSE]

(* Only the part explored varies where it begins.                          *)
PartsInit ==
  /\ part \in {"jobs", "notify", "roster", "daily", "done", "releases", "schema", "weeks"}
  /\ Notify!Init /\ Roster!Init
  /\ Init /\ (part # "jobs" => \A j \in Jobs : job[j] = None)
  /\ Daily!Init /\ (part # "daily" => active = {})
  /\ Releases!Init /\ (part # "releases" => published = {})
  /\ Schema!Init /\ (part # "schema" => attendance.generation = "none" /\ present = {})
  /\ Weeks!Init /\ ~event[e2].open
  /\ part # "weeks" => shift = 0 /\ \A e \in Events : event[e] = Closed

PartsNext ==
  /\ UNCHANGED part
  /\ \/ part = "jobs" /\ Next
     \/ part # "jobs" /\ UNCHANGED jobVars
  /\ \/ part = "notify" /\ Notify!Next
     \/ part # "notify" /\ UNCHANGED notifyVars
  /\ \/ part = "roster" /\ Roster!Next
     \/ part # "roster" /\ UNCHANGED rosterVars
  /\ \/ part = "daily" /\ Daily!Next /\ UNCHANGED Daily!questVars
     \/ part = "done" /\ Daily!Next /\ UNCHANGED active
     \/ part \notin {"daily", "done"} /\ UNCHANGED dailyVars
  /\ \/ part = "releases" /\ Releases!Next
     \/ part # "releases" /\ UNCHANGED releaseVars
  /\ \/ part = "schema" /\ Schema!Next
     \/ part # "schema" /\ UNCHANGED schemaVars
  /\ \/ part = "weeks" /\ Weeks!Next
     \/ part # "weeks" /\ UNCHANGED weekVars

PartsSpec == PartsInit /\ [][PartsNext]_partVars

(* The properties of the parts, each stated and explained in its module.   *)
LedgerIsKept == Notify!LedgerIsKept
RosterIsCurrent == Roster!RosterIsCurrent
DailyIsKept == Daily!DailyIsKept
SyncsSpareTextAndChannel == Releases!SyncsSpareTextAndChannel
StartsAreSafe == Schema!StartsAreSafe
OccurrencesAreRight == part = "weeks" => Weeks!OccurrencesAreRight

(* What a doc and a comment claim of them, and the code does otherwise.    *)
ReminderRecordedIsDelivered == Notify!ReminderRecordedIsDelivered
EachRepoIsSilent == Releases!EachRepoIsSilent
=============================================================================
