----------------------------- MODULE Recurrence -----------------------------
(* Weekly events and the clock of the place (plugins/events/recurrence.ts,  *)
(* store.ts).  An event keeps one row; its occurrences are computed where   *)
(* they are wanted - the list, the event that is on now, the reminders -    *)
(* from the local time of its first one, which is seven days later even     *)
(* when the clock was changed between.                                      *)
EXTENDS Integers, FiniteSets

CONSTANTS
  Events,
  Starts, Lengths,  \* when events may first start, and how long they last
  WEEK,             \* a week of unchanged clock
  Change,           \* the instant at which the clock is changed
  Shifts,           \* by how much, forward or back (0: it is not)
  Window,           \* cfg.reminder.eventWindowMs
  MaxNow            \* bound: time

RecurrenceAssumption ==
  /\ MaxNow \in Nat /\ WEEK \in Nat \ {0} /\ Starts \subseteq 0..MaxNow /\ Lengths \subseteq Nat \ {0}
  /\ Window \in 1..(WEEK - 1) /\ Shifts \subseteq {-1, 0, 1} /\ Change \in 0..MaxNow

VARIABLES
  now, shift,
  event,    \* each event's row: starts_at, length, weekly, open to all, notified_at
  marked,   \* glab_event_occurrence_notified
  sent,     \* reminders posted: for which start, and when
  checked   \* when the bot last looked

vars == <<now, shift, event, marked, sent, checked>>

Horizon == 0..(MaxNow + Window)
Wall(t) == t + (IF t < Change THEN 0 ELSE shift)

(* The instant at which the clock shows w: the earlier one when the clock   *)
(* shows it twice; when it skips w, as if it had not been changed yet.      *)
Instant(w) == IF w >= Change /\ w - shift >= Change THEN w - shift ELSE w

LeastOf(a, b) == IF a < b THEN a ELSE b
GreatestOf(a, b) == IF a > b THEN a ELSE b

FirstWeekAhead(start, from) ==   \* mutant: the number of weeks is rounded up
  GreatestOf(0, (from - start + WEEK - 1) \div WEEK)

(* The weeks to skip, by elapsed time: at most those before `from'.         *)
FirstWeek(start, from) == GreatestOf(0, (from - start) \div WEEK)

(* The values of the cursor: from there, week by week.                      *)
Cursor(start, from) ==
  LET cursor[n \in 0..(MaxNow + 2 * WEEK)] ==
        IF n = 0 THEN Instant(Wall(start) + WEEK * FirstWeek(start, from))
        ELSE Instant(Wall(cursor[n - 1]) + WEEK)
  IN cursor

(* weeklyOccurrencesBetween: up to `to', which no more weeks than these     *)
(* can be before.                                                           *)
WeeklyBetween(start, from, to) ==
  LET cursor == Cursor(start, from)
      last == (to - GreatestOf(from, start)) \div (WEEK - 1) + 2
  IN IF to <= from \/ to <= start THEN {}
     ELSE {cursor[n] : n \in {i \in 0..last : from <= cursor[i] /\ cursor[i] < to}}

(* expandOccurrences: an event that does not recur is its own occurrence.   *)
Expand(rows, from, to) ==
  UNION {{[of |-> e, start |-> t, end |-> t + event[e].length] :
            t \in IF event[e].weekly THEN WeeklyBetween(event[e].start, from, to)
                  ELSE {event[e].start}} : e \in rows}

Date(t) == Wall(t) \div WEEK   \* occurrence_date tells the weeks apart

(* EventStore.list.                                                         *)
List(from, to) ==
  Expand({e \in Events : /\ event[e].start < to
                         /\ event[e].weekly \/ event[e].start >= from}, from, to)

(* EventStore.findActive: the one that started last.                        *)
Active ==
  LET rows == {e \in Events : /\ event[e].start <= now
                              /\ event[e].weekly \/ event[e].start + event[e].length > now}
      on == {o \in Expand(rows, now - WEEK, now + 1) : o.start <= now /\ now < o.end}
  IN {o \in on : \A other \in on : other.start <= o.start}

(* EventStore.dueForReminder: events open to all, in the window, whose      *)
(* occurrence has not been marked.                                          *)
Due ==
  LET rows == {e \in Events :
                 /\ event[e].open /\ event[e].start <= now + Window
                 /\ event[e].weekly \/ (event[e].start >= now /\ ~event[e].notified)}
  IN {o \in Expand(rows, now, now + Window) :
        event[o.of].weekly => <<o.of, Date(o.start)>> \notin marked}

-----------------------------------------------------------------------------
(* No event starts at an hour the clock skips, or the second time it shows  *)
(* one.                                                                     *)
Shown(start) ==
  /\ Instant(Wall(start)) = start
  /\ \A k \in 0..(MaxNow \div WEEK + 2) :
       Wall(Instant(Wall(start) + k * WEEK)) = Wall(start) + k * WEEK

Init ==
  /\ now = 0 /\ shift \in Shifts
  /\ event \in [Events -> [start: Starts, length: Lengths, weekly: BOOLEAN, open: BOOLEAN,
                           notified: {FALSE}]]
  /\ \A e \in Events : Shown(event[e].start)
  /\ marked = {} /\ sent = {} /\ checked = -1

Pass ==
  /\ now < MaxNow /\ now' = now + 1
  /\ UNCHANGED <<shift, event, marked, sent, checked>>

MarkByEvent(due) ==   \* mutant: one mark for all weeks of an event
  marked' = marked \cup {<<o.of, d>> : o \in due, d \in {Date(t) : t \in Horizon}}

(* markOccurrenceNotified.                                                  *)
MarkOccurrences(due) ==
  marked' = marked \cup {<<o.of, Date(o.start)>> : o \in {p \in due : event[p.of].weekly}}

(* The bot looks what is due, posts it and records it (the order of these,  *)
(* and what may fail, is module Notify's subject).                          *)
Remind ==
  /\ sent' = sent \cup {[of |-> o.of, start |-> o.start, at |-> now] : o \in Due}
  /\ MarkOccurrences(Due)
  /\ event' = [e \in Events |->
       [event[e] EXCEPT !.notified = @ \/ (~event[e].weekly /\ \E o \in Due : o.of = e)]]
  /\ checked' = now
  /\ UNCHANGED <<now, shift>>

Next == Pass \/ Remind

Spec == Init /\ [][Next]_vars

-----------------------------------------------------------------------------
TypeOK ==
  /\ now \in 0..MaxNow /\ shift \in Shifts /\ checked \in -1..now
  /\ DOMAIN event = Events /\ \A r \in sent : r.of \in Events /\ r.at \in 0..now

(* The instants an event starts at: the first, and every later one at       *)
(* which the clock shows the same weekday and time for the first time.      *)
StartsOf(e) ==
  {t \in Horizon :
     \/ t = event[e].start
     \/ /\ event[e].weekly /\ t > event[e].start
        /\ (Wall(t) - Wall(event[e].start)) % WEEK = 0
        /\ \A s \in Horizon : Wall(s) = Wall(t) => t <= s}

(* Whatever is asked for from now on, whether or not the clock was changed: *)
(* the list shows the occurrences that start then, and no other; the event on  *)
(* now is one that is going on, and none started later; every occurrence    *)
(* of an event open to all is reminded of once, before it starts and not    *)
(* earlier than the window, if the bot looked in that time.                 *)
OccurrencesAreRight ==
  /\ \A to \in {now + 1, now + Window, MaxNow} :
       {<<o.of, o.start>> : o \in List(now, to)}
         = {x \in Events \X (now..(to - 1)) : x[2] \in StartsOf(x[1])}
  /\ LET on == {x \in Events \X (0..now) :
                  x[2] \in StartsOf(x[1]) /\ now < x[2] + event[x[1]].length}
     IN {<<o.of, o.start>> : o \in Active} = {x \in on : \A y \in on : y[2] <= x[2]}
  /\ \A r \in sent :
       /\ event[r.of].open /\ r.start \in StartsOf(r.of)
       /\ r.start - Window <= r.at /\ r.at <= r.start
       /\ \A s \in sent : s.of = r.of /\ s.start = r.start => s = r
  /\ checked = now =>
       \A e \in Events : \A t \in StartsOf(e) :
         event[e].open /\ now <= t /\ t < now + Window => \E r \in sent : r.of = e /\ r.start = t
=============================================================================
