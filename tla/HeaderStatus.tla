----------------------------- MODULE HeaderStatus -----------------------------
(* public/src/header-status.ts: a user's own availability and whereabouts    *)
(* in the header, read every 30 s, on focus and on demand, and saved when    *)
(* chosen.  Both are columns of Cernere behind the Hub (Presence), which     *)
(* change elsewhere too: on another device of the user, through the bot      *)
(* (plugins/consult/index.ts:123), when the hours of an availability pass,   *)
(* or by a PUT that reaches Cernere after the page has given it up.          *)
CONSTANTS
  Settings,   \* availability and location
  Values,
  Unknown     \* nothing shown: not read yet, refused, or the read failed

HeaderStatusAssumption == Unknown \notin Values

VARIABLES
  server,     \* external: the value of a setting
  saved,      \* savedAvailability, savedLocation
  shown,      \* what the page shows
  awaiting,   \* reads on their way, "permission" before them
  answer,     \* what Cernere answered to a read, Unknown before
  saving,     \* the PUT on its way: setting, value, whether it was applied
  allowed,    \* the boxes are not hidden
  disposed,
  recent,     \* history: what a setting has been since Cernere last did a request of the page
  had         \* history: the same, since the last request the page knows was done

vars == <<server, saved, shown, awaiting, answer, saving, allowed, disposed, recent, had>>

NoSave == [of |-> Unknown, value |-> Unknown, applied |-> FALSE]

Init ==
  /\ server \in [Settings -> Values]
  /\ saved \in {[s \in Settings |-> v] : v \in Values}
  /\ shown = [s \in Settings |-> Unknown]
  /\ awaiting = {} /\ answer = [s \in Settings |-> Unknown] /\ saving = NoSave
  /\ allowed = FALSE /\ disposed = FALSE
  /\ recent = [s \in Settings |-> Values] /\ had = [s \in Settings |-> Values]

-----------------------------------------------------------------------------
Becomes(s, v) ==
  /\ server' = [server EXCEPT ![s] = v]
  /\ had' = [had EXCEPT ![s] = @ \cup {v}]

(* Somebody or something other than this page writes.                        *)
Elsewhere(s, v) ==
  /\ Becomes(s, v)
  /\ recent' = [recent EXCEPT ![s] = @ \cup {v}]
  /\ UNCHANGED <<saved, shown, awaiting, answer, saving, allowed, disposed>>

ReadAnytime ==   \* mutant: saving is not looked at
  /\ awaiting = {} /\ ~disposed
  /\ awaiting' = {"permission"} /\ allowed' = FALSE
  /\ UNCHANGED <<server, saved, shown, answer, saving, disposed, recent, had>>

(* update, by timer, focus or button, in a page that is visible.             *)
Update ==
  /\ awaiting = {} /\ saving = NoSave /\ ~disposed
  /\ awaiting' = {"permission"} /\ allowed' = FALSE
  /\ UNCHANGED <<server, saved, shown, answer, saving, disposed, recent, had>>

Permitted ==
  /\ "permission" \in awaiting
  /\ \/ awaiting' = {} /\ UNCHANGED allowed
     \/ awaiting' = Settings /\ allowed' = TRUE
  /\ UNCHANGED <<server, saved, shown, answer, saving, disposed, recent, had>>

(* Cernere answers a read with what it has then.                             *)
Served(s) ==
  /\ s \in awaiting /\ "permission" \notin awaiting /\ answer[s] = Unknown
  /\ answer' = [answer EXCEPT ![s] = server[s]]
  /\ recent' = [recent EXCEPT ![s] = {server[s]}]
  /\ UNCHANGED <<server, saved, shown, awaiting, saving, allowed, disposed, had>>

(* The answer arrives.                                                       *)
Read(s) ==
  /\ answer[s] # Unknown
  /\ saved' = [saved EXCEPT ![s] = answer[s]]
  /\ shown' = [shown EXCEPT ![s] = answer[s]]
  /\ had' = [had EXCEPT ![s] = recent[s]]
  /\ awaiting' = awaiting \ {s} /\ answer' = [answer EXCEPT ![s] = Unknown]
  /\ UNCHANGED <<server, saving, allowed, disposed, recent>>

(* Each read can fail by itself, served or not.                              *)
ReadFails(s) ==
  /\ s \in awaiting /\ "permission" \notin awaiting
  /\ shown' = [shown EXCEPT ![s] = Unknown]
  /\ awaiting' = awaiting \ {s} /\ answer' = [answer EXCEPT ![s] = Unknown]
  /\ UNCHANGED <<server, saved, saving, allowed, disposed, recent, had>>

(* The selects are enabled when nothing is on its way and the value known.   *)
Choose(s, v) ==
  /\ awaiting = {} /\ saving = NoSave /\ allowed /\ ~disposed
  /\ shown[s] # Unknown /\ v # shown[s]
  /\ shown' = [shown EXCEPT ![s] = v]
  /\ saving' = [of |-> s, value |-> v, applied |-> FALSE]
  /\ UNCHANGED <<server, saved, awaiting, answer, allowed, disposed, recent, had>>

Applied ==
  /\ saving # NoSave /\ ~saving.applied
  /\ Becomes(saving.of, saving.value)
  /\ recent' = [recent EXCEPT ![saving.of] = {saving.value}]
  /\ saving' = [saving EXCEPT !.applied = TRUE]
  /\ UNCHANGED <<saved, shown, awaiting, answer, allowed, disposed>>

SaveAnswered ==
  /\ saving.applied
  /\ saved' = [saved EXCEPT ![saving.of] = saving.value]
  /\ had' = [had EXCEPT ![saving.of] = recent[saving.of]]
  /\ saving' = NoSave
  /\ UNCHANGED <<server, shown, awaiting, answer, allowed, disposed, recent>>

LeftStanding ==   \* mutant: the select keeps the choice
  /\ saving # NoSave
  /\ saving' = NoSave
  /\ UNCHANGED <<server, saved, shown, awaiting, answer, allowed, disposed, recent, had>>

(* Refused, or the answer is lost: the choice before it is shown again.      *)
SaveFails ==
  /\ saving # NoSave
  /\ shown' = [shown EXCEPT ![saving.of] = saved[saving.of]]
  /\ saving' = NoSave
  /\ UNCHANGED <<server, saved, awaiting, answer, allowed, disposed, recent, had>>

(* Everything on its way is aborted, and nothing begins any more.            *)
Dispose ==
  /\ ~disposed /\ disposed' = TRUE
  /\ awaiting' = {} /\ answer' = [s \in Settings |-> Unknown] /\ saving' = NoSave
  /\ UNCHANGED <<server, saved, shown, allowed, recent, had>>

Next ==
  \/ Update \/ Permitted \/ Applied \/ SaveAnswered \/ SaveFails \/ Dispose
  \/ \E s \in Settings :
       \/ Served(s) \/ Read(s) \/ ReadFails(s)
       \/ \E v \in Values : Choose(s, v) \/ Elsewhere(s, v)

Spec == Init /\ [][Next]_vars

TypeOK ==
  /\ server \in [Settings -> Values] /\ saved \in [Settings -> Values]
  /\ {shown, answer} \subseteq [Settings -> Values \cup {Unknown}]
  /\ awaiting \subseteq Settings \cup {"permission"}
  /\ saving \in [of : Settings \cup {Unknown}, value : Values \cup {Unknown}, applied : BOOLEAN]
  /\ allowed \in BOOLEAN /\ disposed \in BOOLEAN
  /\ {recent, had} \subseteq [Settings -> SUBSET Values]

(* But for a choice that is being saved, the header shows nothing or a value *)
(* Cernere has had since it last did what the page knows of: no read that    *)
(* began before a choice overwrites it, a choice that was not saved is not   *)
(* left standing, and only what is written elsewhere makes the header stale, *)
(* until its next read (spec/feature/simple-shell.md:21-25).                 *)
HeaderIsCurrent ==
  ~disposed => \A s \in Settings : s # saving.of => shown[s] \in had[s] \cup {Unknown}
=============================================================================
