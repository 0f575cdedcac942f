-------------------------------- MODULE Daily --------------------------------
(* plugins/daily-engagement: the spotlight of a day, chosen by whichever of  *)
(* the Hub and the bot asks first.  The two are processes on one SQLite      *)
(* database and the choice is not a transaction: the candidate is selected,  *)
(* inserted unless the day has one, and the row read back.                   *)
(* And the quest of that day, which a member reports as done from a card     *)
(* that may have been drawn the day before.                                  *)
EXTENDS Naturals, Integers, FiniteSets

CONSTANTS
  Projects,
  Processes,   \* "hub" and "bot"
  Days,        \* 1..n: dates in Asia/Tokyo
  None         \* no row yet
NoProject == "none"   \* spotlight_project_id IS NULL

DailyAssumption ==
  /\ NoProject \notin Projects /\ None \notin Projects \cup {NoProject}
  /\ IsFiniteSet(Processes) /\ IsFiniteSet(Days)

VARIABLES
  today,
  active,     \* projects with status 'active'
  content,    \* glab_daily_content: the spotlight of each day
  asking,     \* of each process: the day asked for and its candidate
  answers,    \* history: what was answered for each day
  always,     \* history: the projects active ever since the start
  card,       \* the day of the card on the member's page, 0 without
  press,      \* the press on it: the card's day, the date the Hub takes it on
  completed   \* glab_daily_quest_completion of the member

projectVars == <<today, active, content, asking, answers, always>>
questVars == <<card, press, completed>>
vars == <<projectVars, questVars>>

NoPress == [at |-> "none", card |-> 0, key |-> 0]
Idle == [day |-> 0, candidate |-> NoProject]

Init ==
  /\ today = 1
  /\ active \in SUBSET Projects
  /\ content = [d \in Days |-> None]
  /\ asking = [p \in Processes |-> Idle]
  /\ answers = [d \in Days |-> {}]
  /\ always = active
  /\ card = 0 /\ press = NoPress /\ completed = {}

Chosen(p) == {d \in Days : content[d] = p}
Times(p) == Cardinality(Chosen(p))
Latest(p) == IF Chosen(p) = {} THEN 0 ELSE CHOOSE d \in Chosen(p) : \A e \in Chosen(p) : e <= d

MostRecent(p, q) == Latest(p) >= Latest(q)   \* mutant: last shown first

(* Least often first, then longest ago first, never before all others.       *)
Before(p, q) ==
  \/ Times(p) < Times(q)
  \/ Times(p) = Times(q) /\ Latest(p) <= Latest(q)

(* Ties go to the project edited last, which any project can be.             *)
Candidates ==
  IF active = {} THEN {NoProject}
  ELSE {p \in active : \A q \in active : Before(p, q)}

(* A handler takes the date when it starts, and may await a profile before   *)
(* it asks: the date can be the day before.                                  *)
Select(who, d) ==
  /\ asking[who] = Idle
  /\ d \in {today, today - 1} \cap Days
  /\ \E p \in Candidates : asking' = [asking EXCEPT ![who] = [day |-> d, candidate |-> p]]
  /\ UNCHANGED <<today, active, content, answers, always, questVars>>

AnswerCandidate(who) ==   \* mutant: the candidate is answered, not the row
  /\ asking[who] # Idle
  /\ LET d == asking[who].day IN
     /\ content' = [content EXCEPT ![d] = IF @ = None THEN asking[who].candidate ELSE @]
     /\ answers' = [answers EXCEPT ![d] = @ \cup {asking[who].candidate}]
  /\ asking' = [asking EXCEPT ![who] = Idle]
  /\ UNCHANGED <<today, active, always, questVars>>

(* INSERT ... ON CONFLICT DO NOTHING, then the row is read and answered.     *)
InsertAndRead(who) ==
  /\ asking[who] # Idle
  /\ LET d == asking[who].day IN
     /\ content' = [content EXCEPT ![d] = IF @ = None THEN asking[who].candidate ELSE @]
     /\ answers' = [answers EXCEPT ![d] = @ \cup {content'[d]}]
  /\ asking' = [asking EXCEPT ![who] = Idle]
  /\ UNCHANGED <<today, active, always, questVars>>

(* PATCH /projects/:id sets a status.                                        *)
SetStatus(p) ==
  /\ active' \in {active \cup {p}, active \ {p}}
  /\ active' # active
  /\ always' = always \cap active'
  /\ UNCHANGED <<today, content, asking, answers, questVars>>

NextDay ==
  /\ today + 1 \in Days
  /\ today' = today + 1
  /\ UNCHANGED <<active, content, asking, answers, always, questVars>>

-----------------------------------------------------------------------------
(* The dashboard is opened: its summary has answered with the day's content. *)
OpenCard ==
  /\ \E d \in {today, today - 1} \cap Days : content[d] # None /\ card' = d
  /\ UNCHANGED <<projectVars, press, completed>>

(* The button of the card, unless the day is done.                           *)
PressDone ==
  /\ card # 0 /\ card \notin completed /\ press = NoPress
  /\ press' = [at |-> "sent", card |-> card, key |-> 0]
  /\ UNCHANGED <<projectVars, card, completed>>

(* POST /daily-quest/complete takes the date, then awaits its body.          *)
TakeDate ==
  /\ press.at = "sent"
  /\ press' = [press EXCEPT !.at = "taken", !.key = today]
  /\ UNCHANGED <<projectVars, card, completed>>

CompleteTaken ==   \* mutant: the date on the card is not compared
  /\ press.at = "taken"
  /\ completed' = completed \cup {press.key}
  /\ press' = NoPress
  /\ UNCHANGED <<projectVars, card>>

(* Only the quest that the card showed can be done; another is refused as    *)
(* daily_content_stale.                                                      *)
CompleteQuest ==
  /\ press.at = "taken"
  /\ completed' = IF press.card = press.key THEN completed \cup {press.key} ELSE completed
  /\ press' = NoPress
  /\ UNCHANGED <<projectVars, card>>

Next ==
  \/ \E who \in Processes, d \in Days : Select(who, d)
  \/ \E who \in Processes : InsertAndRead(who)
  \/ \E p \in Projects : SetStatus(p)
  \/ NextDay
  \/ OpenCard \/ PressDone \/ TakeDate \/ CompleteQuest

Spec == Init /\ [][Next]_vars

(* spec/feature/daily-engagement.md, SPEC-GLAB-DAILY-001 and -002: Hub and   *)
(* bot answer one spotlight for a day, whichever asks first and whatever     *)
(* happens to the projects meanwhile; and the spotlight goes around: two     *)
(* projects that were active all the time are apart by one choice, or by two *)
(* when both processes choose at once for different days.                    *)
SpotlightIsSharedAndEven ==
  /\ \A d \in Days : answers[d] \subseteq {content[d]}
  /\ \A p, q \in always : Times(p) - Times(q) <= Cardinality(Processes)

(* A quest is recorded as done only by a press on its own card: none of a    *)
(* day that a card left open since the day before never showed ("日付跨ぎ前に   *)
(* 開いたカードで、別日のクエストを誤って達成しない", dashboard/index.ts).          *)
CompletedAsShown == [][completed' \ completed \subseteq {press.card}]_vars

DailyIsKept == []SpotlightIsSharedAndEven /\ CompletedAsShown
=============================================================================
