----------------------------- MODULE PanelPages -----------------------------
(* The pages of the panels.  Each draws itself by one function (render,     *)
(* load, reload or refresh): it reads from the Hub, awaits, and puts what   *)
(* it got on the page; a button writes and, when the Hub has agreed, calls  *)
(* that function again.  Nothing stops a rendering that is under way when   *)
(* the next one begins, so the panels differ in what becomes of its late    *)
(* parts.  A panel is described by                                          *)
(*   kind: what a part does where it is put -                               *)
(*     "append"   it is added to a container that rendering cleared when it *)
(*                began;                                                    *)
(*     "replace"  it takes the place of what is there;                      *)
(*     "newest"   it is dropped unless its rendering is the newest;         *)
(*   clears: whether a rendering empties the container when it begins;      *)
(*   again: whether the user may have it drawn again without writing;       *)
(*   alone: whether that button is disabled while it is under way;          *)
(*   hides: whether it forgets all when the browser hides the tab;          *)
(*   steps: its parts in order; those of one step are read side by side;    *)
(*   forms: writes whose form is drawn as the rendering begins.             *)
(* What is typed, and the texts, are left out.  A search word or filter is  *)
(* read when a rendering begins: it belongs to the rendering.               *)
EXTENDS Naturals, Sequences, FiniteSets

CONSTANTS
  Explored,    \* the panels to explore, by their names in Panel
  MaxRenders,  \* bound: renderings of one mount
  MaxWrites,   \* bound: writes of one mount
  MaxFaults    \* bound: reads of one mount that fail

(* The panels described below; some have another page for administrators.  *)
PanelNames ==
  {"attendance", "attendance_admin", "events", "jobs", "members", "projects", "projects_admin",
   "releases", "analysis", "saved", "search", "links", "comments", "reservations", "meetings",
   "meet", "forum", "consult", "cocoiru", "quests", "quests_approver", "loans", "catalogue",
   "dashboard", "trends", "conclusions", "launch", "progress", "showcase", "overview"}

PanelPagesAssumption ==
  /\ Explored \subseteq PanelNames
  /\ MaxRenders \in Nat \ {0} /\ MaxWrites \in Nat /\ MaxFaults \in Nat

(* refused: what an answer that is not ok does to the part, lost: what a    *)
(* request that fails does - "note" a notice in its place, "stop" a notice  *)
(* and the end of the rendering, "throw" the end of the rendering,          *)
(* "without" the part with fewer choices.                                   *)
Part(name, refused, lost, writes) ==
  [name |-> name, refused |-> refused, lost |-> lost, writes |-> writes]

Page(kind, steps, forms) ==
  [kind |-> kind, steps |-> steps, forms |-> forms,
   clears |-> TRUE, again |-> TRUE, alone |-> FALSE, hides |-> FALSE]

Keeping(p) == [p EXCEPT !.clears = FALSE]
AfterWrites(p) == [p EXCEPT !.again = FALSE]
Alone(p) == [p EXCEPT !.alone = TRUE]
Hiding(p) == [p EXCEPT !.hides = TRUE]

-----------------------------------------------------------------------------
(* attendance: the section of the automatic check-in is drawn at once.      *)
Approvals == Part("approvals", "note", "throw", {"request", "approve", "prepare", "end"})
PhotoSent == {"gps"}
Checkin == Part("checkin", "note", "throw", {"checkin"} \cup PhotoSent)
Ledger == Part("ledger", "note", "throw", {"manual"})

AttendanceOf(admin) ==
  Page("append",
    <<{Approvals}, {Checkin}, {Part("today", "note", "throw", {})},
      {Part("mine", "note", "throw", {})}>>
    \o (IF admin THEN <<{Ledger}>> ELSE <<>>),
    {})

(* events: the form waits for the facilities and the roles; the two weeks   *)
(* are read side by side and put on the page together.                      *)
EventForm == Part("form", "without", "throw", {"register"})
IssueMeet == {"meet"}
Week(name) == Part(name, "note", "throw", {"delete", "prepare"} \cup IssueMeet)

Events ==
  Page("append", <<{EventForm}, {Week("this week"), Week("next week")}>>, {})

(* jobs: the list, with the owners' editor.                                 *)
JobList == Part("jobs", "note", "throw", {"close", "owner"})

Jobs == Page("append", <<{JobList}>>, {"announce"})

(* members: the candidates for a link only add choices to a row.            *)
Roster == Part("roster", "stop", "throw", {"status", "link", "delete"})

MembersOf == Page("append", <<{Roster}>>, {"add"})

(* projects: the known users are read after the list; the form is for       *)
(* administrators.                                                          *)
ProjectList == Part("projects", "stop", "throw", {"status", "assign", "remove"})

ProjectsOf(admin) ==
  Page("append", <<{ProjectList}>>, IF admin THEN {"found"} ELSE {})

(* A project's releases are loaded into an element of their own, which a    *)
(* sync replaces by a new one.                                              *)
ReleaseList == Part("releases", "note", "note", {})

ReleaseSlot == AfterWrites(Page("newest", <<{ReleaseList}>>, {"sync"}))

(* The analysis of the project chosen when the button is pressed.           *)
Analysis == Alone(Page("replace", <<{Part("analysis", "note", "note", {})}>>, {}))

(* tirocinium: the companies saved, and the search below them.              *)
Relations == Part("relations", "note", "note", {"release"})

Saved == AfterWrites(Page("replace", <<{Relations}>>, {"desired", "offer"}))
Search == Page("replace", <<{Part("companies", "note", "note", {})}>>, {})

(* tech-links: the list, and the comments of one link.                      *)
Links == Page("append", <<{Part("links", "note", "note", {})}>>, {"share"})
Comments == AfterWrites(Page("append", <<{Part("comments", "note", "note", {})}>>, {"comment"}))

(* facility: the lists stay on the page until the next one has been read.   *)
Reservations ==
  AfterWrites(Keeping(Page("replace",
    <<{Part("reservations", "throw", "throw", {"cancel"})}>>, {"reserve"})))

Meetings ==
  AfterWrites(Keeping(Page("replace",
    <<{Part("meetings", "throw", "throw", {"cancel", "finalize", "publish", "respond"})}>>,
    {"save"})))

(* The account that creates the Meet links; Google's window reports when it *)
(* is done, as a write would.                                               *)
MeetAccount == Page("append", <<{Part("account", "note", "note", {"authorize"})}>>, {})

(* forum, consult, quests and the members Cocoiru shows as active.          *)
Forum == AfterWrites(Page("append", <<{Part("threads", "note", "throw", {})}>>, {"post"}))

ConsultLists ==
  AfterWrites(Page("append",
    <<{Part("open", "without", "throw", {})}, {Part("resolved", "without", "throw", {})}>>,
    {"ask"}))

Actives == Page("append", <<{Part("members", "note", "note", {})}>>, {})

QuestsOf(approver) ==
  AfterWrites(Page("append",
    <<{Part("mine", "stop", "throw", {"save", "submit", "withdraw"})}>>
    \o (IF approver THEN <<{Part("pending", "stop", "throw", {"approve", "return"})}>> ELSE <<>>),
    {}))

(* library: a loan that is read late is dropped by its generation.  The     *)
(* software library disables its button while it loads.                     *)
Loans == Page("newest", <<{Part("loans", "note", "note", {})}>>, {"borrow"})

Catalogue == Alone(Keeping(Page("replace", <<{Part("entries", "note", "note", {})}>>, {})))

(* dashboard: the summary (profile, counts, activity and the card of the     *)
(* day) is read beside the cards of what is being presented.                *)
DailyCard == {"complete"}
Summary == Part("summary", "note", "note", DailyCard)
Live == Part("live", "without", "without", {})

Dashboard == AfterWrites(Page("append", <<{Summary, Live}>>, {}))

(* tendentia: the map, and beside it the address of its service.            *)
TrendMap == Part("map", "note", "note", {})
Address == Part("address", "without", "without", {})

Trends == AfterWrites(Page("append", <<{TrendMap, Address}>>, {}))

(* di: what may be disclosed is not kept while the tab is hidden, and what  *)
(* was asked for before comes too late.                                     *)
Conclusions == Hiding(Alone(Page("newest", <<{Part("conclusions", "note", "note", {})}>>, {})))
Launch == AfterWrites(Page("append", <<{Part("launch", "note", "note", {})}>>, {}))

(* progress, the gallery of works, and the overview of the services.        *)
Progress == Page("append", <<{Part("progress", "note", "note", {})}>>, {})
Showcase == AfterWrites(Page("replace", <<{Part("works", "note", "note", {"save_work", "upload"})}>>, {}))

Overview ==
  AfterWrites(Page("replace",
    <<{Part("connectors", "stop", "stop", {}), Part("services", "stop", "stop", {})}>>, {}))

Panel(name) ==
  CASE name = "attendance" -> AttendanceOf(FALSE)
    [] name = "attendance_admin" -> AttendanceOf(TRUE) [] name = "events" -> Events
    [] name = "jobs" -> Jobs [] name = "members" -> MembersOf
    [] name = "projects" -> ProjectsOf(FALSE)
    [] name = "projects_admin" -> ProjectsOf(TRUE) [] name = "releases" -> ReleaseSlot
    [] name = "analysis" -> Analysis [] name = "saved" -> Saved
    [] name = "search" -> Search [] name = "links" -> Links
    [] name = "comments" -> Comments [] name = "reservations" -> Reservations
    [] name = "meetings" -> Meetings [] name = "meet" -> MeetAccount
    [] name = "forum" -> Forum [] name = "consult" -> ConsultLists
    [] name = "cocoiru" -> Actives [] name = "quests" -> QuestsOf(FALSE)
    [] name = "quests_approver" -> QuestsOf(TRUE) [] name = "loans" -> Loans
    [] name = "catalogue" -> Catalogue [] name = "dashboard" -> Dashboard
    [] name = "trends" -> Trends [] name = "conclusions" -> Conclusions
    [] name = "launch" -> Launch [] name = "progress" -> Progress
    [] name = "showcase" -> Showcase [] name = "overview" -> Overview

(* After a registration the page may be left as it is: the event is stored, *)
(* its Meet link is not, and the message must stay readable.                *)
MayStay == {"register"}

(* The form of the ledger stands below it, and below the notice as well.    *)
Beside == {"manual"}

(* What tells of its success where it stands.                               *)
InPlace == {"complete", "meet", "save_work", "upload"}

-----------------------------------------------------------------------------
VARIABLES
  panel,    \* the panel explored
  latest,   \* renderings begun
  render,   \* each rendering: its step, what was read in it, how it ended
  mixed,    \* the newest rendering began while another was under way
  page,     \* the parts on the page: whose, what they show
  writes,   \* writes under way
  pressed,  \* writes so far
  version,  \* writes stored by the Hub
  told,     \* the newest write whose success the page was told
  faults,   \* reads that failed so far
  hidden    \* renderings begun when the tab was last hidden

vars == <<panel, latest, render, mixed, page, writes, pressed, version, told, faults, hidden>>

Renders == 1..MaxRenders
Shape == Panel(panel)
Steps == Shape.steps
Running == {r \in Renders : render[r].at = "running"}

NoRender == [at |-> "none", step |-> 0, got |-> {}, whole |-> FALSE]

BeginOver ==   \* mutant: the container is not cleared
  /\ latest < MaxRenders
  /\ latest' = latest + 1
  /\ render' = [render EXCEPT ![latest + 1] = [at |-> "running", step |-> 1, got |-> {}, whole |-> TRUE]]
  /\ mixed' = (Running # {})
  /\ page' = page

(* A rendering begins.  Parts of earlier ones that are still being read     *)
(* will be put on the cleared page all the same.                            *)
Begin ==
  /\ latest < MaxRenders
  /\ latest' = latest + 1
  /\ render' = [render EXCEPT ![latest + 1] = [at |-> "running", step |-> 1, got |-> {}, whole |-> TRUE]]
  /\ mixed' = (Running # {})
  /\ page' = IF Shape.clears THEN {} ELSE page

(* The mount, the button that draws the page again, or another search.      *)
Render ==
  /\ latest > 0 => Shape.again /\ (Shape.alone => Running = {})
  /\ Begin
  /\ UNCHANGED <<panel, writes, pressed, version, told, faults, hidden>>

Init ==
  /\ panel \in Explored
  /\ latest = 0 /\ render = [r \in Renders |-> NoRender] /\ mixed = FALSE
  /\ page = {} /\ writes = {} /\ pressed = 0 /\ version = 0 /\ told = 0 /\ faults = 0 /\ hidden = 0

-----------------------------------------------------------------------------
Awaited(r) == {p \in Steps[render[r].step] : \A g \in render[r].got : g.part # p.name}
Got(r, p, how) ==
  [by |-> r, part |-> p.name, saw |-> version, failed |-> how \in {"note", "stop"}, stop |-> how = "stop"]

(* The Hub answers one read: what it sends shows the writes it stored.      *)
Read(r) ==
  /\ r \in Running
  /\ \E p \in Awaited(r), how \in {"ok", "note", "stop", "without", "throw"} :
       /\ how # "ok" => how \in {p.refused, p.lost} /\ faults < MaxFaults
       /\ faults' = IF how = "ok" THEN faults ELSE faults + 1
       /\ render' = [render EXCEPT ![r] =
            IF how = "throw" THEN [render[r] EXCEPT !.at = "ended", !.whole = FALSE]
            ELSE [render[r] EXCEPT !.got = @ \cup {Got(r, p, how)},
                                   !.whole = @ /\ how \in {"ok", "without"}]]
  /\ UNCHANGED <<panel, latest, mixed, page, writes, pressed, version, told, hidden>>

Drawing(g) == [by |-> g.by, part |-> g.part, saw |-> g.saw, failed |-> g.failed]

PlacedAnyway(r) ==   \* mutant: the generation is not looked at
  LET new == {Drawing(g) : g \in render[r].got} IN
    IF Shape.kind = "replace"
      THEN {d \in page : \A e \in new : e.part # d.part} \cup new
      ELSE page \cup new

(* Where the parts of a step go.                                            *)
Placed(r) ==
  LET new == {Drawing(g) : g \in render[r].got} IN
    CASE Shape.kind = "append"  -> page \cup new
      [] Shape.kind = "replace" -> {d \in page : \A e \in new : e.part # d.part} \cup new
      [] Shape.kind = "newest"  -> IF r = latest /\ r > hidden THEN page \cup new ELSE page

(* The parts of a step are put on the page, and the next step is read.      *)
Draw(r) ==
  /\ r \in Running /\ Awaited(r) = {}
  /\ page' = Placed(r)
  /\ render' = [render EXCEPT ![r] =
       IF render[r].step = Len(Steps) \/ \E g \in render[r].got : g.stop
         THEN [render[r] EXCEPT !.at = "ended", !.got = {}]
         ELSE [render[r] EXCEPT !.step = @ + 1, !.got = {}]]
  /\ UNCHANGED <<panel, latest, mixed, writes, pressed, version, told, faults, hidden>>

-----------------------------------------------------------------------------
Parts == UNION {Steps[i] : i \in DOMAIN Steps}

(* A form of the newest rendering, or a control of a part on the page, is   *)
(* used.  (That a button is disabled until its own write is answered leaves *)
(* the other rows' buttons.)                                                *)
Offered ==
  (IF latest = 0 THEN {} ELSE Shape.forms)
  \cup UNION {p.writes : p \in {q \in Parts : \E d \in page : d.part = q.name /\ ~d.failed}}
  \cup {w \in Beside : \E p \in Parts, d \in page : d.part = p.name /\ w \in p.writes}

How(name) ==
  IF name \in InPlace THEN "in place" ELSE IF name \in MayStay THEN "may stay" ELSE "drawn again"

Press ==
  /\ pressed < MaxWrites
  /\ \E how \in {How(name) : name \in Offered} :
       writes' = writes \cup {[id |-> pressed, how |-> how, stored |-> 0]}
  /\ pressed' = pressed + 1
  /\ UNCHANGED <<panel, latest, render, mixed, page, version, told, faults, hidden>>

(* The Hub stores the write.                                                *)
Store ==
  /\ \E w \in writes :
       w.stored = 0 /\ writes' = (writes \ {w}) \cup {[w EXCEPT !.stored = version + 1]}
  /\ version' = version + 1
  /\ UNCHANGED <<panel, latest, render, mixed, page, pressed, told, faults, hidden>>

(* It is refused, or the answer is lost: the page stays as it is.           *)
Fail ==
  /\ \E w \in writes : writes' = writes \ {w}
  /\ UNCHANGED <<panel, latest, render, mixed, page, pressed, version, told, faults, hidden>>

Told(w) == IF w.stored > told THEN w.stored ELSE told

AnswerSilently ==   \* mutant: the page is not drawn again
  /\ \E w \in writes : w.stored > 0 /\ w.how # "in place" /\ writes' = writes \ {w} /\ told' = Told(w)
  /\ UNCHANGED <<panel, latest, render, mixed, page, pressed, version, faults, hidden>>

(* It succeeded: the page is drawn again.                                   *)
Answer ==
  /\ \E w \in writes :
       w.stored > 0 /\ w.how # "in place" /\ writes' = writes \ {w} /\ told' = Told(w)
  /\ Begin
  /\ UNCHANGED <<panel, pressed, version, faults, hidden>>

Left ==
  /\ \E w \in writes : w.stored > 0 /\ w.how # "drawn again" /\ writes' = writes \ {w}
  /\ UNCHANGED <<panel, latest, render, mixed, page, pressed, version, told, faults, hidden>>

(* The tab is hidden: all is taken off the page, and no rendering that has   *)
(* begun is the newest any more.                                            *)
Hide ==
  /\ Shape.hides /\ latest > hidden
  /\ hidden' = latest /\ page' = {}
  /\ UNCHANGED <<panel, latest, render, mixed, writes, pressed, version, told, faults>>

Next ==
  \/ Hide
  \/ Render \/ (\E r \in Renders : Read(r) \/ Draw(r))
  \/ Press \/ Store \/ Fail \/ Answer \/ Left

Spec == Init /\ [][Next]_vars

-----------------------------------------------------------------------------
TypeOK ==
  /\ panel \in Explored /\ latest \in 0..MaxRenders /\ mixed \in BOOLEAN
  /\ \A r \in Renders : render[r].at \in {"none", "running", "ended"} /\ (render[r].at = "none" <=> r > latest)
  /\ \A d \in page : d.by \in 1..latest /\ d.saw \in 0..version
  /\ pressed \in 0..MaxWrites /\ version \in 0..pressed /\ faults \in 0..MaxFaults /\ told \in 0..version

Quiet == latest > 0 /\ Running = {} /\ writes = {}
Shown(name) == {d \in page : d.part = name}

(* When nothing is under way and every read of the newest rendering was     *)
(* answered, each of its parts is on the page and shows every write whose   *)
(* success the page was told - except that a panel which replaces what is   *)
(* there may be left with the part of an older rendering, and one which     *)
(* appends may show a part of an older rendering besides, when the two      *)
(* overlapped.  (The panels' own comments promise a fresh list after every  *)
(* write: container.innerHTML = '' and `await rerender()'.)                 *)
NewestIsWhole ==
  Quiet /\ render[latest].whole /\ latest > hidden =>
    \A p \in Parts :
      /\ Shape.kind # "replace" \/ ~mixed =>
           \E d \in Shown(p.name) : d.by = latest /\ d.saw >= told
      /\ Shape.kind # "append" \/ ~mixed => Cardinality(Shown(p.name)) = 1

(* Nothing that was disclosed before the tab was hidden is on the page       *)
(* again, not even by an answer that comes after ("Do not retain disclosed  *)
(* text across background/resume", di/conclusion-panel.ts).                 *)
HiddenIsForgotten == \A d \in page : d.by > hidden

PageIsCurrent == NewestIsWhole /\ HiddenIsForgotten

(* Without the exception: TLC refutes it for the panels that replace        *)
(* (tirocinium, facility), whose older answer may come last.                *)
NewestIsShown ==
  Quiet /\ render[latest].whole =>
    \A p \in Parts : \E d \in Shown(p.name) : d.by = latest
=============================================================================
