----------------------------- MODULE ReviewPage -----------------------------
(* The panel of reviews and surveys (plugins/volputas/panel.ts, mount;      *)
(* games-panel.ts).  render() clears the panel and fills it again between   *)
(* awaits; nothing stops a render that is under way when the next one       *)
(* starts, and whatever a click needs is taken from the closure it was      *)
(* drawn with.                                                              *)
EXTENDS Naturals, FiniteSets

CONSTANTS
  MaxRenders,   \* bound: renders of one mount
  Categories,   \* SURVEY_CATEGORIES
  Surveys, Projects, None

PageAssumption ==
  /\ MaxRenders \in Nat /\ Categories # {}
  /\ None \notin Surveys \cup Projects

VARIABLES
  page,    \* the variables of mount(), and the query of the window
  render,  \* each render: the await it is at, what it has captured
  detail,  \* the detail element of each render: its form, the answers awaited
  saves,   \* answers of surveys on their way, and where they are drawn
  stored   \* Voluptas: whose questions the answers of a survey answer

vars == <<page, render, detail, saves, stored>>

Renders == 1..MaxRenders
Tabs == Categories \cup {"reviews", "emotion_curves"}
Started == {r \in Renders : render[r].at # "none"}

NoRender == [at |-> "none", drawn |-> FALSE, tab |-> None, project |-> None]
NoDetail == [form |-> None, busy |-> FALSE, asked |-> {}]

RenderedLate ==   \* mutant: cleared only when there is something to draw
  /\ Cardinality(Started) < MaxRenders
  /\ render' = [render EXCEPT ![Cardinality(Started) + 1].at = "omnipotens"]
  /\ UNCHANGED detail

(* render(), up to its first await.  What earlier renders drew is gone,     *)
(* those under way will draw their part all the same.                       *)
Rendered ==
  /\ Cardinality(Started) < MaxRenders
  /\ render' = [r \in Renders |->
       IF r = Cardinality(Started) + 1 THEN [NoRender EXCEPT !.at = "omnipotens"]
       ELSE [render[r] EXCEPT !.drawn = FALSE]]
  /\ detail' = [r \in Renders |-> NoDetail]

(* mount: the filter comes from the query, and opens its tab.               *)
Init ==
  /\ \E p \in Projects \cup {None}, admin \in BOOLEAN, c \in Categories :
       page = [project |-> p, url |-> p, tab |-> IF p = None THEN c ELSE "reviews",
               selected |-> None, loaded |-> FALSE, admin |-> admin]
  /\ render = [r \in Renders |-> IF r = 1 THEN [NoRender EXCEPT !.at = "omnipotens"] ELSE NoRender]
  /\ detail = [r \in Renders |-> NoDetail]
  /\ saves = {} /\ stored = [s \in Surveys |-> {}]

-----------------------------------------------------------------------------
(* The tabs and the workspace of the tab that is active now.                *)
Draw(r) ==
  [render EXCEPT ![r] =
     [at |-> IF page.tab \in Categories THEN "list" ELSE "done", drawn |-> TRUE,
      tab |-> page.tab, project |-> page.project]]

Waits(r, at) == [render EXCEPT ![r].at = at]

(* Past the awaits before the tabs: the section of Omnipotens, the games -  *)
(* unless they were loaded -, for an administrator the games to manage.     *)
OmnipotensDrawn(r) ==
  /\ render[r].at = "omnipotens"
  /\ render' = IF ~page.loaded THEN Waits(r, "games")
               ELSE IF page.admin THEN Waits(r, "admin") ELSE Draw(r)
  /\ UNCHANGED <<page, detail, saves, stored>>

(* With the games, or null when they cannot be had: not asked for again.    *)
GamesLoaded(r) ==
  /\ render[r].at = "games"
  /\ page' = [page EXCEPT !.loaded = TRUE]
  /\ render' = IF page.admin THEN Waits(r, "admin") ELSE Draw(r)
  /\ UNCHANGED <<detail, saves, stored>>

AdminDrawn(r) ==
  /\ render[r].at = "admin"
  /\ render' = Draw(r)
  /\ UNCHANGED <<page, detail, saves, stored>>

(* loadList, and then the survey that was selected before.                  *)
ListDrawn(r) ==
  /\ render[r].at = "list"
  /\ render' = Waits(r, "done")
  /\ detail' = IF page.selected = None THEN detail
               ELSE [detail EXCEPT ![r] = [NoDetail EXCEPT !.asked = @ \cup {page.selected}]]
  /\ UNCHANGED <<page, saves, stored>>

-----------------------------------------------------------------------------
(* The buttons.  Those of a render are on the page once it drew its tabs.   *)
Refresh ==
  /\ Rendered
  /\ UNCHANGED <<page, saves, stored>>

TabClick(r, t) ==
  /\ render[r].drawn
  /\ page' = [page EXCEPT !.tab = t, !.selected = None]
  /\ Rendered
  /\ UNCHANGED <<saves, stored>>

(* applyProjectFilter: the query follows, so that the next mount agrees.    *)
FilterCleared(r) ==
  /\ render[r].drawn /\ render[r].tab = "reviews" /\ render[r].project # None
  /\ page' = [page EXCEPT !.project = None, !.url = None]
  /\ Rendered
  /\ UNCHANGED <<saves, stored>>

(* A game registered or changed in the section of administrators, which is  *)
(* the page's already while later parts are awaited.                        *)
GameChanged ==
  /\ page.admin
  /\ \E r \in Renders : render[r].at \in {"list", "done"}
  /\ page' = [page EXCEPT !.loaded = FALSE]
  /\ Rendered
  /\ UNCHANGED <<saves, stored>>

-----------------------------------------------------------------------------
(* A card of the list: each click asks for the survey, in the one detail.   *)
Select(r, s) ==
  /\ render[r].drawn /\ render[r].tab \in Categories /\ render[r].at = "done"
  /\ page' = [page EXCEPT !.selected = s]
  /\ detail' = [detail EXCEPT ![r] = [form |-> None, busy |-> FALSE, asked |-> @.asked \cup {s}]]
  /\ UNCHANGED <<render, saves, stored>>

(* Answers come in any order, and the last one stays: the form of a survey, *)
(* or a notice.                                                             *)
DetailDrawn(r, s) ==
  /\ s \in detail[r].asked
  /\ \E shown \in {s, None} :
       detail' = [detail EXCEPT ![r] = [form |-> shown, busy |-> FALSE, asked |-> @.asked \ {s}]]
  /\ UNCHANGED <<page, render, saves, stored>>

SaveSelected(r) ==   \* mutant: to the survey selected last
  /\ render[r].drawn /\ detail[r].form # None /\ ~detail[r].busy /\ page.selected # None
  /\ detail' = [detail EXCEPT ![r].busy = TRUE]
  /\ saves' = saves \cup {[by |-> r, questions |-> detail[r].form, survey |-> page.selected]}
  /\ UNCHANGED <<page, render, stored>>

(* form.onsubmit: the questions and the survey are those of the form.       *)
Save(r) ==
  /\ render[r].drawn /\ detail[r].form # None /\ ~detail[r].busy
  /\ detail' = [detail EXCEPT ![r].busy = TRUE]
  /\ saves' = saves \cup {[by |-> r, questions |-> detail[r].form, survey |-> detail[r].form]}
  /\ UNCHANGED <<page, render, stored>>

(* Stored, and afterSave renders; or refused; or lost on either way.        *)
Saved(a) ==
  /\ a \in saves /\ saves' = saves \ {a}
  /\ \/ /\ stored' = [stored EXCEPT ![a.survey] = @ \cup {a.questions}]
        /\ Rendered
     \/ /\ \/ UNCHANGED stored
           \/ stored' = [stored EXCEPT ![a.survey] = @ \cup {a.questions}]
        /\ detail' = [detail EXCEPT ![a.by].busy = IF detail[a.by].form = a.questions THEN FALSE ELSE @]
        /\ UNCHANGED render
  /\ UNCHANGED page

Next ==
  \/ Refresh \/ GameChanged
  \/ \E r \in Renders :
       \/ OmnipotensDrawn(r) \/ GamesLoaded(r) \/ AdminDrawn(r) \/ ListDrawn(r)
       \/ FilterCleared(r) \/ Save(r)
       \/ \E t \in Tabs : TabClick(r, t)
       \/ \E s \in Surveys : Select(r, s) \/ DetailDrawn(r, s)
  \/ \E a \in saves : Saved(a)

Spec == Init /\ [][Next]_vars

TypeOK ==
  /\ page \in [project : Projects \cup {None}, url : Projects \cup {None}, tab : Tabs,
               selected : Surveys \cup {None}, loaded : BOOLEAN, admin : BOOLEAN]
  /\ render \in [Renders -> [at : {"none", "omnipotens", "games", "admin", "list", "done"},
                             drawn : BOOLEAN, tab : Tabs \cup {None},
                             project : Projects \cup {None}]]
  /\ detail \in [Renders -> [form : Surveys \cup {None}, busy : BOOLEAN, asked : SUBSET Surveys]]
  /\ saves \subseteq [by : Renders, questions : Surveys, survey : Surveys]
  /\ stored \in [Surveys -> SUBSET Surveys]

(* However many renders overlap, what they have drawn belongs to the tab    *)
(* and to the project the page is at - and to the project the next mount    *)
(* will read from the query (panel.ts:51-52): a review is posted to the     *)
(* project of the list it is written under.                                 *)
DrawnIsOfThePage ==
  /\ page.url = page.project
  /\ \A r \in Renders : render[r].drawn =>
       render[r].tab = page.tab /\ render[r].project = page.project

(* Whatever is drawn over what: the answers kept for a survey answer its    *)
(* questions (panel.ts:446-454).                                            *)
AnswersMatchTheirSurvey == \A s \in Surveys : stored[s] \subseteq {s}

PageIsCoherent == DrawnIsOfThePage /\ AnswersMatchTheirSurvey
=============================================================================
