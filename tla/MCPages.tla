------------------------------- MODULE MCPages -------------------------------
(* Pages of the browser, and the boards of the Hub, that share no state,   *)
(* each explored on its own: `part' says which.  In the configuration:     *)
(* viewer: a page that connects twice, two goods in messages of one, or    *)
(*   two posts, or one of each, a poll, one message waiting in a           *)
(*   connection's chain.                                                   *)
(* reviews: two renderings of the page of reviews, two surveys, a project. *)
(* form: two reviews of a question each, with one consent given for each.  *)
(* curves: two stamps, two saves, two videos.                              *)
(* panels: two renderings of a panel, one write, one read that fails.  The *)
(*   panels without an administrator's part are left to those with one.    *)
(* boards: a member and an administrator, two threads or links with two    *)
(*   comments, a quest with two requests on it and one lead at a time.     *)
EXTENDS Integers, TLC

CONSTANTS
  None,
  MaxConnects, MaxPresses, MaxBatch, MaxInbox, Polls, MaxSent,           \* viewer
  MaxRenders, Categories, Surveys, Projects,                             \* reviews
  MaxPosts, MaxTicks, MaxQuestions,                                      \* form
  Videos, MaxStamps, MaxSaves,                                           \* curves
  Explored, MaxWrites, MaxFaults,                                        \* panels
  Members, Admins, Items, Quests, Notes, Refs, Requests, MaxRevision     \* boards

VARIABLES part,
  view, built, connection, link, composer, draft, poll, batcher, decay, count,
  page, render, detail, saves, stored,
  form, reviews, relay, told, load, feed, follow, box, analysis,
  file, entries, enabled, save, record, history,
  panel, latest, drawing, mixed, shown, writes, pressed, version, confirmed, faults, hidden,
  board, role, thread, posted, comments, quest, admitted, deciding, agreed

Viewer == INSTANCE Viewer
Reviews == INSTANCE ReviewPage
Form == INSTANCE ReviewForm
Curves == INSTANCE Curves
Panels == INSTANCE PanelPages WITH render <- drawing, page <- shown, told <- confirmed

(* The boards, each with the role that its audience or its decisions ask.  *)
BoardRoles ==
  [b \in {"threads", "links", "quests"} |->
     CASE b = "threads" -> {"member"} [] b = "links" -> {} [] b = "quests" -> {"lead"}]

Boards == INSTANCE Boards WITH
  Boards <- DOMAIN BoardRoles, RolesOf <- BoardRoles, link <- posted, request <- deciding

ASSUME ViewerIsExplored == Viewer!ViewerAssumption
ASSUME ReviewsAreExplored ==
  Reviews!PageAssumption /\ Form!FormAssumption /\ Curves!CurvesAssumption
ASSUME PanelsAreExplored == Panels!PanelPagesAssumption
ASSUME BoardsAreExplored == Boards!BoardsAssumption

viewerVars == <<view, built, connection, link, composer, draft, poll, batcher, decay, count>>
reviewVars == <<page, render, detail, saves, stored>>
formVars == <<form, reviews, relay, told, load, feed, follow, box, analysis>>
curveVars == <<file, entries, enabled, save, record, history>>
panelVars == <<panel, latest, drawing, mixed, shown, writes, pressed, version,
               confirmed, faults, hidden>>
boardVars == <<board, role, thread, posted, comments, quest, admitted, deciding, agreed>>
pageVars == <<part, viewerVars, reviewVars, formVars, curveVars, panelVars, boardVars>>

(* Only the part explored varies where it begins.                          *)
PagesInit ==
  /\ part \in {"viewer", "reviews", "form", "curves", "panels", "boards"}
  /\ Viewer!Init /\ Reviews!Init /\ Form!Init /\ Curves!Init /\ Panels!Init /\ Boards!Init
  /\ part # "reviews" => page.url = None /\ ~page.admin
  /\ part # "panels" => panel = "cocoiru"
  /\ part # "boards" => board = "links"

(* Bounds of the exploration only.                                         *)
OneLead == \A m, n \in Members : role[m] # {} /\ role[n] # {} => m = n
GoodsOrPosts == count.pressed + count.typed <= MaxSent

PagesNext ==
  /\ UNCHANGED part
  /\ \/ part = "viewer" /\ Viewer!Next /\ GoodsOrPosts'
     \/ part # "viewer" /\ UNCHANGED viewerVars
  /\ \/ part = "reviews" /\ Reviews!Next
     \/ part # "reviews" /\ UNCHANGED reviewVars
  /\ \/ part = "form" /\ Form!Next
     \/ part # "form" /\ UNCHANGED formVars
  /\ \/ part = "curves" /\ Curves!Next
     \/ part # "curves" /\ UNCHANGED curveVars
  /\ \/ part = "panels" /\ Panels!Next
     \/ part # "panels" /\ UNCHANGED panelVars
  /\ \/ part = "boards" /\ Boards!Next /\ OneLead'
     \/ part # "boards" /\ UNCHANGED boardVars

PagesSpec == PagesInit /\ [][PagesNext]_pageVars

(* What is reviewed, answered and recorded is what its author meant and    *)
(* saw, on the page, in the form and in the recorder of the curves.        *)
ReviewsAreFaithful ==
  []Reviews!PageIsCoherent /\ []Form!FollowsFaithfully /\ Curves!CurvesSafe

(* The properties of the viewer, the panels and the boards, stated in their *)
(* modules.                                                                *)
ViewerIsFaithful == Viewer!ViewerIsFaithful
PageIsCurrent == Panels!PageIsCurrent
BoardsAreKept == Boards!BoardsAreKept
=============================================================================
