-------------------------------- MODULE Shell --------------------------------
(* public/src: the page after the login.  A tab or a team chosen in the     *)
(* navigation is loaded and then drawn into the one main area; what was     *)
(* chosen before may be drawn after it.  Declarative panels are drawn again *)
(* when the server says that they changed.                                  *)
EXTENDS Naturals, Integers

CONSTANTS
  Tabs,         \* tabs of modules, services and the overview
  Declarative,  \* those drawn from a descriptor
  Teams,
  None,
  MaxClicks     \* bound

ShellAssumption ==
  Declarative \subseteq Tabs /\ Tabs \cap Teams = {} /\ None \notin Tabs \cup Teams /\ MaxClicks \in Nat

VARIABLES
  app,       \* "booting", "shell", "loggingOut", "other": login, refused or failed
  request,   \* clicks in the navigation, counted by team-navigation.ts
  selected,  \* what was chosen last, and by which click
  main,      \* what the main area shows, and the click that asked for it
  loads,     \* what was asked for and not drawn yet
  tracked    \* currentDecl

vars == <<app, request, selected, main, loads, tracked>>

Nothing == [of |-> None, nr |-> 0]

Init ==
  /\ app = "booting"
  /\ request = 0
  /\ selected = Nothing /\ main = Nothing
  /\ loads = {} /\ tracked = None

(* boot: identity, admission, modules and services arrive, and the first    *)
(* tab is activated; or one of them is refused.                             *)
Boot ==
  /\ app = "booting"
  /\ \/ app' = "other" /\ UNCHANGED <<selected, loads, tracked>>
     \/ /\ app' = "shell"
        /\ \E t \in Tabs :
             /\ selected' = [of |-> t, nr |-> 0]
             /\ loads' = {[of |-> t, nr |-> 0]}
             /\ tracked' = IF t \in Declarative THEN t ELSE None
  /\ UNCHANGED <<request, main>>

Visible == app \in {"shell", "loggingOut"}
MayClick == Visible /\ request < MaxClicks

(* A click on a tab: the area is emptied and the panel asked for.           *)
Activate(t) ==
  /\ MayClick
  /\ request' = request + 1
  /\ selected' = [of |-> t, nr |-> request']
  /\ main' = Nothing
  /\ loads' = loads \cup {[of |-> t, nr |-> request']}
  /\ tracked' = IF t \in Declarative THEN t ELSE None
  /\ UNCHANGED app

OpenTeam(team) ==
  /\ MayClick
  /\ request' = request + 1
  /\ selected' = [of |-> team, nr |-> request']
  /\ main' = Nothing
  /\ loads' = loads \cup {[of |-> team, nr |-> request']}
  /\ tracked' = None
  /\ UNCHANGED app

(* A click anywhere else in the navigation, as on the heading of a group.   *)
ClickBeside ==
  /\ MayClick
  /\ request' = request + 1
  /\ UNCHANGED <<app, selected, main, loads, tracked>>

(* A panel, or the reason why there is none, is drawn whatever is selected. *)
DrawPanel(load) ==
  /\ load \in loads /\ load.of \in Tabs
  /\ main' = load
  /\ loads' = loads \ {load}
  /\ UNCHANGED <<app, request, selected, tracked>>

DrawAnyTeam(load) ==   \* mutant: late answers are drawn
  /\ load \in loads /\ load.of \in Teams
  /\ main' = load
  /\ loads' = loads \ {load}
  /\ UNCHANGED <<app, request, selected, tracked>>

(* A team, or that it cannot be shown, if nothing was clicked since.        *)
DrawTeam(load) ==
  /\ load \in loads /\ load.of \in Teams
  /\ main' = IF Visible /\ load.nr = request THEN load ELSE main
  /\ loads' = loads \ {load}
  /\ UNCHANGED <<app, request, selected, tracked>>

(* ui-changed names the panel that is tracked: it is loaded again.          *)
Changed ==
  /\ tracked # None
  /\ loads' = loads \cup {[of |-> tracked, nr |-> selected.nr]}
  /\ UNCHANGED <<app, request, selected, main, tracked>>

Logout ==
  /\ app = "shell" /\ app' = "loggingOut"
  /\ UNCHANGED <<request, selected, main, loads, tracked>>

(* The session is over: the shell is disposed and the login shown.          *)
ShowLogin ==
  /\ app = "loggingOut" /\ app' = "other"
  /\ UNCHANGED <<request, selected, main, loads, tracked>>

Next ==
  \/ Boot \/ ClickBeside \/ Changed \/ Logout \/ ShowLogin
  \/ \E t \in Tabs : Activate(t)
  \/ \E team \in Teams : OpenTeam(team)
  \/ \E load \in loads : DrawPanel(load) \/ DrawTeam(load)

Spec == Init /\ [][Next]_vars

TypeOK ==
  /\ app \in {"booting", "shell", "loggingOut", "other"}
  /\ request \in 0..MaxClicks
  /\ {selected, main} \cup loads \subseteq [of : Tabs \cup Teams \cup {None}, nr : 0..MaxClicks]
  /\ tracked \in Declarative \cup {None}

(* What a team's members see is theirs to leave: its page is drawn for the  *)
(* last selection only, never over a later one, by no answer that comes     *)
(* late, nor after the logout; and only the panel selected is redrawn on a  *)
(* change (spec/feature/team-navigation.md:16-17, frontend-shell.md:23-25). *)
LateTeamsAreDiscarded ==
  /\ [][main'.of \in Teams /\ main' # main => main' = selected /\ Visible]_vars
  /\ [](tracked # None => tracked = selected.of)

(* What makes it inductive: nothing under way was asked for by a later     *)
(* click than the last one, and what a team was asked for by that click is *)
(* selected.                                                               *)
LoadsAreOfClicks ==
  /\ \A load \in loads \cup {selected} : load.nr <= request
  /\ \A load \in loads : load.of \in Teams /\ load.nr = request => load = selected

TrackedIsSelected == tracked # None => tracked = selected.of

Inv == TypeOK /\ LoadsAreOfClicks /\ TrackedIsSelected

(* Late team responses are discarded after another selection or disposal,   *)
(* as spec/feature/team-navigation.md:16-17 has it: no other is discarded.  *)
OnlyLateTeamsAreDiscarded ==
  [][\A load \in loads :
       load.of \in Teams /\ load \notin loads' /\ load = selected /\ Visible => main' = load]_vars
=============================================================================
