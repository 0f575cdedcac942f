----------------------------- MODULE OdeumRoutes -----------------------------
(***************************************************************************)
(* The hub's side of presentations (plugins/odeum/routes.ts,               *)
(* program-routes.ts, authorization.ts, permissions.ts, session-store.ts). *)
(* Sessions, admissions and programs are in SQLite and are read and        *)
(* written without an await; the event of a session is in PostgreSQL, and  *)
(* each request awaits it while admissions, sessions and programs change.  *)
(* Every test before that await is made again after it, so a request is    *)
(* its PostgreSQL read and then one step.                                  *)
(*                                                                         *)
(* Events here have no audience of roles: everyone may see them.  A        *)
(* refused request, or one whose client left, changes nothing.             *)
(***************************************************************************)
EXTENDS OdeumLedger

CONSTANTS
  Events,          \* the places that are events; the others are users
  Requests,        \* requests in progress (bounds their number)
  Projects,
  Admins,
  CreatorOf,       \* created_by of an event
  ProjectMembers

ASSUME RoutesAssumption ==
  /\ Events \subseteq Places /\ Places \subseteq Events \cup Users
  /\ Events \cap Users = {}
  /\ Admins \subseteq Users
  /\ CreatorOf \in [Events -> Users]
  /\ ProjectMembers \in [Projects -> SUBSET Users]
  /\ None \notin Projects \cup Sessions
  /\ Sessions \cap Places = {}

VARIABLES
  program,   \* glab_odeum_programs: the project of a session
  approved,  \* users admitted to GLab
  listed,    \* events that exist
  request,   \* what each request awaits, and the event it read
  issued     \* the ticket that the last step answered with

vars == <<status, place, presenter, program, approved, listed, request, issued>>

Idle == [at |-> "idle", op |-> "none", user |-> None, of |-> None,
         project |-> None, found |-> FALSE, again |-> FALSE]
NoTicket == [role |-> "none", session |-> None, user |-> None, project |-> None]

UseOps == {"end", "watch", "invite", "produce", "present"}

(* The requests on a place, and those on a session.                        *)
Starts ==
  [at : {"event", "decide"}, op : {"start"}, user : Users, of : Places,
   project : {None}, found : BOOLEAN, again : BOOLEAN]
Uses ==
  [at : {"event", "decide"}, op : UseOps, user : Users, of : Sessions,
   project : Projects \cup {None}, found : BOOLEAN, again : BOOLEAN]
Tickets ==
  [role : {"presenter", "viewer", "invitation", "producer", "source"},
   session : Sessions, user : Users, project : Projects \cup {None}]

TypeOK ==
  /\ LedgerTypeOK
  /\ program \in [Sessions -> Projects \cup {None}]
  /\ approved \subseteq Users
  /\ listed \subseteq Events
  /\ request \in [Requests -> {Idle} \cup Starts \cup Uses]
  /\ issued \in {NoTicket} \cup Tickets

Init ==
  /\ LedgerInit
  /\ program = [s \in Sessions |-> None]
  /\ approved = {}
  /\ listed = Events
  /\ request = [r \in Requests |-> Idle]
  /\ issued = NoTicket

-----------------------------------------------------------------------------
(* authorization.ts and permissions.ts, with the event a request has read  *)

Member(u) == u \in Admins \cup approved
CanStart(u, e) == u \in Admins \/ CreatorOf[e] = u
CanEnd(u, s, found) ==
  \/ u \in Admins \cup {presenter[s]}
  \/ found /\ place[s] \in Events /\ CanStart(u, place[s])

Known(s) == status[s] # "unused"
Direct(s) == place[s] \notin Events
Visible(s, found) == Direct(s) \/ found

-----------------------------------------------------------------------------
Quiet == issued' = NoTicket

(* A request begins to await the event; one without an event goes on.      *)
Ask(r, q) ==
  /\ request[r] = Idle
  /\ request' = [request EXCEPT ![r] = q]
  /\ Quiet
  /\ UNCHANGED <<status, place, presenter, program, approved, listed>>

AskStart(r, u, p) ==
  /\ p \in Events \cup {u}
  /\ Ask(r, [Idle EXCEPT !.at = IF p \in Events THEN "event" ELSE "decide",
                         !.op = "start", !.user = u, !.of = p])

AskUse(r, u, op, s, j) ==
  /\ Known(s) /\ Member(u)
  /\ (op = "produce") = (j # None)
  /\ Ask(r, [Idle EXCEPT !.at = IF Direct(s) THEN "decide" ELSE "event",
                         !.op = op, !.user = u, !.of = s, !.project = j])

EventRead(r) ==
  /\ request[r].at = "event"
  /\ LET of == request[r].of
         e == IF request[r].op = "start" THEN of ELSE place[of]
     IN request' = [request EXCEPT ![r].at = "decide", ![r].found = e \in listed]
  /\ Quiet
  /\ UNCHANGED <<status, place, presenter, program, approved, listed>>

(* Refused at any test, or the client left.                                *)
Drop(r) ==
  /\ request[r] # Idle
  /\ request' = [request EXCEPT ![r] = Idle]
  /\ Quiet
  /\ UNCHANGED <<status, place, presenter, program, approved, listed>>

Deciding(r, op) ==
  /\ request[r].at = "decide" /\ request[r].op = op
  /\ Member(request[r].user)

Done(r) == request' = [request EXCEPT ![r] = Idle]

Issue(r, role, s, project) ==
  /\ Done(r)
  /\ issued' = [role |-> role, session |-> s, user |-> request[r].user,
                project |-> project]

-----------------------------------------------------------------------------
(* POST /sessions *)

MayStart(r) ==
  LET p == request[r].of
  IN p \in Events => request[r].found /\ CanStart(request[r].user, p)

ResumeAny(r, s) ==   \* mutant: the existing session is found whatever its status
  LET p == request[r].of
      u == request[r].user
  IN \/ Live(p) = {} /\ Inserted(s, p, u)
     \/ Known(s) /\ place[s] = p /\ presenter[s] = u /\ UNCHANGED ledger

Reopen(r, s) ==   \* mutant: a session that ended is reopened
  LET p == request[r].of
      u == request[r].user
  IN \/ Live(p) = {} /\ Inserted(s, p, u)
     \/ s \in Live(p) /\ presenter[s] = u /\ UNCHANGED ledger
     \/ /\ Live(p) = {} /\ status[s] = "ended"
        /\ place[s] = p /\ presenter[s] = u
        /\ status' = [status EXCEPT ![s] = "live"] /\ UNCHANGED <<place, presenter>>

(* startOdeumSession, startDirectSession: a live session of another user   *)
(* at the place is a conflict, and Drop.                                   *)
BeginOrResume(r, s) ==
  LET p == request[r].of
      u == request[r].user
  IN \/ Live(p) = {} /\ Inserted(s, p, u)
     \/ s \in Live(p) /\ presenter[s] = u /\ UNCHANGED ledger

Start(r) ==
  /\ Deciding(r, "start") /\ MayStart(r)
  /\ \E s \in Sessions :
       /\ BeginOrResume(r, s)
       /\ IF program[s] = None THEN Issue(r, "presenter", s, None)
          ELSE Done(r) /\ Quiet
  /\ UNCHANGED <<program, approved, listed>>

(* mode "program": the session of an event without a presenter's ticket.   *)
Prepare(r) ==
  /\ Deciding(r, "start") /\ MayStart(r) /\ request[r].of \in Events
  /\ \E s \in Sessions : BeginOrResume(r, s)
  /\ Done(r)
  /\ Quiet
  /\ UNCHANGED <<program, approved, listed>>

(* POST /sessions/:id/end *)
End(r) ==
  /\ Deciding(r, "end")
  /\ CanEnd(request[r].user, request[r].of, request[r].found)
  /\ Ended(request[r].of)
  /\ Done(r)
  /\ Quiet
  /\ UNCHANGED <<program, approved, listed>>

(* POST /sessions/:id/viewer-ticket *)
WatchUnread(r) ==   \* mutant: the session is not read again after the await
  /\ Deciding(r, "watch")
  /\ Visible(request[r].of, request[r].found)
  /\ Issue(r, "viewer", request[r].of, None)
  /\ UNCHANGED <<status, place, presenter, program, approved, listed>>

Watch(r) ==
  /\ Deciding(r, "watch")
  /\ status[request[r].of] = "live" /\ Visible(request[r].of, request[r].found)
  /\ Issue(r, "viewer", request[r].of, None)
  /\ UNCHANGED <<status, place, presenter, program, approved, listed>>

(* GET /sessions/:id/invitation: everything is asked again after the QR    *)
(* code was drawn.                                                         *)
Invite(r) ==
  /\ Deciding(r, "invite")
  /\ status[request[r].of] = "live" /\ ~Direct(request[r].of)
  /\ request[r].found /\ CanEnd(request[r].user, request[r].of, TRUE)
  /\ IF request[r].again THEN Issue(r, "invitation", request[r].of, None)
     ELSE /\ request' = [request EXCEPT ![r].at = "event", ![r].again = TRUE]
          /\ Quiet
  /\ UNCHANGED <<status, place, presenter, program, approved, listed>>

-----------------------------------------------------------------------------
(* POST /sessions/:id/program-ticket *)

ProgramOpen(r) ==
  status[request[r].of] = "live" /\ ~Direct(request[r].of) /\ request[r].found

BindOver(s, project) ==   \* mutant: INSERT OR REPLACE
  program' = [program EXCEPT ![s] = project]

(* INSERT OR IGNORE, then the project that is bound is compared.           *)
Bind(s, project) ==
  /\ program[s] \in {None, project}
  /\ program' = [program EXCEPT ![s] = project]

Produce(r) ==
  /\ Deciding(r, "produce") /\ ProgramOpen(r)
  /\ CanEnd(request[r].user, request[r].of, TRUE)
  /\ Bind(request[r].of, request[r].project)
  /\ Issue(r, "producer", request[r].of, request[r].project)
  /\ UNCHANGED <<status, place, presenter, approved, listed>>

Present(r) ==
  /\ Deciding(r, "present") /\ ProgramOpen(r)
  /\ LET s == request[r].of
         u == request[r].user
     IN /\ program[s] # None
        /\ CanEnd(u, s, TRUE) \/ u \in ProjectMembers[program[s]]
        /\ Issue(r, "source", s, program[s])
  /\ UNCHANGED <<status, place, presenter, program, approved, listed>>

-----------------------------------------------------------------------------
(* Admissions are given and taken, and events deleted, at any time; that   *)
(* of an administrator makes no difference.                                *)
Admission(u) ==
  /\ u \notin Admins
  /\ approved' = IF u \in approved THEN approved \ {u} ELSE approved \cup {u}
  /\ Quiet
  /\ UNCHANGED <<status, place, presenter, program, listed, request>>

EventDeleted(e) ==
  /\ listed' = listed \ {e} /\ e \in listed
  /\ Quiet
  /\ UNCHANGED <<status, place, presenter, program, approved, request>>

Next ==
  \/ \E r \in Requests :
       \/ \E u \in Users, p \in Places : AskStart(r, u, p)
       \/ \E u \in Users, op \in UseOps, s \in Sessions,
             j \in Projects \cup {None} : AskUse(r, u, op, s, j)
       \/ EventRead(r) \/ Drop(r)
       \/ Start(r) \/ Prepare(r) \/ End(r) \/ Watch(r) \/ Invite(r)
       \/ Produce(r) \/ Present(r)
  \/ \E u \in Users : Admission(u)
  \/ \E e \in Events : EventDeleted(e)

Spec == Init /\ [][Next]_vars

-----------------------------------------------------------------------------
(* A ticket is issued for a session that is live, to a user who is a       *)
(* member, at that moment and not when the request came: whatever was      *)
(* withdrawn during its awaits counts.                                     *)
TicketsAreCurrent ==
  [][issued' # NoTicket =>
       status'[issued'.session] = "live" /\ Member(issued'.user)]_vars

(* The project of a program never changes, whoever asked and however their *)
(* requests crossed, and every link into the program names it.             *)
OneProjectPerProgram ==
  [][/\ \A s \in Sessions : program[s] # None => program'[s] = program[s]
     /\ issued'.role \in {"producer", "source"} =>
          program'[issued'.session] = issued'.project]_vars
=============================================================================
