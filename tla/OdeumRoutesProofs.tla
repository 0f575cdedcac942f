-------------------------- MODULE OdeumRoutesProofs --------------------------
(* The routes keep the ledger's promise (LedgerSpec), and from that        *)
(* promise alone a place has at most one live session.  What is issued is  *)
(* a property of each step.                                                *)
EXTENDS OdeumRoutes, TLAPS

-----------------------------------------------------------------------------
(* The ledger *)

LEMMA LedgerTyped == LedgerSpec => []LedgerTypeOK
<1>1. LedgerInit => LedgerTypeOK
  BY DEF LedgerInit, LedgerTypeOK
<1>2. LedgerTypeOK /\ [LedgerNext]_ledger => LedgerTypeOK'
  BY DEF LedgerTypeOK, LedgerNext, ledger, Begun, Inserted, Ended
<1> QED BY <1>1, <1>2, PTL DEF LedgerSpec

(* A place has at most one live session, whatever is asked of the ledger   *)
(* (the lookups of session-store.ts).                                      *)
THEOREM LedgerIsExclusive == LedgerSpec => []OneLivePerPlace
<1>1. LedgerInit => OneLivePerPlace
  BY DEF LedgerInit, OneLivePerPlace
<1>2. LedgerTypeOK /\ OneLivePerPlace /\ [LedgerNext]_ledger => OneLivePerPlace'
  <2> SUFFICES ASSUME LedgerTypeOK, OneLivePerPlace, [LedgerNext]_ledger
               PROVE  OneLivePerPlace'
    OBVIOUS
  <2>1. CASE UNCHANGED ledger
    BY <2>1 DEF ledger, OneLivePerPlace
  <2>2. ASSUME NEW n \in Sessions, NEW p \in Places, NEW u \in Users, Begun(n, p, u)
        PROVE  OneLivePerPlace'
    BY <2>2 DEF Begun, Inserted, Live, LedgerTypeOK, OneLivePerPlace
  <2>3. ASSUME NEW n \in Sessions, Ended(n)
        PROVE  OneLivePerPlace'
    BY <2>3 DEF Ended, LedgerTypeOK, OneLivePerPlace
  <2> QED BY <2>1, <2>2, <2>3 DEF LedgerNext
<1> QED BY <1>1, <1>2, LedgerTyped, PTL DEF LedgerSpec

-----------------------------------------------------------------------------
(* The routes *)

(* What a waiting request may become.                                      *)
LEMMA RequestRead ==
  ASSUME NEW q \in Starts \cup Uses, NEW x, NEW S
  PROVE  [q EXCEPT !.at = "decide", !.found = x \in S] \in Starts \cup Uses
<1>1. \A b \in BOOLEAN : [q EXCEPT !.at = "decide", !.found = b] \in Starts \cup Uses
  BY DEF Starts, Uses
<1>2. CASE x \in S
  <2>1. (x \in S) = TRUE
    BY <1>2
  <2> QED BY <1>1, <2>1
<1>3. CASE x \notin S
  <2>1. (x \in S) = FALSE
    BY <1>3
  <2> QED BY <1>1, <2>1
<1> QED BY <1>2, <1>3

LEMMA RequestAgain ==
  ASSUME NEW q \in Starts \cup Uses
  PROVE  [q EXCEPT !.at = "event", !.again = TRUE] \in Starts \cup Uses
BY DEF Starts, Uses

(* A request past its await is not Idle; its operation tells its target.   *)
LEMMA Decided ==
  ASSUME TypeOK, NEW r \in Requests, NEW op, Deciding(r, op)
  PROVE  /\ request[r].user \in Users
         /\ op = "start" => request[r].of \in Places
         /\ op \in UseOps => request[r].of \in Sessions
         /\ request[r].project \in Projects \cup {None}
         /\ request[r] \in Starts \cup Uses
<1>1. request[r] \in Starts \cup Uses
  BY DEF TypeOK, Deciding, Idle
<1> QED BY <1>1 DEF Deciding, Starts, Uses, UseOps

LEMMA IssueTyped ==
  ASSUME TypeOK, NEW r \in Requests, NEW s \in Sessions,
         NEW role \in {"presenter", "viewer", "invitation", "producer", "source"},
         NEW j \in Projects \cup {None},
         request[r].user \in Users, Issue(r, role, s, j)
  PROVE  /\ request' \in [Requests -> {Idle} \cup Starts \cup Uses]
         /\ issued' \in {NoTicket} \cup Tickets
BY DEF TypeOK, Issue, Done, Tickets

LEMMA BeginTyped ==
  ASSUME TypeOK, NEW r \in Requests, NEW s \in Sessions,
         Deciding(r, "start"), BeginOrResume(r, s)
  PROVE  LedgerTypeOK' /\ [LedgerNext]_ledger
<1>1. request[r].of \in Places /\ request[r].user \in Users
  BY Decided
<1>2. CASE UNCHANGED ledger
  BY <1>2 DEF ledger, TypeOK, LedgerTypeOK
<1>3. CASE Begun(s, request[r].of, request[r].user)
  BY <1>1, <1>3 DEF Begun, Inserted, TypeOK, LedgerTypeOK, LedgerNext
<1> QED BY <1>2, <1>3 DEF BeginOrResume, Begun

(* The hub's tables and its requests keep their types, and each step is a  *)
(* step of the ledger or none.                                             *)
LEMMA RoutesStep ==
  ASSUME TypeOK, [Next]_vars
  PROVE  TypeOK' /\ [LedgerNext]_ledger
<1>1. CASE UNCHANGED vars
  BY <1>1 DEF vars, ledger, TypeOK, LedgerTypeOK
<1>2. ASSUME NEW r \in Requests, NEW u \in Users, NEW p \in Places, AskStart(r, u, p)
      PROVE  TypeOK' /\ [LedgerNext]_ledger
  <2> DEFINE at == IF p \in Events THEN "event" ELSE "decide"
             q == [Idle EXCEPT !.at = at, !.op = "start", !.user = u, !.of = p]
  <2>1. at \in {"event", "decide"}
    OBVIOUS
  <2>2. Ask(r, q)
    BY <1>2 DEF AskStart
  <2> HIDE DEF at
  <2>3. q \in Starts
    BY <2>1 DEF Starts, Idle
  <2> HIDE DEF q
  <2> QED BY <2>2, <2>3 DEF Ask, Quiet, ledger, TypeOK, LedgerTypeOK
<1>3. ASSUME NEW r \in Requests, NEW u \in Users, NEW op \in UseOps,
             NEW s \in Sessions, NEW j \in Projects \cup {None},
             AskUse(r, u, op, s, j)
      PROVE  TypeOK' /\ [LedgerNext]_ledger
  <2> DEFINE at == IF Direct(s) THEN "decide" ELSE "event"
             q == [Idle EXCEPT !.at = at, !.op = op, !.user = u, !.of = s,
                               !.project = j]
  <2>1. at \in {"event", "decide"}
    OBVIOUS
  <2>2. Ask(r, q)
    BY <1>3 DEF AskUse
  <2> HIDE DEF at
  <2>3. q \in Uses
    BY <2>1 DEF Uses, Idle
  <2> HIDE DEF q
  <2> QED BY <2>2, <2>3 DEF Ask, Quiet, ledger, TypeOK, LedgerTypeOK
<1>4. ASSUME NEW r \in Requests, EventRead(r)
      PROVE  TypeOK' /\ [LedgerNext]_ledger
  <2>1. request[r] \in Starts \cup Uses
    BY <1>4 DEF EventRead, TypeOK, Idle
  <2> DEFINE of == request[r].of
             e == IF request[r].op = "start" THEN of ELSE place[of]
             read == [request[r] EXCEPT !.at = "decide", !.found = e \in listed]
  <2>2. request' = [request EXCEPT ![r] = read]
    BY <1>4 DEF EventRead, TypeOK
  <2>3. read \in Starts \cup Uses
    BY <2>1, RequestRead
  <2> HIDE DEF read
  <2>4. request' \in [Requests -> {Idle} \cup Starts \cup Uses]
    BY <2>2, <2>3 DEF TypeOK
  <2> QED BY <1>4, <2>4 DEF EventRead, Quiet, ledger, TypeOK, LedgerTypeOK
<1>5. ASSUME NEW r \in Requests, Drop(r)
      PROVE  TypeOK' /\ [LedgerNext]_ledger
  BY <1>5 DEF Drop, Quiet, ledger, TypeOK, LedgerTypeOK
<1>6. ASSUME NEW r \in Requests, Start(r)
      PROVE  TypeOK' /\ [LedgerNext]_ledger
  <2>1. PICK s \in Sessions :
          /\ BeginOrResume(r, s)
          /\ IF program[s] = None THEN Issue(r, "presenter", s, None)
             ELSE Done(r) /\ Quiet
    BY <1>6 DEF Start
  <2>2. request[r].user \in Users
    BY <1>6, Decided DEF Start
  <2>3. /\ request' \in [Requests -> {Idle} \cup Starts \cup Uses]
        /\ issued' \in {NoTicket} \cup Tickets
    BY <2>1, <2>2, IssueTyped DEF Done, Quiet, TypeOK
  <2> QED BY <1>6, <2>1, <2>3, BeginTyped DEF Start, TypeOK
<1>7. ASSUME NEW r \in Requests, Prepare(r)
      PROVE  TypeOK' /\ [LedgerNext]_ledger
  BY <1>7, BeginTyped DEF Prepare, Done, Quiet, TypeOK
<1>8. ASSUME NEW r \in Requests, End(r)
      PROVE  TypeOK' /\ [LedgerNext]_ledger
  <2>1. request[r].of \in Sessions
    BY <1>8, Decided DEF End, UseOps
  <2> QED BY <1>8, <2>1 DEF End, Ended, Done, Quiet, LedgerNext, ledger, TypeOK, LedgerTypeOK
<1>9. ASSUME NEW r \in Requests, Watch(r)
      PROVE  TypeOK' /\ [LedgerNext]_ledger
  BY <1>9, Decided, IssueTyped DEF Watch, UseOps, ledger, TypeOK, LedgerTypeOK
<1>10. ASSUME NEW r \in Requests, Invite(r)
       PROVE  TypeOK' /\ [LedgerNext]_ledger
  <2>1. /\ request[r].of \in Sessions /\ request[r].user \in Users
        /\ request[r] \in Starts \cup Uses
    BY <1>10, Decided DEF Invite, UseOps
  <2>2. CASE request[r].again
    BY <1>10, <2>1, <2>2, IssueTyped DEF Invite, ledger, TypeOK, LedgerTypeOK
  <2>3. CASE ~request[r].again
    BY <1>10, <2>1, <2>3, RequestAgain DEF Invite, Quiet, ledger, TypeOK, LedgerTypeOK
  <2> QED BY <2>2, <2>3
<1>11. ASSUME NEW r \in Requests, Produce(r)
       PROVE  TypeOK' /\ [LedgerNext]_ledger
  <2>1. /\ request[r].of \in Sessions /\ request[r].user \in Users
        /\ request[r].project \in Projects \cup {None}
    BY <1>11, Decided DEF Produce, UseOps
  <2>2. /\ request' \in [Requests -> {Idle} \cup Starts \cup Uses]
        /\ issued' \in {NoTicket} \cup Tickets
    BY <1>11, <2>1, IssueTyped DEF Produce
  <2> QED BY <1>11, <2>1, <2>2 DEF Produce, Bind, ledger, TypeOK, LedgerTypeOK
<1>12. ASSUME NEW r \in Requests, Present(r)
       PROVE  TypeOK' /\ [LedgerNext]_ledger
  <2>1. request[r].of \in Sessions /\ request[r].user \in Users
    BY <1>12, Decided DEF Present, UseOps
  <2>2. Issue(r, "source", request[r].of, program[request[r].of])
    BY <1>12 DEF Present
  <2>3. program[request[r].of] \in Projects \cup {None}
    BY <2>1 DEF TypeOK
  <2>4. /\ request' \in [Requests -> {Idle} \cup Starts \cup Uses]
        /\ issued' \in {NoTicket} \cup Tickets
    BY <2>1, <2>2, <2>3, IssueTyped
  <2> QED BY <1>12, <2>4 DEF Present, ledger, TypeOK, LedgerTypeOK
<1>13. ASSUME NEW u \in Users, Admission(u)
       PROVE  TypeOK' /\ [LedgerNext]_ledger
  BY <1>13 DEF Admission, Quiet, ledger, TypeOK, LedgerTypeOK
<1>14. ASSUME NEW e \in Events, EventDeleted(e)
       PROVE  TypeOK' /\ [LedgerNext]_ledger
  BY <1>14 DEF EventDeleted, Quiet, ledger, TypeOK, LedgerTypeOK
<1> QED
  BY <1>1, <1>2, <1>3, <1>4, <1>5, <1>6, <1>7, <1>8, <1>9, <1>10, <1>11, <1>12, <1>13, <1>14
  DEF Next

LEMMA RoutesInit == Init => TypeOK /\ LedgerInit
BY DEF Init, TypeOK, LedgerInit, LedgerTypeOK

(* The tables, the requests and the tickets of the routes are well formed. *)
THEOREM RoutesTyped == Spec => []TypeOK
BY RoutesInit, RoutesStep, PTL DEF Spec

(* The hub keeps what the ledger promises: a session begins, ends once and *)
(* does not come back (the routes over session-store.ts).                  *)
THEOREM RoutesKeepLedger == Spec => LedgerSpec
<1>1. TypeOK /\ [Next]_vars => [LedgerNext]_ledger
  BY RoutesStep
<1> QED BY <1>1, RoutesInit, RoutesTyped, PTL DEF Spec, LedgerSpec

(* A place has at most one live session, whoever starts one and whatever   *)
(* crosses the awaits (POST /sessions).                                    *)
THEOREM OneLive == Spec => []OneLivePerPlace
BY RoutesKeepLedger, LedgerIsExclusive, PTL

(* No ticket outlives, in the making, the session or the admission it is   *)
(* for (the tests after each await of routes.ts and program-routes.ts).    *)
THEOREM TicketsCurrent == Spec => TicketsAreCurrent
<1>1. ASSUME TypeOK, [Next]_vars, issued' # NoTicket, vars' # vars
      PROVE  status'[issued'.session] = "live" /\ Member(issued'.user)
  <2>1. PICK r \in Requests : Start(r) \/ Watch(r) \/ Invite(r) \/ Produce(r) \/ Present(r)
    BY <1>1 DEF Next, AskStart, AskUse, Ask, EventRead, Drop, Prepare, End, Admission,
                EventDeleted, Quiet
  <2>2. CASE Start(r)
    <3>1. PICK s \in Sessions : BeginOrResume(r, s) /\ Issue(r, "presenter", s, None)
      BY <1>1, <2>2 DEF Start, Quiet
    <3>2. status'[s] = "live"
      BY <1>1, <3>1 DEF BeginOrResume, Begun, Inserted, Live, ledger, TypeOK, LedgerTypeOK
    <3> QED BY <2>2, <3>1, <3>2 DEF Start, Deciding, Issue
  <2>3. CASE Watch(r)
    BY <2>3 DEF Watch, Deciding, Issue
  <2>4. CASE Invite(r)
    BY <1>1, <2>4 DEF Invite, Deciding, Issue, Quiet
  <2>5. CASE Produce(r)
    BY <2>5 DEF Produce, ProgramOpen, Deciding, Issue
  <2>6. CASE Present(r)
    BY <2>6 DEF Present, ProgramOpen, Deciding, Issue
  <2> QED BY <2>1, <2>2, <2>3, <2>4, <2>5, <2>6
<1>2. TypeOK /\ [Next]_vars =>
        [issued' # NoTicket => status'[issued'.session] = "live" /\ Member(issued'.user)]_vars
  BY <1>1
<1> QED BY <1>2, RoutesTyped, PTL DEF Spec, TicketsAreCurrent

(* A program keeps its project, and every link into it names that project  *)
(* (the insert-once binding of program-routes.ts).                         *)
THEOREM ProgramKeepsProject == Spec => OneProjectPerProgram
<1> DEFINE Kept ==
      /\ \A s \in Sessions : program[s] # None => program'[s] = program[s]
      /\ issued'.role \in {"producer", "source"} =>
           program'[issued'.session] = issued'.project
<1>1. ASSUME TypeOK, Next PROVE Kept
  <2>1. CASE UNCHANGED program /\ issued' = NoTicket
    BY <2>1 DEF NoTicket
  <2>2. ASSUME NEW r \in Requests, Start(r) \/ Watch(r) \/ Invite(r) PROVE Kept
    <3>1. UNCHANGED program
      BY <2>2 DEF Start, Watch, Invite
    <3>2. issued'.role \in {"presenter", "viewer", "invitation", "none"}
      <4>1. CASE Start(r)
        BY <4>1 DEF Start, Issue, Quiet, NoTicket
      <4>2. CASE Watch(r)
        BY <4>2 DEF Watch, Issue
      <4>3. CASE Invite(r)
        BY <4>3 DEF Invite, Issue, Quiet, NoTicket
      <4> QED BY <2>2, <4>1, <4>2, <4>3
    <3> QED BY <3>1, <3>2
  <2>3. ASSUME NEW r \in Requests, Produce(r) PROVE Kept
    <3>1. request[r].of \in Sessions
      BY <1>1, <2>3, Decided DEF Produce, UseOps
    <3> QED BY <1>1, <2>3, <3>1 DEF Produce, Bind, Issue, TypeOK
  <2>4. ASSUME NEW r \in Requests, Present(r) PROVE Kept
    BY <2>4 DEF Present, Issue
  <2> QED
    BY <1>1, <2>1, <2>2, <2>3, <2>4
    DEF Next, AskStart, AskUse, Ask, EventRead, Drop, Prepare, End, Admission, EventDeleted,
        Quiet
<1>2. TypeOK /\ [Next]_vars => [Kept]_vars
  BY <1>1
<1> QED BY <1>2, RoutesTyped, PTL DEF Spec, OneProjectPerProgram
=============================================================================
