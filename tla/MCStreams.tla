------------------------------ MODULE MCStreams ------------------------------
(* Life cycles with timers and late answers that share no state, each      *)
(* explored on its own: `part' says which.                                 *)
(* client: two callers and three sockets: a superseded socket, a current   *)
(*   one and its successor exist at once.                                  *)
(* roomy: starts of voice calls by some users; in the run two starts by    *)
(*   any of two users, so that one user can be in both, two audio frames   *)
(*   per call, one buffered event, room for two calls.                     *)
(* full: the same with less room; in the run for one.                      *)
(* page: two presentations of one page, one after the other, so that late  *)
(*   answers of the first meet the second.                                 *)
(* shell: in the run two tabs, one of them declarative, two teams, three   *)
(*   clicks.                                                               *)
EXTENDS CernereClient, TLC

CONSTANTS
  Users, Ids, Capacity, LessCapacity, MaxPending, MaxSeq,   \* of TrCalls
  Tabs, Declarative, Teams, MaxClicks,                      \* of Shell
  a1, a2, g1, u1, p1, e1

VARIABLES part,
  at, user, aborted, voice, posts, session, told,
  status, place, presenter, attempt, relay, operator, gone,
  app, request, selected, main, loads, tracked

Roomy == INSTANCE TrCalls WITH call <- voice
Full == INSTANCE TrCalls WITH call <- voice, Capacity <- LessCapacity

Page == INSTANCE OdeumScreen WITH
  Attempts <- {a1, a2}, Pages <- {g1}, Users <- {u1}, Places <- {e1}, Sessions <- {p1},
  PageOf <- (a1 :> g1) @@ (a2 :> g1), UserOf <- (g1 :> u1)

Shell == INSTANCE Shell

ASSUME RoomsAssumption == Roomy!TrAssumption /\ Full!TrAssumption /\ LessCapacity <= Capacity
ASSUME ShellAssumption == Shell!ShellAssumption
ASSUME PageAssumption == Page!ScreenAssumption

clientVars == vars
callVars == <<at, user, aborted, voice, posts, session, told>>
pageVars == <<status, place, presenter, attempt, relay, operator, gone>>
shellVars == <<app, request, selected, main, loads, tracked>>
streamVars == <<part, clientVars, callVars, pageVars, shellVars>>

StreamsInit ==
  /\ part \in {"client", "roomy", "full", "page", "shell"}
  /\ Init /\ Roomy!Init /\ Page!Init /\ Shell!Init

StreamsNext ==
  /\ UNCHANGED part
  /\ \/ part = "client" /\ Next
     \/ part # "client" /\ UNCHANGED clientVars
  /\ \/ part = "roomy" /\ Roomy!Next
     \/ part = "full" /\ Full!Next
     \/ part \notin {"roomy", "full"} /\ UNCHANGED callVars
  /\ \/ part = "page" /\ Page!Next
     \/ part # "page" /\ UNCHANGED pageVars
  /\ \/ part = "shell" /\ Shell!Next
     \/ part # "shell" /\ UNCHANGED shellVars

(* The fairness of CernereClient, TrCalls and OdeumScreen, each in its     *)
(* parts.                                                                  *)
CallFairness ==
  \A i \in Ids :
    /\ WF_callVars(part \in {"roomy", "full"} /\ Roomy!SessionRefused(i))
    /\ WF_callVars(part \in {"roomy", "full"} /\ Roomy!MaterialAnswer(i))
    /\ WF_callVars(part \in {"roomy", "full"} /\ Roomy!TicketRefused(i))
    /\ WF_callVars(part \in {"roomy", "full"} /\ Roomy!SetupRejected(i))
    /\ WF_callVars(part \in {"roomy", "full"} /\ Roomy!Cleanup(i))
    /\ WF_callVars(part \in {"roomy", "full"} /\ Roomy!TimerFires(i))

PageFairness ==
  \A a \in {a1, a2} :
    /\ WF_pageVars(part = "page" /\ Page!Ticket(a))
    /\ WF_pageVars(part = "page" /\ Page!Deadline(a))
    /\ WF_pageVars(part = "page" /\ (Page!EndServed(a) \/ Page!EndFails(a)))
    /\ WF_pageVars(part = "page" /\ Page!EndAnswered(a))

StreamsSpec ==
  StreamsInit /\ [][StreamsNext]_streamVars /\ Fairness /\ CallFairness /\ PageFairness

(* A user has one call, and the Hub no more than its capacity, also when   *)
(* that is one.                                                            *)
OneCallPerUserInEachRoom ==
  Roomy!OneCallPerUser /\ (part = "full" => Full!OneCallPerUser)

(* A page captures for one presentation at a time, and each one comes to   *)
(* its end.                                                                *)
PagePresentsInTurn == []Page!OneCapturePerPage /\ Page!PresentationsSettle

(* The properties of the calls and of the shell, stated in their modules.  *)
AudioIsOfTheCall == Roomy!AudioIsOfTheCall
CallsAreReleased == Roomy!CallsAreReleased
LateTeamsAreDiscarded == Shell!LateTeamsAreDiscarded
=============================================================================
