----------------------------- MODULE OdeumScreen -----------------------------
(***************************************************************************)
(* Presenting a screen from a browser (plugins/odeum/presenter-ui.ts and   *)
(* presenter-connection.ts).  An attempt is one run of                     *)
(* startScreenPresentation: the capture picker, POST /sessions, the        *)
(* connection to the relay, and at the end one POST .../end.  Attempts of  *)
(* one page follow each other, but what an earlier one awaits outlives its *)
(* box; attempts of other pages run beside it.                             *)
(*                                                                         *)
(* The ledger is seen through its two requests, which the hub decides in   *)
(* one step (OdeumRoutes).  External: the picker, the network, and the     *)
(* relay, which has one presenter per session, knows only tickets and may  *)
(* lose a presenter before that presenter's page knows.                    *)
(***************************************************************************)
EXTENDS OdeumLedger

CONSTANTS
  Attempts,
  Pages,
  PageOf,    \* the page of an attempt
  UserOf     \* the user of a page

ASSUME ScreenAssumption ==
  /\ None \notin Sessions \cup Attempts
  /\ PageOf \in [Attempts -> Pages]
  /\ UserOf \in [Pages -> Users]

VARIABLES
  attempt,   \* the closure of startScreenPresentation, and its two requests
  relay,     \* the attempt in the presenter's seat of a session
  operator,  \* the POST .../end of a list of sessions in a page, one at a time
  gone       \* pages that were unloaded

vars == <<status, place, presenter, attempt, relay, operator, gone>>

(* post: POST /sessions, from "sent" to "done"; reply: the session it      *)
(* answered with.  end: POST .../end of this attempt.                      *)
NoAttempt ==
  [root |-> "none", closed |-> FALSE, capture |-> "none", post |-> "none",
   reply |-> None, resumed |-> FALSE, ticket |-> None, conn |-> "none",
   connected |-> FALSE, ending |-> FALSE, end |-> "none", warned |-> FALSE]

NoOperator == [end |-> "none", page |-> None, session |-> None]

Open == {"joining", "joined", "connected"}   \* states of a connection not closed
Here(a) == PageOf[a] \notin gone
User(a) == UserOf[PageOf[a]]

Closures ==
  [root : {"none", "shown", "removed"}, closed : BOOLEAN,
   capture : {"none", "asked", "on", "stopped"},
   post : {"none", "sent", "answered", "refused", "done"},
   reply : Sessions \cup {None}, resumed : BOOLEAN, ticket : Sessions \cup {None},
   conn : {"none", "closed"} \cup Open, connected : BOOLEAN,
   ending : BOOLEAN, end : {"none", "sent", "ok", "failed", "done"},
   warned : BOOLEAN]

TypeOK ==
  /\ LedgerTypeOK
  /\ attempt \in [Attempts -> Closures]
  /\ relay \in [Sessions -> Attempts \cup {None}]
  /\ operator \in {NoOperator} \cup
       [end : {"sent", "ok"}, page : Pages, session : Sessions]
  /\ gone \subseteq Pages

Init ==
  /\ LedgerInit
  /\ attempt = [a \in Attempts |-> NoAttempt]
  /\ relay = [s \in Sessions |-> None]
  /\ operator = NoOperator
  /\ gone = {}

Became(a, r) == attempt' = [attempt EXCEPT ![a] = r]

-----------------------------------------------------------------------------
(* endLedger *)

EndLedgerAlways(r) ==   \* mutant: a resumed session is ended as well
  IF r.ticket = None \/ r.ending THEN r
  ELSE [r EXCEPT !.ending = TRUE, !.end = "sent"]

EndLedger(r) ==
  IF r.ticket = None \/ r.ending \/ (r.resumed /\ ~r.connected) THEN r
  ELSE [r EXCEPT !.ending = TRUE, !.end = "sent"]

(* halt: the connection is closed and the tracks are stopped.              *)
Halted(r) ==
  [r EXCEPT !.closed = TRUE,
            !.conn = IF @ = "none" THEN "none" ELSE "closed",
            !.capture = IF @ = "on" THEN "stopped" ELSE @]

Finish(r) == EndLedger(Halted(r))

-----------------------------------------------------------------------------
(* The box of an attempt, and its picker *)

Click(a) ==
  /\ attempt[a].root = "none" /\ Here(a)
  /\ \A b \in Attempts : PageOf[b] = PageOf[a] => attempt[b].root # "shown"
  /\ Became(a, [NoAttempt EXCEPT !.root = "shown", !.capture = "asked"])
  /\ UNCHANGED <<status, place, presenter, relay, operator, gone>>

PickedLate(a) ==   \* mutant: a picker that answers after the end goes on
  /\ attempt[a].capture = "asked" /\ Here(a)
  /\ Became(a, [attempt[a] EXCEPT !.capture = "on", !.post = "sent"])
  /\ UNCHANGED <<status, place, presenter, relay, operator, gone>>

Picked(a) ==
  /\ attempt[a].capture = "asked" /\ Here(a)
  /\ Became(a, IF attempt[a].closed THEN [attempt[a] EXCEPT !.capture = "stopped"]
               ELSE [attempt[a] EXCEPT !.capture = "on", !.post = "sent"])
  /\ UNCHANGED <<status, place, presenter, relay, operator, gone>>

PickerCancelled(a) ==
  /\ attempt[a].capture = "asked" /\ Here(a)
  /\ LET r == [attempt[a] EXCEPT !.capture = "stopped"]
     IN Became(a, IF r.closed THEN r ELSE Finish(r))
  /\ UNCHANGED <<status, place, presenter, relay, operator, gone>>

Stop(a) ==
  /\ attempt[a].root = "shown" /\ Here(a)
  /\ Became(a, IF attempt[a].closed THEN [attempt[a] EXCEPT !.root = "removed"]
               ELSE Finish(attempt[a]))
  /\ UNCHANGED <<status, place, presenter, relay, operator, gone>>

(* The end of the capture from the browser's own control: `ended' of the   *)
(* track, heard by the box and by the connection.                          *)
CaptureEnded(a) ==
  /\ attempt[a].capture = "on" /\ Here(a)
  /\ Became(a, Finish(attempt[a]))
  /\ UNCHANGED <<status, place, presenter, relay, operator, gone>>

(* pagehide: the page is unloaded, or kept by the browser and shown again. *)
PageHide(g) ==
  /\ g \notin gone
  /\ attempt' = [a \in Attempts |->
       IF PageOf[a] = g /\ attempt[a].root = "shown" /\ ~attempt[a].closed
       THEN Finish(attempt[a]) ELSE attempt[a]]
  /\ gone' \in {gone, gone \cup {g}}
  /\ UNCHANGED <<status, place, presenter, relay, operator>>

-----------------------------------------------------------------------------
(* POST /sessions *)

Begin(a, p) ==
  /\ attempt[a].post = "sent"
  /\ \E s \in Sessions :
       /\ Begun(s, p, User(a))
       /\ Became(a, [attempt[a] EXCEPT !.post = "answered", !.reply = s])
  /\ UNCHANGED <<relay, operator, gone>>

Resume(a, s) ==
  /\ attempt[a].post = "sent"
  /\ status[s] = "live" /\ presenter[s] = User(a)
  /\ Became(a, [attempt[a] EXCEPT !.post = "answered", !.reply = s,
                                  !.resumed = TRUE])
  /\ UNCHANGED <<status, place, presenter, relay, operator, gone>>

(* A conflict with another presenter, any other refusal, or a lost request *)
(* or answer: the session may have begun.                                  *)
PostFails(a) ==
  /\ attempt[a].post \in {"sent", "answered"}
  /\ Became(a, [attempt[a] EXCEPT !.post = "refused", !.reply = None])
  /\ UNCHANGED <<status, place, presenter, relay, operator, gone>>

Received(a) ==
  [attempt[a] EXCEPT !.post = "done", !.reply = None,
                     !.ticket = attempt[a].reply]

TicketUsed(a) ==   \* mutant: a ticket that comes after the end is used
  /\ attempt[a].post = "answered" /\ Here(a)
  /\ Became(a, [Received(a) EXCEPT !.conn = "joining"])
  /\ UNCHANGED <<status, place, presenter, relay, operator, gone>>

TicketLeft(a) ==   \* mutant: a ticket that comes after the end is forgotten
  /\ attempt[a].post = "answered" /\ Here(a)
  /\ Became(a, IF attempt[a].closed THEN Received(a)
               ELSE [Received(a) EXCEPT !.conn = "joining"])
  /\ UNCHANGED <<status, place, presenter, relay, operator, gone>>

Ticket(a) ==
  /\ attempt[a].post = "answered" /\ Here(a)
  /\ Became(a, IF attempt[a].closed THEN EndLedger(Received(a))
               ELSE [Received(a) EXCEPT !.conn = "joining"])
  /\ UNCHANGED <<status, place, presenter, relay, operator, gone>>

NoTicket(a) ==
  /\ attempt[a].post = "refused" /\ Here(a)
  /\ LET r == [attempt[a] EXCEPT !.post = "done"]
     IN Became(a, IF r.closed THEN r ELSE Finish(r))
  /\ UNCHANGED <<status, place, presenter, relay, operator, gone>>

-----------------------------------------------------------------------------
(* OdeumPresenterConnection, and the relay *)

Welcomed(a) ==
  /\ attempt[a].conn = "joining" /\ Here(a)
  /\ relay[attempt[a].ticket] = None
  /\ relay' = [relay EXCEPT ![attempt[a].ticket] = a]
  /\ Became(a, [attempt[a] EXCEPT !.conn = "joined"])
  /\ UNCHANGED <<status, place, presenter, operator, gone>>

PeerConnected(a) ==
  /\ attempt[a].conn = "joined" /\ Here(a)
  /\ relay[attempt[a].ticket] = a
  /\ Became(a, [attempt[a] EXCEPT !.conn = "connected", !.connected = TRUE])
  /\ UNCHANGED <<status, place, presenter, relay, operator, gone>>

(* An `error' message (presenter_exists among them), a message out of      *)
(* order, the socket's or the peer's failure.                              *)
ConnectionFails(a) ==
  /\ attempt[a].conn \in Open /\ Here(a)
  /\ Became(a, Finish(attempt[a]))
  /\ UNCHANGED <<status, place, presenter, relay, operator, gone>>

DeadlineOfJoining(a) ==   \* mutant: the timer is cleared by `welcome'
  /\ attempt[a].conn = "joining" /\ Here(a)
  /\ Became(a, Finish(attempt[a]))
  /\ UNCHANGED <<status, place, presenter, relay, operator, gone>>

Deadline(a) ==
  /\ attempt[a].conn \in {"joining", "joined"} /\ Here(a)
  /\ Became(a, Finish(attempt[a]))
  /\ UNCHANGED <<status, place, presenter, relay, operator, gone>>

(* The relay notices a closed socket, or loses the presenter.              *)
SeatFreed(s) ==
  /\ relay[s] # None
  /\ relay' = [relay EXCEPT ![s] = None]
  /\ UNCHANGED <<status, place, presenter, attempt, operator, gone>>

-----------------------------------------------------------------------------
(* POST .../end *)

EndOf(s) == IF status[s] = "live" THEN Ended(s) ELSE UNCHANGED ledger

EndServed(a) ==
  /\ attempt[a].end = "sent"
  /\ EndOf(attempt[a].ticket)
  /\ Became(a, [attempt[a] EXCEPT !.end = "ok"])
  /\ UNCHANGED <<relay, operator, gone>>

(* The request or its answer is lost, or the hub refuses.                  *)
EndFails(a) ==
  /\ attempt[a].end \in {"sent", "ok"}
  /\ Became(a, [attempt[a] EXCEPT !.end = "failed"])
  /\ UNCHANGED <<status, place, presenter, relay, operator, gone>>

EndAnswered(a) ==
  /\ attempt[a].end \in {"ok", "failed"} /\ Here(a)
  /\ Became(a, [attempt[a] EXCEPT !.end = "done",
                                  !.ending = attempt[a].end = "ok",
                                  !.warned = attempt[a].end = "failed"])
  /\ UNCHANGED <<status, place, presenter, relay, operator, gone>>

(* `end' in a list of sessions (endSession of live-card.ts).               *)
OperatorEnds(g, s) ==
  /\ operator = NoOperator /\ g \notin gone
  /\ status[s] # "unused"
  /\ operator' = [end |-> "sent", page |-> g, session |-> s]
  /\ UNCHANGED <<status, place, presenter, attempt, relay, gone>>

OperatorServed ==
  /\ operator.end = "sent"
  /\ EndOf(operator.session)
  /\ operator' = [operator EXCEPT !.end = "ok"]
  /\ UNCHANGED <<attempt, relay, gone>>

OperatorFails ==
  /\ operator # NoOperator
  /\ operator' = NoOperator
  /\ UNCHANGED <<status, place, presenter, attempt, relay, gone>>

(* odeum-session-ended, in the page of the list: the presentation of that  *)
(* session in the same page stops, and does not end the ledger again.      *)
OperatorAnswered ==
  /\ operator.end = "ok" /\ operator.page \notin gone
  /\ attempt' = [a \in Attempts |->
       IF /\ PageOf[a] = operator.page
          /\ attempt[a].root = "shown" /\ ~attempt[a].closed
          /\ attempt[a].ticket = operator.session
       THEN Finish([attempt[a] EXCEPT !.ending = TRUE]) ELSE attempt[a]]
  /\ operator' = NoOperator
  /\ UNCHANGED <<status, place, presenter, relay, gone>>

-----------------------------------------------------------------------------
Next ==
  \/ \E a \in Attempts :
       \/ Click(a) \/ Picked(a) \/ PickerCancelled(a)
       \/ Stop(a) \/ CaptureEnded(a)
       \/ \E p \in Places : Begin(a, p)
       \/ \E s \in Sessions : Resume(a, s)
       \/ PostFails(a) \/ Ticket(a) \/ NoTicket(a)
       \/ Welcomed(a) \/ PeerConnected(a) \/ ConnectionFails(a) \/ Deadline(a)
       \/ EndServed(a) \/ EndFails(a) \/ EndAnswered(a)
  \/ \E s \in Sessions : SeatFreed(s)
  \/ \E g \in Pages : PageHide(g)
  \/ \E g \in Pages, s \in Sessions : OperatorEnds(g, s)
  \/ OperatorServed \/ OperatorFails \/ OperatorAnswered

(* The browser delivers what it received and runs its timers, and the hub  *)
(* answers or the request fails.  Nothing is asked of the user, the picker *)
(* or the relay.                                                           *)
Fairness ==
  \A a \in Attempts :
    /\ WF_vars(Ticket(a))
    /\ WF_vars(Deadline(a))
    /\ WF_vars(EndServed(a) \/ EndFails(a))
    /\ WF_vars(EndAnswered(a))

Spec == Init /\ [][Next]_vars /\ Fairness

-----------------------------------------------------------------------------
(* Once an attempt was cancelled, stopped or failed nothing of it captures *)
(* or transmits, whatever its picker and its requests answer later.        *)
SilentOnceClosed ==
  \A a \in Attempts :
    attempt[a].closed => attempt[a].capture # "on" /\ attempt[a].conn \notin Open

(* What holds of each attempt by itself: a box is removed only when closed,*)
(* and the ledger is asked to end only a session the attempt began or      *)
(* presented, once it has its ticket.                                      *)
Sound(r) ==
  /\ r.closed => r.capture # "on" /\ r.conn \notin Open
  /\ r.root = "removed" => r.closed
  /\ r.root = "none" =>
       /\ ~r.closed /\ r.capture = "none" /\ r.post = "none"
       /\ r.conn = "none" /\ r.end = "none"
  /\ r.capture = "asked" => r.post = "none"
  /\ r.ticket # None => r.post = "done"
  /\ r.end # "none" => r.ticket # None /\ (~r.resumed \/ r.connected)

OneBoxPerPage ==
  \A a, b \in Attempts :
    /\ attempt[a].root = "shown" /\ attempt[b].root = "shown"
    /\ PageOf[a] = PageOf[b]
    => a = b

(* The inductive invariant.                                                *)
Inv ==
  /\ TypeOK
  /\ \A a \in Attempts : Sound(attempt[a])
  /\ OneBoxPerPage

(* One page captures for one attempt at a time, although the picker of a   *)
(* cancelled attempt may still be open beside the next one's.              *)
OneCapturePerPage ==
  \A a, b \in Attempts :
    /\ attempt[a].capture = "on" /\ attempt[b].capture = "on"
    /\ PageOf[a] = PageOf[b]
    => a = b

(* The session of a presentation that runs is ended by an operator, by the *)
(* attempt that created it or by one that presented it: never by one that  *)
(* resumed it and failed (presenter-ui.ts, endLedger).                     *)
FailedResumeSparesRunning ==
  [][\A s \in Sessions :
       status[s] = "live" /\ status'[s] = "ended" =>
         \/ operator.end = "sent" /\ operator.session = s
         \/ \E a \in Attempts :
              /\ attempt[a].ticket = s /\ attempt[a].end = "sent"
              /\ ~attempt[a].resumed \/ attempt[a].connected]_vars

(* A stopped attempt that created or presented its session ends it or      *)
(* writes into its box that it could not, also when it was stopped before  *)
(* it had the ticket (endLedger).                                          *)
StoppedIsEndedOrTold ==
  \A a \in Attempts :
    (/\ attempt[a].closed /\ attempt[a].ticket # None
     /\ ~attempt[a].resumed \/ attempt[a].connected)
      ~> (\/ \E s \in Sessions : attempt[a].ticket = s /\ status[s] = "ended"
          \/ attempt[a].warned \/ ~Here(a))

(* An attempt does not stay between the socket and the connected peer.     *)
JoiningSettles ==
  \A a \in Attempts :
    attempt[a].conn \in {"joining", "joined"}
      ~> (attempt[a].conn \in {"connected", "closed"} \/ ~Here(a))

(* Both: a presentation that is not running any more, or not yet, settles. *)
PresentationsSettle == StoppedIsEndedOrTold /\ JoiningSettles
=============================================================================
