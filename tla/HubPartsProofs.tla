---------------------------- MODULE HubPartsProofs ----------------------------
EXTENDS MCHubParts, Sequences, FiniteSetTheorems, TLAPS

-----------------------------------------------------------------------------
(* Attempts to present (OdeumScreen).  Inv is inductive.  An action of an   *)
(* attempt replaces its closure by another, so its proof is that the new   *)
(* closure is Good and shows a box only where one was shown; Replaced does *)
(* the rest.                                                               *)

Good(r) == r \in Closures /\ Sound(r)

LEMMA HaltedTyped ==
  ASSUME NEW r \in Closures, NEW c \in {"none", "closed"},
         NEW d \in {"none", "asked", "on", "stopped"}
  PROVE  [r EXCEPT !.closed = TRUE, !.conn = c, !.capture = d] \in Closures
BY DEF Closures

LEMMA HaltedIsGood ==
  ASSUME NEW r, Good(r), r.root # "none"
  PROVE  Good(Halted(r)) /\ Halted(r).root = r.root
<1> DEFINE c == IF r.conn = "none" THEN "none" ELSE "closed"
           d == IF r.capture = "on" THEN "stopped" ELSE r.capture
           h == [r EXCEPT !.closed = TRUE, !.conn = c, !.capture = d]
<1>1. c \in {"none", "closed"} /\ d \in {"none", "asked", "on", "stopped"}
  BY DEF Good, Closures
<1>2. Halted(r) = h
  BY DEF Halted
<1> HIDE DEF c, d
<1>3. h \in Closures
  BY <1>1, HaltedTyped DEF Good
<1>4. Sound(Halted(r)) /\ Halted(r).root = r.root
  BY DEF Good, Sound, Halted, Open
<1> QED BY <1>2, <1>3, <1>4 DEF Good

LEMMA EndLedgerIsGood ==
  ASSUME NEW r, Good(r), r.root # "none"
  PROVE  Good(EndLedger(r)) /\ EndLedger(r).root = r.root
<1>1. [r EXCEPT !.ending = TRUE, !.end = "sent"] \in Closures
  BY DEF Good, Closures
<1>2. EndLedger(r) \in Closures
  BY <1>1 DEF Good, EndLedger
<1>3. Sound(EndLedger(r)) /\ EndLedger(r).root = r.root
  BY DEF Good, Sound, EndLedger
<1> QED BY <1>2, <1>3 DEF Good

LEMMA FinishIsGood ==
  ASSUME NEW r, Good(r), r.root # "none"
  PROVE  Good(Finish(r)) /\ Finish(r).root = r.root
BY HaltedIsGood, EndLedgerIsGood DEF Finish

LEMMA GoodAttempt ==
  ASSUME Inv, NEW a \in Attempts
  PROVE  Good(attempt[a])
BY DEF Inv, TypeOK, Good

(* One closure is replaced; whatever else changes keeps its type.          *)
LEMMA Replaced ==
  ASSUME Inv, NEW a \in Attempts, NEW r, Good(r), Became(a, r),
         r.root = "shown" => attempt[a].root = "shown",
         LedgerTypeOK', relay' \in [Sessions -> Attempts \cup {None}],
         UNCHANGED <<operator, gone>>
  PROVE  Inv'
<1>1. TypeOK'
  BY DEF Inv, TypeOK, Good, Became
<1>2. \A b \in Attempts : Sound(attempt'[b])
  <2> SUFFICES ASSUME NEW b \in Attempts PROVE Sound(attempt'[b])
    OBVIOUS
  <2>1. attempt'[b] = IF b = a THEN r ELSE attempt[b]
    BY DEF Became, Inv, TypeOK
  <2> QED BY <2>1 DEF Inv, Good
<1>3. OneBoxPerPage'
  <2>1. \A b \in Attempts :
          attempt'[b].root = "shown" => attempt[b].root = "shown"
    BY DEF Became
  <2> QED BY <2>1 DEF Inv, OneBoxPerPage
<1> QED BY <1>1, <1>2, <1>3 DEF Inv

(* As Replaced, where nothing but the closure changes.                     *)
LEMMA ReplacedAlone ==
  ASSUME Inv, NEW a \in Attempts, NEW r, Good(r), Became(a, r),
         r.root = "shown" => attempt[a].root = "shown",
         UNCHANGED <<status, place, presenter, relay, operator, gone>>
  PROVE  Inv'
<1>1. LedgerTypeOK' /\ relay' \in [Sessions -> Attempts \cup {None}]
  BY DEF Inv, TypeOK, LedgerTypeOK
<1> QED BY <1>1, Replaced

(* As ReplacedAlone, where the attempt is finished.                        *)
LEMMA FinishedAlone ==
  ASSUME Inv, NEW a \in Attempts, NEW q, Good(q),
         q.root = attempt[a].root, q.root # "none", Became(a, Finish(q)),
         UNCHANGED <<status, place, presenter, relay, operator, gone>>
  PROVE  Inv'
<1>1. Good(Finish(q)) /\ Finish(q).root = attempt[a].root
  BY FinishIsGood
<1> QED BY <1>1, ReplacedAlone

(* The attempts of a page that are finished by an event of the page.       *)
LEMMA FinishedTogether ==
  ASSUME Inv,
         \A a \in Attempts :
           \/ attempt'[a] = attempt[a]
           \/ Good(attempt'[a]) /\ attempt'[a].root = attempt[a].root,
         attempt' = [a \in Attempts |-> attempt'[a]],
         UNCHANGED <<status, place, presenter, relay>>,
         operator' \in {NoOperator, operator}, gone' \subseteq Pages
  PROVE  Inv'
<1>1. \A a \in Attempts : Good(attempt'[a]) /\ attempt'[a].root = attempt[a].root
  BY GoodAttempt
<1>2. TypeOK'
  BY <1>1 DEF Inv, TypeOK, LedgerTypeOK, Good
<1>3. OneBoxPerPage'
  BY <1>1 DEF Inv, OneBoxPerPage
<1> QED BY <1>1, <1>2, <1>3 DEF Inv, Good

-----------------------------------------------------------------------------
LEMMA InitInv == Init => Inv
BY DEF Init, Inv, TypeOK, LedgerInit, LedgerTypeOK, NoAttempt, Closures,
       Sound, OneBoxPerPage

LEMMA EndOfTyped ==
  ASSUME LedgerTypeOK, NEW s, EndOf(s)
  PROVE  LedgerTypeOK'
BY DEF EndOf, Ended, ledger, LedgerTypeOK

LEMMA NextInv == Inv /\ [Next]_vars => Inv'
<1> SUFFICES ASSUME Inv, [Next]_vars PROVE Inv'
  OBVIOUS
<1>0. CASE UNCHANGED vars
  BY <1>0 DEF vars, Inv, TypeOK, LedgerTypeOK, OneBoxPerPage
<1>1. ASSUME NEW a \in Attempts, Click(a) PROVE Inv'
  <2> DEFINE r == [NoAttempt EXCEPT !.root = "shown", !.capture = "asked"]
  <2>1. r \in Closures /\ Sound(r) /\ r.root = "shown"
    BY DEF NoAttempt, Closures, Sound
  <2> HIDE DEF r
  <2>2. attempt' = [attempt EXCEPT ![a] = r]
    BY <1>1 DEF Click, Became, r
  <2>3. TypeOK'
    BY <1>1, <2>1, <2>2 DEF Click, Inv, TypeOK, LedgerTypeOK
  <2>4. \A b \in Attempts : Sound(attempt'[b])
    BY <2>1, <2>2 DEF Inv
  <2>5. OneBoxPerPage'
    BY <1>1, <2>2 DEF Click, Inv, OneBoxPerPage
  <2> QED BY <2>3, <2>4, <2>5 DEF Inv
<1>2. ASSUME NEW a \in Attempts, Picked(a) PROVE Inv'
  <2>1. CASE attempt[a].closed
    <3> DEFINE r == [attempt[a] EXCEPT !.capture = "stopped"]
    <3>1. r \in Closures
      BY GoodAttempt DEF Good, Closures
    <3>2. Sound(r) /\ r.root = attempt[a].root
      BY <1>2, <2>1, GoodAttempt DEF Good, Sound
    <3>3. Became(a, r)
      BY <1>2, <2>1 DEF Picked
    <3> HIDE DEF r
    <3> QED BY <1>2, <3>1, <3>2, <3>3, ReplacedAlone DEF Picked, Good
  <2>2. CASE ~attempt[a].closed
    <3> DEFINE r == [attempt[a] EXCEPT !.capture = "on", !.post = "sent"]
    <3>1. r \in Closures
      BY GoodAttempt DEF Good, Closures
    <3>2. Sound(r) /\ r.root = attempt[a].root
      BY <1>2, <2>2, GoodAttempt DEF Picked, Good, Sound
    <3>3. Became(a, r)
      BY <1>2, <2>2 DEF Picked
    <3> HIDE DEF r
    <3> QED BY <1>2, <3>1, <3>2, <3>3, ReplacedAlone DEF Picked, Good
  <2> QED BY <2>1, <2>2
<1>3. ASSUME NEW a \in Attempts, PickerCancelled(a) PROVE Inv'
  <2>1. CASE attempt[a].closed
    <3> DEFINE r == [attempt[a] EXCEPT !.capture = "stopped"]
    <3>1. r \in Closures
      BY GoodAttempt DEF Good, Closures
    <3>2. Sound(r) /\ r.root = attempt[a].root
      BY <1>3, <2>1, GoodAttempt DEF Good, Sound
    <3>3. Became(a, r)
      BY <1>3, <2>1 DEF PickerCancelled
    <3> HIDE DEF r
    <3> QED BY <1>3, <3>1, <3>2, <3>3, ReplacedAlone DEF PickerCancelled, Good
  <2>2. CASE ~attempt[a].closed
    <3> DEFINE q == [attempt[a] EXCEPT !.capture = "stopped"]
    <3>1. q \in Closures
      BY GoodAttempt DEF Good, Closures
    <3>2. Sound(q) /\ q.root = attempt[a].root /\ q.root # "none"
      BY <1>3, GoodAttempt DEF PickerCancelled, Good, Sound
    <3>3. Became(a, Finish(q))
      BY <1>3, <2>2 DEF PickerCancelled
    <3> HIDE DEF q
    <3> QED BY <1>3, <3>1, <3>2, <3>3, FinishedAlone DEF PickerCancelled, Good
  <2> QED BY <2>1, <2>2
<1>4. ASSUME NEW a \in Attempts, Stop(a) PROVE Inv'
  <2>1. CASE attempt[a].closed
    <3> DEFINE r == [attempt[a] EXCEPT !.root = "removed"]
    <3>1. r \in Closures
      BY GoodAttempt DEF Good, Closures
    <3>2. Sound(r) /\ r.root # "shown"
      BY <1>4, <2>1, GoodAttempt DEF Good, Sound
    <3>3. Became(a, r)
      BY <1>4, <2>1 DEF Stop
    <3> HIDE DEF r
    <3> QED BY <1>4, <3>1, <3>2, <3>3, ReplacedAlone DEF Stop, Good
  <2>2. CASE ~attempt[a].closed
    BY <1>4, <2>2, GoodAttempt, FinishedAlone DEF Stop
  <2> QED BY <2>1, <2>2
<1>5. ASSUME NEW a \in Attempts, CaptureEnded(a) PROVE Inv'
  <2>1. attempt[a].root # "none"
    BY <1>5, GoodAttempt DEF CaptureEnded, Good, Sound
  <2> QED BY <1>5, <2>1, GoodAttempt, FinishedAlone DEF CaptureEnded
<1>6. ASSUME NEW a \in Attempts, PostFails(a) PROVE Inv'
  <2> DEFINE r == [attempt[a] EXCEPT !.post = "refused", !.reply = None]
  <2>1. r \in Closures
    BY GoodAttempt DEF Good, Closures
  <2>2. Sound(r) /\ r.root = attempt[a].root
    BY <1>6, GoodAttempt DEF PostFails, Good, Sound
  <2>3. Became(a, r)
    BY <1>6 DEF PostFails
  <2> HIDE DEF r
  <2> QED BY <1>6, <2>1, <2>2, <2>3, ReplacedAlone DEF PostFails, Good
<1>7. ASSUME NEW a \in Attempts, NEW s \in Sessions, Resume(a, s) PROVE Inv'
  <2> DEFINE r == [attempt[a] EXCEPT !.post = "answered", !.reply = s,
                                    !.resumed = TRUE]
  <2>1. r \in Closures
    BY GoodAttempt DEF Good, Closures
  <2>2. Sound(r) /\ r.root = attempt[a].root
    BY <1>7, GoodAttempt DEF Resume, Good, Sound
  <2>3. Became(a, r)
    BY <1>7 DEF Resume
  <2> HIDE DEF r
  <2> QED BY <1>7, <2>1, <2>2, <2>3, ReplacedAlone DEF Resume, Good
<1>8. ASSUME NEW a \in Attempts, Ticket(a) PROVE Inv'
  <2>1. /\ Good(Received(a))
        /\ Received(a).root = attempt[a].root /\ Received(a).root # "none"
    <3>1. Received(a) \in Closures
      BY GoodAttempt DEF Received, Good, Closures
    <3>2. Sound(Received(a)) /\ Received(a).root = attempt[a].root
      BY <1>8, GoodAttempt DEF Ticket, Received, Good, Sound
    <3>3. attempt[a].root # "none"
      BY <1>8, GoodAttempt DEF Ticket, Good, Sound
    <3> QED BY <3>1, <3>2, <3>3 DEF Good
  <2>2. CASE attempt[a].closed
    <3>1. /\ Good(EndLedger(Received(a)))
          /\ EndLedger(Received(a)).root = attempt[a].root
      BY <2>1, EndLedgerIsGood
    <3> QED BY <1>8, <2>2, <3>1, ReplacedAlone DEF Ticket
  <2>3. CASE ~attempt[a].closed
    <3> DEFINE r == [Received(a) EXCEPT !.conn = "joining"]
    <3>1. r \in Closures
      BY <2>1 DEF Good, Closures, Open
    <3>2. Received(a).closed = FALSE
      BY <2>3, GoodAttempt DEF Received
    <3>3. Sound(r) /\ r.root = attempt[a].root
      BY <2>1, <3>2 DEF Good, Sound
    <3>4. Became(a, r)
      BY <1>8, <2>3 DEF Ticket
    <3> HIDE DEF r
    <3> QED BY <1>8, <3>1, <3>3, <3>4, ReplacedAlone DEF Ticket, Good
  <2> QED BY <2>2, <2>3
<1>9. ASSUME NEW a \in Attempts, NoTicket(a) PROVE Inv'
  <2>1. CASE attempt[a].closed
    <3> DEFINE r == [attempt[a] EXCEPT !.post = "done"]
    <3>1. r \in Closures
      BY GoodAttempt DEF Good, Closures
    <3>2. Sound(r) /\ r.root = attempt[a].root
      BY <1>9, <2>1, GoodAttempt DEF NoTicket, Good, Sound
    <3>3. Became(a, r)
      BY <1>9, <2>1 DEF NoTicket
    <3> HIDE DEF r
    <3> QED BY <1>9, <3>1, <3>2, <3>3, ReplacedAlone DEF NoTicket, Good
  <2>2. CASE ~attempt[a].closed
    <3> DEFINE q == [attempt[a] EXCEPT !.post = "done"]
    <3>1. q \in Closures
      BY GoodAttempt DEF Good, Closures
    <3>2. Sound(q) /\ q.root = attempt[a].root /\ q.root # "none"
      BY <1>9, GoodAttempt DEF NoTicket, Good, Sound
    <3>3. Became(a, Finish(q))
      BY <1>9, <2>2 DEF NoTicket
    <3> HIDE DEF q
    <3> QED BY <1>9, <3>1, <3>2, <3>3, FinishedAlone DEF NoTicket, Good
  <2> QED BY <2>1, <2>2
<1>10. ASSUME NEW a \in Attempts, PeerConnected(a) PROVE Inv'
  <2> DEFINE r == [attempt[a] EXCEPT !.conn = "connected", !.connected = TRUE]
  <2>1. r \in Closures
    BY GoodAttempt DEF Good, Closures, Open
  <2>2. Sound(r) /\ r.root = attempt[a].root
    BY <1>10, GoodAttempt DEF PeerConnected, Good, Sound, Open
  <2>3. Became(a, r)
    BY <1>10 DEF PeerConnected
  <2> HIDE DEF r
  <2> QED BY <1>10, <2>1, <2>2, <2>3, ReplacedAlone DEF PeerConnected, Good
<1>11. ASSUME NEW a \in Attempts, ConnectionFails(a) PROVE Inv'
  <2>1. attempt[a].root # "none"
    BY <1>11, GoodAttempt DEF ConnectionFails, Good, Sound, Open
  <2> QED BY <1>11, <2>1, GoodAttempt, FinishedAlone DEF ConnectionFails
<1>12. ASSUME NEW a \in Attempts, Deadline(a) PROVE Inv'
  <2>1. attempt[a].root # "none"
    BY <1>12, GoodAttempt DEF Deadline, Good, Sound
  <2> QED BY <1>12, <2>1, GoodAttempt, FinishedAlone DEF Deadline
<1>13. ASSUME NEW a \in Attempts, EndFails(a) PROVE Inv'
  <2> DEFINE r == [attempt[a] EXCEPT !.end = "failed"]
  <2>1. r \in Closures
    BY GoodAttempt DEF Good, Closures
  <2>2. Sound(r) /\ r.root = attempt[a].root
    BY <1>13, GoodAttempt DEF EndFails, Good, Sound
  <2>3. Became(a, r)
    BY <1>13 DEF EndFails
  <2> HIDE DEF r
  <2> QED BY <1>13, <2>1, <2>2, <2>3, ReplacedAlone DEF EndFails, Good
<1>14. ASSUME NEW a \in Attempts, EndAnswered(a) PROVE Inv'
  <2>1. CASE attempt[a].end = "ok"
    <3> DEFINE r == [attempt[a] EXCEPT !.end = "done", !.ending = TRUE,
                                      !.warned = FALSE]
    <3>1. r \in Closures
      BY GoodAttempt DEF Good, Closures
    <3>2. Sound(r) /\ r.root = attempt[a].root
      BY <1>14, <2>1, GoodAttempt DEF Good, Sound
    <3>3. Became(a, r)
      BY <1>14, <2>1 DEF EndAnswered
    <3> HIDE DEF r
    <3> QED BY <1>14, <3>1, <3>2, <3>3, ReplacedAlone DEF EndAnswered, Good
  <2>2. CASE attempt[a].end = "failed"
    <3> DEFINE r == [attempt[a] EXCEPT !.end = "done", !.ending = FALSE,
                                      !.warned = TRUE]
    <3>1. r \in Closures
      BY GoodAttempt DEF Good, Closures
    <3>2. Sound(r) /\ r.root = attempt[a].root
      BY <1>14, <2>2, GoodAttempt DEF Good, Sound
    <3>3. Became(a, r)
      BY <1>14, <2>2 DEF EndAnswered
    <3> HIDE DEF r
    <3> QED BY <1>14, <3>1, <3>2, <3>3, ReplacedAlone DEF EndAnswered, Good
  <2> QED BY <1>14, <2>1, <2>2 DEF EndAnswered
<1>15. ASSUME NEW a \in Attempts, Welcomed(a) PROVE Inv'
  <2> DEFINE r == [attempt[a] EXCEPT !.conn = "joined"]
  <2>1. r \in Closures
    BY GoodAttempt DEF Good, Closures, Open
  <2>2. Sound(r) /\ r.root = attempt[a].root
    BY <1>15, GoodAttempt DEF Welcomed, Good, Sound, Open
  <2>3. Became(a, r)
    BY <1>15 DEF Welcomed
  <2> HIDE DEF r
  <2>4. LedgerTypeOK' /\ relay' \in [Sessions -> Attempts \cup {None}]
    BY <1>15 DEF Welcomed, Inv, TypeOK, LedgerTypeOK
  <2> QED BY <1>15, <2>1, <2>2, <2>3, <2>4, Replaced DEF Welcomed, Good
<1>16. ASSUME NEW a \in Attempts, EndServed(a) PROVE Inv'
  <2> DEFINE r == [attempt[a] EXCEPT !.end = "ok"]
  <2>1. r \in Closures
    BY GoodAttempt DEF Good, Closures
  <2>2. Sound(r) /\ r.root = attempt[a].root
    BY <1>16, GoodAttempt DEF EndServed, Good, Sound
  <2>3. Became(a, r)
    BY <1>16 DEF EndServed
  <2> HIDE DEF r
  <2>4. LedgerTypeOK' /\ relay' \in [Sessions -> Attempts \cup {None}]
    BY <1>16, EndOfTyped DEF EndServed, Inv, TypeOK
  <2> QED BY <1>16, <2>1, <2>2, <2>3, <2>4, Replaced DEF EndServed, Good
<1>17. ASSUME NEW a \in Attempts, NEW p \in Places, Begin(a, p) PROVE Inv'
  <2>0. PICK s \in Sessions :
          /\ Begun(s, p, User(a))
          /\ Became(a, [attempt[a] EXCEPT !.post = "answered", !.reply = s])
    BY <1>17 DEF Begin
  <2> DEFINE r == [attempt[a] EXCEPT !.post = "answered", !.reply = s]
  <2>1. r \in Closures
    BY GoodAttempt DEF Good, Closures
  <2>2. Sound(r) /\ r.root = attempt[a].root
    BY <1>17, GoodAttempt DEF Begin, Good, Sound
  <2>3. Became(a, r)
    BY <2>0
  <2> HIDE DEF r
  <2>4. User(a) \in Users
    BY ScreenAssumption DEF User
  <2>5. LedgerTypeOK'
    BY <2>0, <2>4 DEF Begun, Inserted, Inv, TypeOK, LedgerTypeOK
  <2>6. relay' \in [Sessions -> Attempts \cup {None}] /\ UNCHANGED <<operator, gone>>
    BY <1>17 DEF Begin, Inv, TypeOK
  <2> QED BY <2>1, <2>2, <2>3, <2>5, <2>6, Replaced DEF Good
<1>18. ASSUME NEW s \in Sessions, SeatFreed(s) PROVE Inv'
  BY <1>18 DEF SeatFreed, Inv, TypeOK, LedgerTypeOK, OneBoxPerPage
<1>19. ASSUME NEW g \in Pages, PageHide(g) PROVE Inv'
  <2>1. ASSUME NEW a \in Attempts
        PROVE  \/ attempt'[a] = attempt[a]
               \/ Good(attempt'[a]) /\ attempt'[a].root = attempt[a].root
    BY <1>19, GoodAttempt, FinishIsGood DEF PageHide
  <2> QED BY <1>19, <2>1, FinishedTogether DEF PageHide, Inv, TypeOK
<1>20. ASSUME NEW g \in Pages, NEW s \in Sessions, OperatorEnds(g, s) PROVE Inv'
  BY <1>20 DEF OperatorEnds, Inv, TypeOK, LedgerTypeOK, OneBoxPerPage
<1>21. CASE OperatorServed
  <2>1. LedgerTypeOK'
    BY <1>21, EndOfTyped DEF OperatorServed, Inv, TypeOK
  <2>2. operator' \in [end : {"sent", "ok"}, page : Pages, session : Sessions]
    BY <1>21 DEF OperatorServed, NoOperator, Inv, TypeOK
  <2> QED BY <1>21, <2>1, <2>2 DEF OperatorServed, Inv, TypeOK, OneBoxPerPage
<1>22. CASE OperatorFails
  BY <1>22 DEF OperatorFails, Inv, TypeOK, LedgerTypeOK, OneBoxPerPage
<1>23. CASE OperatorAnswered
  <2>1. ASSUME NEW a \in Attempts
        PROVE  \/ attempt'[a] = attempt[a]
               \/ Good(attempt'[a]) /\ attempt'[a].root = attempt[a].root
    <3> DEFINE q == [attempt[a] EXCEPT !.ending = TRUE]
    <3>1. q \in Closures
      BY GoodAttempt DEF Good, Closures
    <3>2. Sound(q) /\ q.root = attempt[a].root
      BY GoodAttempt DEF Good, Sound
    <3>3. \/ attempt'[a] = attempt[a]
          \/ attempt'[a] = Finish(q) /\ attempt[a].root = "shown"
      BY <1>23 DEF OperatorAnswered
    <3> HIDE DEF q
    <3> QED BY <3>1, <3>2, <3>3, FinishIsGood DEF Good
  <2> QED BY <1>23, <2>1, FinishedTogether DEF OperatorAnswered, Inv, TypeOK
<1> QED
  BY <1>0, <1>1, <1>2, <1>3, <1>4, <1>5, <1>6, <1>7, <1>8, <1>9, <1>10, <1>11,
     <1>12, <1>13, <1>14, <1>15, <1>16, <1>17, <1>18, <1>19, <1>20, <1>21, <1>22,
     <1>23 DEF Next

-----------------------------------------------------------------------------
(* The closures, the requests and the seats keep their types, and what     *)
(* holds of each attempt by itself goes on holding.                        *)
THEOREM ScreenInvariance == Init /\ [][Next]_vars => []Inv
<1>1. Init => Inv
  BY InitInv
<1>2. Inv /\ [Next]_vars => Inv'
  BY NextInv
<1> QED BY <1>1, <1>2, PTL

(* The closures of presenter-ui.ts hold only what they may hold.           *)
THEOREM ScreenTyped == Init /\ [][Next]_vars => []TypeOK
<1>1. Inv => TypeOK
  BY DEF Inv
<1> QED BY <1>1, ScreenInvariance, PTL

(* A stopped attempt stays silent, whatever its picker, POST /sessions and *)
(* relay answer later (halt, and the two late answers of start).           *)
THEOREM Silent == Init /\ [][Next]_vars => []SilentOnceClosed
<1>1. Inv => SilentOnceClosed
  BY DEF Inv, Sound, SilentOnceClosed
<1> QED BY <1>1, ScreenInvariance, PTL

(* One page captures for one attempt at a time: an attempt that captures is*)
(* not closed, so its box is shown, and a page shows one box (the id check *)
(* of startScreenPresentation).                                            *)
THEOREM OneCapture == Init /\ [][Next]_vars => []OneCapturePerPage
<1>1. Inv => OneCapturePerPage
  <2> SUFFICES ASSUME Inv, NEW a \in Attempts, NEW b \in Attempts,
                      attempt[a].capture = "on", attempt[b].capture = "on",
                      PageOf[a] = PageOf[b]
               PROVE  a = b
    BY DEF OneCapturePerPage
  <2>1. ASSUME NEW c \in Attempts, attempt[c].capture = "on"
        PROVE  attempt[c].root = "shown"
    BY <2>1, GoodAttempt DEF Good, Sound, Closures
  <2> QED BY <2>1 DEF Inv, OneBoxPerPage
<1> QED BY <1>1, ScreenInvariance, PTL

(* A resume that failed never ends the session it would have taken over    *)
(* (the condition on resumed and connected of endLedger).                  *)
THEOREM FailedResume == Init /\ [][Next]_vars => FailedResumeSparesRunning
<1> DEFINE Spared ==
      \A s \in Sessions :
        status[s] = "live" /\ status'[s] = "ended" =>
          \/ operator.end = "sent" /\ operator.session = s
          \/ \E a \in Attempts :
               /\ attempt[a].ticket = s /\ attempt[a].end = "sent"
               /\ ~attempt[a].resumed \/ attempt[a].connected
<1>1. Inv /\ [Next]_vars => Spared
  <2> SUFFICES ASSUME Inv, [Next]_vars, NEW s \in Sessions,
                      status[s] = "live", status'[s] = "ended"
               PROVE  \/ operator.end = "sent" /\ operator.session = s
                      \/ \E a \in Attempts :
                           /\ attempt[a].ticket = s /\ attempt[a].end = "sent"
                           /\ ~attempt[a].resumed \/ attempt[a].connected
    OBVIOUS
  <2>1. ASSUME NEW t, EndOf(t) PROVE t = s
    BY <2>1 DEF EndOf, Ended, ledger, Inv, TypeOK, LedgerTypeOK
  <2>2. ASSUME NEW a \in Attempts, EndServed(a)
        PROVE  /\ attempt[a].ticket = s /\ attempt[a].end = "sent"
               /\ ~attempt[a].resumed \/ attempt[a].connected
    <3>1. attempt[a].ticket = s /\ attempt[a].end = "sent"
      BY <2>1, <2>2 DEF EndServed
    <3> QED BY <3>1, GoodAttempt DEF Good, Sound
  <2>3. CASE OperatorServed
    BY <2>1, <2>3 DEF OperatorServed
  <2>4. ASSUME NEW a \in Attempts, NEW p \in Places, Begin(a, p) PROVE FALSE
    BY <2>4 DEF Begin, Begun, Inserted
  <2>5. ASSUME UNCHANGED status PROVE FALSE
    BY <2>5
  <2> QED BY <2>2, <2>3, <2>4, <2>5 DEF Next, vars, Click, Picked,
                 PickerCancelled, Stop, CaptureEnded, Resume, PostFails,
                 Ticket, NoTicket, Welcomed, PeerConnected, ConnectionFails,
                 Deadline, EndFails, EndAnswered, SeatFreed, PageHide,
                 OperatorEnds, OperatorFails, OperatorAnswered
<1>2. Inv /\ [Next]_vars => [Spared]_vars
  BY <1>1
<1> QED BY <1>2, ScreenInvariance, PTL DEF FailedResumeSparesRunning

-----------------------------------------------------------------------------
(* Events (EventDesk).                                                     *)

Claims(q) == request[q].at = "insert" /\ request[q].reservation # None

(* What a request has read: "import" holds the snapshot of a meeting that  *)
(* was handed over, "cancel" and "remove" an event whose deletion was      *)
(* asked for.                                                              *)
RequestsAreSound ==
  \A q \in Requests :
    /\ request[q].at = "none" => request[q].reservation = None
    /\ request[q].at \in {"handover", "import"} => request[q].meeting \in Meetings
    /\ request[q].at = "import" =>
         /\ meeting[request[q].meeting].state \in {"handed", "cancelled"}
         /\ request[q].reservation = meeting[request[q].meeting].reservation
    /\ request[q].at \in {"cancel", "remove"} =>
         /\ request[q].row \in Rows /\ request[q].row \in doomed
         /\ row[request[q].row].state # "absent"
    /\ request[q].at = "remove" =>
         LET e == request[q].row IN
         row[e].reservation # None =>
           reservation[row[e].reservation] = "cancelled" \/ e \in forced

(* A meeting is linked with the event it became, which the booking page    *)
(* leaves alone; before that, its reservation goes only by that page.      *)
MeetingsAreLinked ==
  /\ \A e \in Rows : row[e].meeting # None =>
       /\ link[row[e].meeting] = e
       /\ row[e].reservation = meeting[row[e].meeting].reservation
       /\ meeting[row[e].meeting].state \in {"handed", "cancelled"}
  /\ \A m \in Meetings :
       /\ meeting[m].state = "open" => meeting[m].reservation = None
       /\ link[m] = None /\ meeting[m].reservation # None =>
            \/ reservation[meeting[m].reservation] = "active"
            \/ meeting[m].reservation \in released

(* A reservation belongs to one event, one meeting (with its event) or one *)
(* creation that has not stored its event yet.                             *)
ReservationsHaveOneOwner ==
  /\ \A e \in Rows :
       /\ row[e].state = "absent" => row[e] = Desk!NoRow
       /\ row[e].reservation # None => reservation[row[e].reservation] # "none"
  /\ \A m \in Meetings :
       meeting[m].reservation # None => reservation[meeting[m].reservation] # "none"
  /\ \A q \in Requests : Claims(q) =>
       \/ reservation[request[q].reservation] = "active"
       \/ request[q].reservation \in released
  /\ \A r \in released : reservation[r] = "cancelled"
  /\ \A e, f \in Rows :
       row[e].reservation # None /\ row[e].reservation = row[f].reservation => e = f
  /\ \A m, n \in Meetings :
       meeting[m].reservation # None /\ meeting[m].reservation = meeting[n].reservation => m = n
  /\ \A q, p \in Requests :
       Claims(q) /\ Claims(p) /\ request[q].reservation = request[p].reservation => q = p
  /\ \A e \in Rows, m \in Meetings :
       row[e].reservation # None /\ row[e].reservation = meeting[m].reservation =>
         row[e].meeting = m
  /\ \A q \in Requests : Claims(q) =>
       /\ \A e \in Rows : row[e].reservation # request[q].reservation
       /\ \A m \in Meetings : meeting[m].reservation # request[q].reservation

DeskInv ==
  /\ Desk!TypeOK
  /\ RequestsAreSound /\ MeetingsAreLinked /\ ReservationsHaveOneOwner
  /\ Desk!EventsMatchReservations

(* Where a reservation is accounted for (OrphansAreUnconfirmed).           *)
Shown(r) ==
  \/ \E e \in Rows : row[e].reservation = r /\ (row[e].state = "live" \/ e \in forced)
  \/ \E q \in Requests : request[q].reservation = r /\ request[q].at = "insert"
  \/ r \in unconfirmed
  \/ \E m \in Meetings : meeting[m].reservation = r

LEMMA ShownReservations ==
  Desk!OrphansAreUnconfirmed <=> \A r \in Reservations : reservation[r] = "active" => Shown(r)
BY DEF Desk!OrphansAreUnconfirmed, Desk!Live, Shown

LEMMA ShownReservationsNext ==
  Desk!OrphansAreUnconfirmed' <=> (\A r \in Reservations : reservation[r] = "active" => Shown(r))'
BY DEF Desk!OrphansAreUnconfirmed, Desk!Live, Shown

LEMMA DeskBegins == Desk!Init => DeskInv
BY DeskAssumption DEF Desk!Init, DeskInv, Desk!TypeOK, RequestsAreSound, MeetingsAreLinked,
   ReservationsHaveOneOwner, Claims, Desk!EventsMatchReservations, Desk!EventAssumption,
   Desk!LiveEventKeepsReservation, Desk!DeletedEventFreesReservation,
   Desk!OrphansAreUnconfirmed, Desk!Live, Desk!NoRow, Desk!NoRequest

(* The request of an action is the only one it changes.                    *)
Ats == {"none", "reserve", "insert", "handover", "import", "cancel", "remove", "done", "failed"}
Asked == [at : Ats, row : Rows \cup {None}, reservation : Reservations \cup {None},
          meeting : Meetings \cup {None}]

LEMMA DeskRequestTyped ==
  ASSUME Desk!TypeOK, NEW q \in Requests, NEW a \in Ats
  PROVE  /\ [request EXCEPT ![q].at = a] \in [Requests -> Asked]
         /\ \A e \in Rows : [request EXCEPT ![q].at = a, ![q].row = e] \in [Requests -> Asked]
         /\ \A r \in Reservations \cup {None} :
              [request EXCEPT ![q].at = a, ![q].reservation = r] \in [Requests -> Asked]
         /\ \A m \in Meetings :
              [request EXCEPT ![q].at = a, ![q].meeting = m] \in [Requests -> Asked]
<1>1. request \in [Requests -> Asked]
  BY DEF Desk!TypeOK, Asked, Ats
<1>2. request[q] \in Asked
  BY <1>1
<1>3. [request[q] EXCEPT !.at = a] \in Asked
  BY <1>2 DEF Asked
<1> QED BY <1>1, <1>3 DEF Asked

LEMMA DeskFail ==
  ASSUME DeskInv, NEW q \in Requests, Desk!Fail(q)
  PROVE  DeskInv'
<1> USE DeskAssumption DEF DeskInv, Desk!Fail, Desk!Goto, Desk!Proceed, Desk!Lost, Desk!EventAssumption
<1>1. Desk!TypeOK'
  <2>1. request' \in [Requests -> Asked]
    BY DeskRequestTyped DEF Ats
  <2> QED BY <2>1 DEF Desk!TypeOK, Asked, Ats
<1>2. RequestsAreSound'
  BY DEF RequestsAreSound, Desk!TypeOK, Desk!Live
<1>3. MeetingsAreLinked'
  BY DEF MeetingsAreLinked, RequestsAreSound, ReservationsHaveOneOwner, Desk!TypeOK, Desk!NoRow
<1>4. ReservationsHaveOneOwner'
  BY DEF ReservationsHaveOneOwner, RequestsAreSound, MeetingsAreLinked, Claims, Desk!TypeOK, Desk!NoRow
<1>5. Desk!LiveEventKeepsReservation'
  BY DEF Desk!EventsMatchReservations, ReservationsHaveOneOwner, RequestsAreSound, Claims,
     Desk!LiveEventKeepsReservation, Desk!Live, Desk!TypeOK, MeetingsAreLinked, Desk!NoRow
<1>6. Desk!DeletedEventFreesReservation'
  BY DEF Desk!EventsMatchReservations, RequestsAreSound, ReservationsHaveOneOwner,
     Desk!DeletedEventFreesReservation, Desk!Live, Desk!TypeOK, Desk!NoRow
<1>7. Desk!OrphansAreUnconfirmed'
  BY DEF Desk!EventsMatchReservations, RequestsAreSound, ReservationsHaveOneOwner, Claims,
     Desk!OrphansAreUnconfirmed, Desk!Live, Desk!TypeOK, MeetingsAreLinked, Desk!NoRow
<1> QED BY <1>1, <1>2, <1>3, <1>4, <1>5, <1>6, <1>7 DEF Desk!EventsMatchReservations

LEMMA DeskCreate ==
  ASSUME DeskInv, NEW q \in Requests, Desk!Create(q)
  PROVE  DeskInv'
<1> USE DeskAssumption DEF DeskInv, Desk!Create, Desk!Goto, Desk!Proceed, Desk!Lost, Desk!EventAssumption
<1>1. Desk!TypeOK'
  BY DEF Desk!TypeOK, Desk!NoRow
<1>2. RequestsAreSound'
  BY DEF RequestsAreSound, Desk!TypeOK, Desk!Live
<1>3. MeetingsAreLinked'
  BY DEF MeetingsAreLinked, RequestsAreSound, ReservationsHaveOneOwner, Desk!TypeOK, Desk!NoRow
<1>4. ReservationsHaveOneOwner'
  BY DEF ReservationsHaveOneOwner, RequestsAreSound, MeetingsAreLinked, Claims, Desk!TypeOK, Desk!NoRow
<1>5. Desk!LiveEventKeepsReservation'
  BY DEF Desk!EventsMatchReservations, ReservationsHaveOneOwner, RequestsAreSound, Claims,
     Desk!LiveEventKeepsReservation, Desk!Live, Desk!TypeOK, MeetingsAreLinked, Desk!NoRow
<1>6. Desk!DeletedEventFreesReservation'
  BY DEF Desk!EventsMatchReservations, RequestsAreSound, ReservationsHaveOneOwner,
     Desk!DeletedEventFreesReservation, Desk!Live, Desk!TypeOK, Desk!NoRow
<1>7. Desk!OrphansAreUnconfirmed'
  BY DEF Desk!EventsMatchReservations, RequestsAreSound, ReservationsHaveOneOwner, Claims,
     Desk!OrphansAreUnconfirmed, Desk!Live, Desk!TypeOK, MeetingsAreLinked, Desk!NoRow
<1> QED BY <1>1, <1>2, <1>3, <1>4, <1>5, <1>6, <1>7 DEF Desk!EventsMatchReservations

LEMMA DeskReserve ==
  ASSUME DeskInv, NEW q \in Requests, Desk!Reserve(q)
  PROVE  DeskInv'
<1> USE DeskAssumption DEF DeskInv, Desk!Reserve, Desk!Goto, Desk!Proceed, Desk!Lost, Desk!EventAssumption
<1>1. Desk!TypeOK'
  <2> PICK r \in Reservations, next \in {"insert", "failed"} :
        request' = [request EXCEPT ![q].at = next, ![q].reservation = r]
    OBVIOUS
  <2>1. request' \in [Requests -> Asked]
    BY DeskRequestTyped DEF Ats
  <2> QED BY <2>1 DEF Desk!TypeOK, Asked, Ats
<1>2. RequestsAreSound'
  BY DEF RequestsAreSound, Desk!TypeOK, Desk!Live
<1>3. MeetingsAreLinked'
  BY DEF MeetingsAreLinked, RequestsAreSound, ReservationsHaveOneOwner, Desk!TypeOK, Desk!NoRow
<1>4. ReservationsHaveOneOwner'
  BY DEF ReservationsHaveOneOwner, RequestsAreSound, MeetingsAreLinked, Claims, Desk!TypeOK, Desk!NoRow
<1>5. Desk!LiveEventKeepsReservation'
  BY DEF Desk!EventsMatchReservations, ReservationsHaveOneOwner, RequestsAreSound, Claims,
     Desk!LiveEventKeepsReservation, Desk!Live, Desk!TypeOK, MeetingsAreLinked, Desk!NoRow
<1>6. Desk!DeletedEventFreesReservation'
  BY DEF Desk!EventsMatchReservations, RequestsAreSound, ReservationsHaveOneOwner,
     Desk!DeletedEventFreesReservation, Desk!Live, Desk!TypeOK, Desk!NoRow
<1>7. Desk!OrphansAreUnconfirmed'
  <2> PICK r \in Reservations, next \in {"insert", "failed"} :
        /\ reservation' = [reservation EXCEPT ![r] = "active"]
        /\ request' = [request EXCEPT ![q].at = next, ![q].reservation = r]
        /\ unconfirmed' = IF next = "failed" THEN unconfirmed \cup {r} ELSE unconfirmed
    OBVIOUS
  <2>1. /\ request'[q].at = next /\ request'[q].reservation = r
        /\ \A p \in Requests : p # q => request'[p] = request[p]
    BY DEF Desk!TypeOK
  <2>2. \A x \in Reservations : x # r => reservation'[x] = reservation[x]
    BY DEF Desk!TypeOK
  <2>3. /\ request[q].at # "insert" /\ unconfirmed \subseteq unconfirmed'
        /\ UNCHANGED <<row, meeting, forced>>
    OBVIOUS
  <2> SUFFICES ASSUME NEW x \in Reservations, reservation'[x] = "active"
               PROVE  Shown(x)'
    BY ShownReservationsNext
  <2>4. CASE x = r
    BY <2>1, <2>4 DEF Shown
  <2>5. CASE x # r
    <3>1. Shown(x)
      BY <2>2, <2>5, ShownReservations DEF Desk!EventsMatchReservations
    <3> HIDE DEF Desk!Reserve
    <3> QED BY <3>1, <2>1, <2>3 DEF Shown
  <2> QED BY <2>4, <2>5
<1> QED BY <1>1, <1>2, <1>3, <1>4, <1>5, <1>6, <1>7 DEF Desk!EventsMatchReservations

LEMMA DeskInsert ==
  ASSUME DeskInv, NEW q \in Requests, Desk!Insert(q)
  PROVE  DeskInv'
<1> USE DeskAssumption DEF DeskInv, Desk!Insert, Desk!Goto, Desk!Proceed, Desk!Lost, Desk!EventAssumption
<1>1. Desk!TypeOK'
  BY DEF Desk!TypeOK, Desk!NoRow
<1>2. RequestsAreSound'
  <2> PICK e \in Rows, next \in {"done", "failed"} :
        /\ row[e] = Desk!NoRow
        /\ row' = [row EXCEPT ![e] = [state |-> "live", meeting |-> None,
                                      reservation |-> request[q].reservation]]
        /\ request' = [request EXCEPT ![q].at = next]
    OBVIOUS
  <2>1. /\ request'[q].at = next
        /\ \A p \in Requests : p # q => request'[p] = request[p]
    BY DEF Desk!TypeOK
  <2>2. \A f \in Rows : f # e => row'[f] = row[f]
    BY DEF Desk!TypeOK
  <2>3. row[e].state = "absent"
    BY DEF Desk!NoRow
  <2> QED BY <2>1, <2>2, <2>3 DEF RequestsAreSound, Desk!TypeOK, Desk!Live
<1>3. MeetingsAreLinked'
  BY DEF MeetingsAreLinked, RequestsAreSound, ReservationsHaveOneOwner, Desk!TypeOK, Desk!NoRow
<1>4. ReservationsHaveOneOwner'
  BY DEF ReservationsHaveOneOwner, RequestsAreSound, MeetingsAreLinked, Claims, Desk!TypeOK, Desk!NoRow
<1>5. Desk!LiveEventKeepsReservation'
  BY DEF Desk!EventsMatchReservations, ReservationsHaveOneOwner, RequestsAreSound, Claims,
     Desk!LiveEventKeepsReservation, Desk!Live, Desk!TypeOK, MeetingsAreLinked, Desk!NoRow
<1>6. Desk!DeletedEventFreesReservation'
  BY DEF Desk!EventsMatchReservations, RequestsAreSound, ReservationsHaveOneOwner,
     Desk!DeletedEventFreesReservation, Desk!Live, Desk!TypeOK, Desk!NoRow
<1>7. Desk!OrphansAreUnconfirmed'
  BY DEF Desk!EventsMatchReservations, RequestsAreSound, ReservationsHaveOneOwner, Claims,
     Desk!OrphansAreUnconfirmed, Desk!Live, Desk!TypeOK, MeetingsAreLinked, Desk!NoRow
<1> QED BY <1>1, <1>2, <1>3, <1>4, <1>5, <1>6, <1>7 DEF Desk!EventsMatchReservations

LEMMA DeskHandover ==
  ASSUME DeskInv, NEW q \in Requests, Desk!Handover(q)
  PROVE  DeskInv'
<1> DEFINE m == request[q].meeting
<1>m. m \in Meetings
  BY DEF DeskInv, RequestsAreSound, Desk!Handover
<1> PICK r \in Reservations \cup {None}, next \in {"import", "failed"} :
      /\ request[q].at = "handover"
      /\ IF meeting[m].state = "open"
         THEN r \in {None} \cup {x \in Reservations : reservation[x] = "none"}
         ELSE r = meeting[m].reservation
      /\ reservation' = [x \in Reservations |->
                           IF x = r /\ reservation[x] = "none" THEN "active" ELSE reservation[x]]
      /\ meeting' = [meeting EXCEPT ![m] = [state |-> "handed", reservation |-> r]]
      /\ request' = [request EXCEPT ![q].at = next, ![q].reservation = r]
      /\ UNCHANGED <<row, link, doomed, forced, unconfirmed, released>>
  BY DEF Desk!Handover, Desk!SlotReserved, Desk!Reserved
<1>p. /\ request'[q].at = next /\ request'[q].reservation = r /\ request'[q].meeting = m
      /\ \A p \in Requests : p # q => request'[p] = request[p]
  BY DEF DeskInv, Desk!TypeOK
<1>s. /\ meeting'[m].state = "handed" /\ meeting'[m].reservation = r
      /\ \A n \in Meetings : n # m => meeting'[n] = meeting[n]
  BY <1>m DEF DeskInv, Desk!TypeOK
<1>r. /\ meeting[m].reservation # None => meeting[m].reservation = r
      /\ meeting[m].reservation # r /\ r # None => reservation[r] = "none"
  BY <1>m DEF DeskInv, MeetingsAreLinked
<1>a. \A x \in Reservations :
        /\ x # r => reservation'[x] = reservation[x]
        /\ reservation[x] # "none" => reservation'[x] = reservation[x]
        /\ x = r => reservation'[x] # "none"
        /\ x = r /\ reservation[x] = "none" => reservation'[x] = "active"
  BY DEF DeskInv, Desk!TypeOK
<1>u. UNCHANGED <<row, link, doomed, forced, unconfirmed, released>>
  OBVIOUS
<1>1. Desk!TypeOK'
  <2>1. request' \in [Requests -> Asked]
    BY DeskRequestTyped DEF DeskInv, Ats
  <2> QED BY <2>1 DEF DeskInv, Desk!TypeOK, Asked, Ats
<1> HIDE DEF m
<1>2. RequestsAreSound'
  BY <1>m, <1>p, <1>s, <1>r, <1>a, <1>u DEF DeskInv, RequestsAreSound, Desk!TypeOK
<1>3. MeetingsAreLinked'
  BY <1>m, <1>s, <1>r, <1>a, <1>u DEF DeskInv, MeetingsAreLinked, ReservationsHaveOneOwner,
     Desk!TypeOK
<1>4. ReservationsHaveOneOwner'
  BY <1>m, <1>p, <1>s, <1>r, <1>a, <1>u DEF DeskInv, ReservationsHaveOneOwner, Claims, Desk!TypeOK
<1>5. Desk!LiveEventKeepsReservation' /\ Desk!DeletedEventFreesReservation'
  BY <1>a, <1>u DEF DeskInv, Desk!EventsMatchReservations, ReservationsHaveOneOwner,
     Desk!LiveEventKeepsReservation, Desk!DeletedEventFreesReservation, Desk!Live, Desk!TypeOK
<1>6. Desk!OrphansAreUnconfirmed'
  <2> SUFFICES ASSUME NEW x \in Reservations, reservation'[x] = "active"
               PROVE  Shown(x)'
    BY ShownReservationsNext
  <2>1. CASE x = r
    BY <1>m, <1>s, <2>1 DEF Shown
  <2>2. CASE x # r
    <3>1. Shown(x)
      BY <1>a, <2>2, ShownReservations DEF DeskInv, Desk!EventsMatchReservations
    <3>2. request[q].at # "insert"
      OBVIOUS
    <3>3. meeting[m].reservation # x
      BY <1>r, <1>m, <2>2, DeskAssumption DEF Desk!EventAssumption
    <3> QED BY <1>m, <1>p, <1>s, <1>u, <3>1, <3>2, <3>3 DEF Shown
  <2> QED BY <2>1, <2>2
<1> QED BY <1>1, <1>2, <1>3, <1>4, <1>5, <1>6 DEF DeskInv, Desk!EventsMatchReservations

LEMMA DeskImport ==
  ASSUME DeskInv, NEW q \in Requests, Desk!Import(q)
  PROVE  DeskInv'
<1> DEFINE m == request[q].meeting
           made == [state |-> "live", meeting |-> m, reservation |-> request[q].reservation]
<1>m. m \in Meetings
  BY DEF DeskInv, RequestsAreSound, Desk!Import
<1> PICK next \in {"done", "failed"} : request' = [request EXCEPT ![q].at = next]
  BY DEF Desk!Import, Desk!Proceed, Desk!Goto
<1>u. /\ request[q].at = "import"
      /\ UNCHANGED <<reservation, meeting, doomed, forced, unconfirmed, released>>
  BY DEF Desk!Import
<1>p. /\ request'[q].at = next
      /\ \A p \in Requests : p # q => request'[p] = request[p]
  BY DEF DeskInv, Desk!TypeOK
<1>q. request' \in [Requests -> Asked]
  BY DeskRequestTyped DEF DeskInv, Ats
<1>s. /\ meeting[m].state \in {"handed", "cancelled"}
      /\ request[q].reservation = meeting[m].reservation
  BY <1>u DEF DeskInv, RequestsAreSound
<1>1. CASE UNCHANGED <<row, link>>
  <2>1. Desk!TypeOK'
    BY <1>1, <1>u, <1>q DEF DeskInv, Desk!TypeOK, Asked, Ats
  <2>2. RequestsAreSound' /\ MeetingsAreLinked' /\ ReservationsHaveOneOwner'
    BY <1>1, <1>u, <1>p DEF DeskInv, RequestsAreSound, MeetingsAreLinked,
       ReservationsHaveOneOwner, Claims
  <2>3. Desk!EventsMatchReservations'
    BY <1>1, <1>u, <1>p DEF DeskInv, Desk!EventsMatchReservations,
       Desk!LiveEventKeepsReservation, Desk!DeletedEventFreesReservation,
       Desk!OrphansAreUnconfirmed, Desk!Live
  <2> QED BY <2>1, <2>2, <2>3 DEF DeskInv
<1>2. ASSUME NEW e \in Rows, link[m] = None, row[e] = Desk!NoRow,
             row' = [row EXCEPT ![e] = made], link' = [link EXCEPT ![m] = e]
      PROVE  DeskInv'
  <2>1. Desk!TypeOK'
    <3>1. made \in [state : {"absent", "live", "deleted"},
                    reservation : Reservations \cup {None}, meeting : Meetings \cup {None}]
      BY <1>m DEF DeskInv, Desk!TypeOK
    <3> QED BY <1>u, <1>q, <1>2, <3>1 DEF DeskInv, Desk!TypeOK, Asked, Ats
  <2>2. /\ row'[e].state = "live" /\ row'[e].meeting = m
        /\ row'[e].reservation = meeting[m].reservation
        /\ \A f \in Rows : f # e => row'[f] = row[f]
        /\ link'[m] = e /\ \A n \in Meetings : n # m => link'[n] = link[n]
        /\ row[e].state = "absent"
        /\ row[e].reservation = None /\ row[e].meeting = None
    BY <1>m, <1>2, <1>s DEF DeskInv, Desk!TypeOK, Desk!NoRow
  <2>3. /\ \A f \in Rows : row[f].meeting # m
        /\ meeting[m].reservation # None =>
             reservation[meeting[m].reservation] = "active" \/ meeting[m].reservation \in released
    BY <1>2, <1>m, DeskAssumption DEF DeskInv, MeetingsAreLinked, Desk!EventAssumption
  <2> HIDE DEF m, made
  <2>4. RequestsAreSound'
    BY <1>u, <1>p, <2>2 DEF DeskInv, RequestsAreSound
  <2>5. MeetingsAreLinked'
    <3>1. \A f \in Rows : row[f].meeting \in Meetings \cup {None}
      BY DEF DeskInv, Desk!TypeOK
    <3> QED BY <1>m, <1>u, <1>s, <2>2, <2>3, <3>1, DeskAssumption
            DEF DeskInv, MeetingsAreLinked, Desk!EventAssumption
  <2>6. ReservationsHaveOneOwner'
    BY <1>m, <1>u, <1>p, <2>2, <2>3, DeskAssumption
       DEF DeskInv, ReservationsHaveOneOwner, Claims, Desk!EventAssumption
  <2>7. Desk!LiveEventKeepsReservation' /\ Desk!DeletedEventFreesReservation'
    BY <1>u, <2>2, <2>3 DEF DeskInv, Desk!EventsMatchReservations,
       Desk!LiveEventKeepsReservation, Desk!DeletedEventFreesReservation, Desk!Live
  <2>8. Desk!OrphansAreUnconfirmed'
    <3> SUFFICES ASSUME NEW x \in Reservations, reservation'[x] = "active"
                 PROVE  Shown(x)'
      BY ShownReservationsNext
    <3>1. Shown(x)
      BY <1>u, ShownReservations DEF DeskInv, Desk!EventsMatchReservations
    <3>2. row[e].reservation # x
      BY <2>2, DeskAssumption DEF Desk!EventAssumption
    <3> QED BY <1>u, <1>p, <2>2, <3>1, <3>2 DEF Shown
  <2> QED BY <2>1, <2>4, <2>5, <2>6, <2>7, <2>8 DEF DeskInv, Desk!EventsMatchReservations
<1> QED BY <1>1, <1>2 DEF Desk!Import

LEMMA DeskCancel ==
  ASSUME DeskInv, NEW q \in Requests, Desk!Cancel(q)
  PROVE  DeskInv'
<1> USE DeskAssumption DEF DeskInv, Desk!Cancel, Desk!Goto, Desk!Proceed, Desk!Lost, Desk!EventAssumption
<1>1. Desk!TypeOK'
  <2> PICK next \in {"remove", "failed"} : request' = [request EXCEPT ![q].at = next]
    OBVIOUS
  <2>1. request' \in [Requests -> Asked]
    BY DeskRequestTyped DEF Ats
  <2> QED BY <2>1 DEF Desk!TypeOK, Asked, Ats
<1>2. RequestsAreSound'
  BY DEF RequestsAreSound, Desk!TypeOK, Desk!Live
<1>3. MeetingsAreLinked'
  BY DEF MeetingsAreLinked, RequestsAreSound, ReservationsHaveOneOwner, Desk!TypeOK, Desk!NoRow
<1>4. ReservationsHaveOneOwner'
  BY DEF ReservationsHaveOneOwner, RequestsAreSound, MeetingsAreLinked, Claims, Desk!TypeOK, Desk!NoRow
<1>5. Desk!LiveEventKeepsReservation'
  BY DEF Desk!EventsMatchReservations, ReservationsHaveOneOwner, RequestsAreSound, Claims,
     Desk!LiveEventKeepsReservation, Desk!Live, Desk!TypeOK, MeetingsAreLinked, Desk!NoRow
<1>6. Desk!DeletedEventFreesReservation'
  BY DEF Desk!EventsMatchReservations, RequestsAreSound, ReservationsHaveOneOwner,
     Desk!DeletedEventFreesReservation, Desk!Live, Desk!TypeOK, Desk!NoRow
<1>7. Desk!OrphansAreUnconfirmed'
  BY DEF Desk!EventsMatchReservations, RequestsAreSound, ReservationsHaveOneOwner, Claims,
     Desk!OrphansAreUnconfirmed, Desk!Live, Desk!TypeOK, MeetingsAreLinked, Desk!NoRow
<1> QED BY <1>1, <1>2, <1>3, <1>4, <1>5, <1>6, <1>7 DEF Desk!EventsMatchReservations

LEMMA DeskForceOn ==
  ASSUME DeskInv, NEW q \in Requests, Desk!ForceOn(q)
  PROVE  DeskInv'
<1> USE DeskAssumption DEF DeskInv, Desk!ForceOn, Desk!Goto, Desk!Proceed, Desk!Lost, Desk!EventAssumption
<1>1. Desk!TypeOK'
  <2>1. request' \in [Requests -> Asked]
    BY DeskRequestTyped DEF Ats
  <2> QED BY <2>1 DEF Desk!TypeOK, RequestsAreSound, Asked, Ats
<1>2. RequestsAreSound'
  BY DEF RequestsAreSound, Desk!TypeOK, Desk!Live
<1>3. MeetingsAreLinked'
  BY DEF MeetingsAreLinked, RequestsAreSound, ReservationsHaveOneOwner, Desk!TypeOK, Desk!NoRow
<1>4. ReservationsHaveOneOwner'
  BY DEF ReservationsHaveOneOwner, RequestsAreSound, MeetingsAreLinked, Claims, Desk!TypeOK, Desk!NoRow
<1>5. Desk!LiveEventKeepsReservation'
  BY DEF Desk!EventsMatchReservations, ReservationsHaveOneOwner, RequestsAreSound, Claims,
     Desk!LiveEventKeepsReservation, Desk!Live, Desk!TypeOK, MeetingsAreLinked, Desk!NoRow
<1>6. Desk!DeletedEventFreesReservation'
  BY DEF Desk!EventsMatchReservations, RequestsAreSound, ReservationsHaveOneOwner,
     Desk!DeletedEventFreesReservation, Desk!Live, Desk!TypeOK, Desk!NoRow
<1>7. Desk!OrphansAreUnconfirmed'
  BY DEF Desk!EventsMatchReservations, RequestsAreSound, ReservationsHaveOneOwner, Claims,
     Desk!OrphansAreUnconfirmed, Desk!Live, Desk!TypeOK, MeetingsAreLinked, Desk!NoRow
<1> QED BY <1>1, <1>2, <1>3, <1>4, <1>5, <1>6, <1>7 DEF Desk!EventsMatchReservations

LEMMA DeskRemove ==
  ASSUME DeskInv, NEW q \in Requests, Desk!Remove(q)
  PROVE  DeskInv'
<1> DEFINE e == request[q].row
<1>e. e \in Rows /\ request[q].at = "remove"
  BY DEF DeskInv, RequestsAreSound, Desk!Remove
<1> PICK next \in {"done", "failed"} : request' = [request EXCEPT ![q].at = next]
  BY DEF Desk!Remove, Desk!Proceed, Desk!Goto
<1>u. UNCHANGED <<link, reservation, meeting, doomed, forced, unconfirmed, released>>
  BY DEF Desk!Remove
<1>p. /\ request'[q].at = next
      /\ \A p \in Requests : p # q => request'[p] = request[p]
  BY DEF DeskInv, Desk!TypeOK
<1>q. request' \in [Requests -> Asked]
  BY DeskRequestTyped DEF DeskInv, Ats
<1>r. /\ \A f \in Rows : /\ row'[f].reservation = row[f].reservation
                         /\ row'[f].meeting = row[f].meeting
                         /\ f # e => row'[f] = row[f]
                         /\ row'[f].state = "absent" <=> row[f].state = "absent"
      /\ row'[e].state = row[e].state \/ row'[e].state = "deleted"
      /\ row' \in [Rows -> [state : {"absent", "live", "deleted"},
                             reservation : Reservations \cup {None},
                             meeting : Meetings \cup {None}]]
  <2>1. row' = row \/ (row[e].state = "live" /\ row' = [row EXCEPT ![e].state = "deleted"])
    BY DEF Desk!Remove, Desk!Live
  <2> HIDE DEF e
  <2>2. row \in [Rows -> [state : {"absent", "live", "deleted"},
                         reservation : Reservations \cup {None},
                         meeting : Meetings \cup {None}]]
    BY DEF DeskInv, Desk!TypeOK
  <2>3. CASE row' = row
    BY <1>e, <2>2, <2>3
  <2>4. CASE row[e].state = "live" /\ row' = [row EXCEPT ![e].state = "deleted"]
    <3>1. row' \in [Rows -> [state : {"absent", "live", "deleted"},
                            reservation : Reservations \cup {None},
                            meeting : Meetings \cup {None}]]
      BY <1>e, <2>2, <2>4
    <3>2. /\ row'[e] = [row[e] EXCEPT !.state = "deleted"]
          /\ \A f \in Rows : f # e => row'[f] = row[f]
      BY <1>e, <2>2, <2>4
    <3>3. /\ row'[e].state = "deleted" /\ row'[e].reservation = row[e].reservation
          /\ row'[e].meeting = row[e].meeting
      BY <1>e, <2>2, <3>2
    <3> QED BY <2>4, <3>1, <3>2, <3>3
  <2> QED BY <2>1, <2>3, <2>4
<1>s. row[e].reservation # None => reservation[row[e].reservation] = "cancelled" \/ e \in forced
  BY <1>e DEF DeskInv, RequestsAreSound
<1>1. Desk!TypeOK'
  BY <1>u, <1>q, <1>r DEF DeskInv, Desk!TypeOK, Asked, Ats
<1>2. RequestsAreSound'
  BY <1>p, <1>r, <1>u DEF DeskInv, RequestsAreSound
<1> HIDE DEF e
<1>3. MeetingsAreLinked'
  BY <1>r, <1>u DEF DeskInv, MeetingsAreLinked
<1>4. ReservationsHaveOneOwner'
  <2>1. \A f \in Rows : row[f].state = "absent" => row'[f] = row[f]
    BY <1>r DEF DeskInv, Desk!TypeOK
  <2> QED BY <1>p, <1>r, <1>u, <2>1 DEF DeskInv, ReservationsHaveOneOwner, Claims
<1>5. Desk!LiveEventKeepsReservation' /\ Desk!DeletedEventFreesReservation'
  BY <1>e, <1>r, <1>s, <1>u DEF DeskInv, Desk!EventsMatchReservations, Desk!Live,
     Desk!LiveEventKeepsReservation, Desk!DeletedEventFreesReservation
<1>6. Desk!OrphansAreUnconfirmed'
  <2> SUFFICES ASSUME NEW x \in Reservations, reservation'[x] = "active"
               PROVE  Shown(x)'
    BY ShownReservationsNext
  <2>1. Shown(x) /\ x # None
    BY <1>u, ShownReservations, DeskAssumption
       DEF DeskInv, Desk!EventsMatchReservations, Desk!EventAssumption
  <2>2. row[e].reservation = x => e \in forced
    BY <1>s, <1>u, <2>1
  <2> QED BY <1>e, <1>p, <1>r, <1>u, <2>1, <2>2 DEF Shown
<1> QED BY <1>1, <1>2, <1>3, <1>4, <1>5, <1>6 DEF DeskInv, Desk!EventsMatchReservations

LEMMA DeskFinalize ==
  ASSUME DeskInv, NEW q \in Requests, NEW m \in Meetings, Desk!Finalize(q, m)
  PROVE  DeskInv'
<1> USE DeskAssumption DEF DeskInv, Desk!Finalize, Desk!Goto, Desk!Proceed, Desk!Lost, Desk!EventAssumption
<1>1. Desk!TypeOK'
  <2>1. request' \in [Requests -> Asked]
    BY DeskRequestTyped DEF Ats
  <2> QED BY <2>1 DEF Desk!TypeOK, Asked, Ats
<1>2. RequestsAreSound'
  BY DEF RequestsAreSound, Desk!TypeOK, Desk!Live
<1>3. MeetingsAreLinked'
  BY DEF MeetingsAreLinked, RequestsAreSound, ReservationsHaveOneOwner, Desk!TypeOK, Desk!NoRow
<1>4. ReservationsHaveOneOwner'
  BY DEF ReservationsHaveOneOwner, RequestsAreSound, MeetingsAreLinked, Claims, Desk!TypeOK, Desk!NoRow
<1>5. Desk!LiveEventKeepsReservation'
  BY DEF Desk!EventsMatchReservations, ReservationsHaveOneOwner, RequestsAreSound, Claims,
     Desk!LiveEventKeepsReservation, Desk!Live, Desk!TypeOK, MeetingsAreLinked, Desk!NoRow
<1>6. Desk!DeletedEventFreesReservation'
  BY DEF Desk!EventsMatchReservations, RequestsAreSound, ReservationsHaveOneOwner,
     Desk!DeletedEventFreesReservation, Desk!Live, Desk!TypeOK, Desk!NoRow
<1>7. Desk!OrphansAreUnconfirmed'
  <2> SUFFICES ASSUME NEW x \in Reservations, reservation'[x] = "active"
               PROVE  Shown(x)'
    BY ShownReservationsNext
  <2>1. Shown(x)
    BY ShownReservations DEF Desk!EventsMatchReservations
  <2>2. /\ request[q].at # "insert" /\ \A p \in Requests : p # q => request'[p] = request[p]
        /\ UNCHANGED <<row, meeting, forced, unconfirmed>>
    BY DEF Desk!TypeOK
  <2> HIDE DEF DeskInv, Desk!Finalize
  <2> QED BY <2>1, <2>2 DEF Shown
<1> QED BY <1>1, <1>2, <1>3, <1>4, <1>5, <1>6, <1>7 DEF Desk!EventsMatchReservations

LEMMA DeskDelete ==
  ASSUME DeskInv, NEW q \in Requests, NEW e \in Rows, Desk!Delete(q, e)
  PROVE  DeskInv'
<1> USE DeskAssumption DEF DeskInv, Desk!Delete, Desk!Goto, Desk!Proceed, Desk!Lost, Desk!EventAssumption
<1>1. Desk!TypeOK'
  BY DEF Desk!TypeOK, Desk!NoRow
<1>2. RequestsAreSound'
  BY DEF RequestsAreSound, Desk!TypeOK, Desk!Live
<1>3. MeetingsAreLinked'
  BY DEF MeetingsAreLinked, RequestsAreSound, ReservationsHaveOneOwner, Desk!TypeOK, Desk!NoRow
<1>4. ReservationsHaveOneOwner'
  BY DEF ReservationsHaveOneOwner, RequestsAreSound, MeetingsAreLinked, Claims, Desk!TypeOK, Desk!NoRow
<1>5. Desk!LiveEventKeepsReservation'
  BY DEF Desk!EventsMatchReservations, ReservationsHaveOneOwner, RequestsAreSound, Claims,
     Desk!LiveEventKeepsReservation, Desk!Live, Desk!TypeOK, MeetingsAreLinked, Desk!NoRow
<1>6. Desk!DeletedEventFreesReservation'
  BY DEF Desk!EventsMatchReservations, RequestsAreSound, ReservationsHaveOneOwner,
     Desk!DeletedEventFreesReservation, Desk!Live, Desk!TypeOK, Desk!NoRow
<1>7. Desk!OrphansAreUnconfirmed'
  BY DEF Desk!EventsMatchReservations, RequestsAreSound, ReservationsHaveOneOwner, Claims,
     Desk!OrphansAreUnconfirmed, Desk!Live, Desk!TypeOK, MeetingsAreLinked, Desk!NoRow
<1> QED BY <1>1, <1>2, <1>3, <1>4, <1>5, <1>6, <1>7 DEF Desk!EventsMatchReservations

(* The booking page cancels reservations: those of the meetings it         *)
(* changes, which have no event yet, are among them.                       *)
LEMMA DeskReleased ==
  ASSUME DeskInv, NEW rs \in SUBSET Reservations, Desk!Release(rs),
         UNCHANGED <<request, row, link, doomed, forced, unconfirmed>>,
         meeting' \in [Meetings -> [state : {"open", "finalized", "handed", "cancelled"},
                                   reservation : Reservations \cup {None}]],
         \A m \in Meetings : meeting'[m] # meeting[m] =>
           /\ meeting[m].state \in {"open", "finalized"}
           /\ meeting[m].reservation \in rs \cup {None}
           /\ \/ meeting'[m].reservation = None
              \/ meeting'[m].state = "cancelled" /\ meeting'[m].reservation = meeting[m].reservation
  PROVE  DeskInv'
<1>1. /\ \A x \in Reservations : /\ x \notin rs => reservation'[x] = reservation[x]
                                 /\ x \in rs => reservation'[x] = "cancelled"
                                 /\ reservation[x] = "cancelled" => reservation'[x] = "cancelled"
      /\ released' = released \cup rs
  BY DEF Desk!Release
<1>2. Desk!TypeOK'
  BY DEF DeskInv, Desk!TypeOK, Desk!Release
<1>3. RequestsAreSound'
  <2>1. \A e \in Rows : row[e].reservation \in Reservations \cup {None}
    BY DEF DeskInv, Desk!TypeOK
  <2> QED BY <1>1, <2>1 DEF DeskInv, RequestsAreSound
<1>4. MeetingsAreLinked'
  <2>1. /\ \A e \in Rows : row[e].meeting \in Meetings \cup {None}
        /\ \A m \in Meetings : meeting[m].reservation \in Reservations \cup {None}
    BY DEF DeskInv, Desk!TypeOK
  <2> QED BY <1>1, <2>1 DEF DeskInv, MeetingsAreLinked
<1>5. ReservationsHaveOneOwner'
  <2>1. /\ \A e \in Rows : row[e].reservation \in Reservations \cup {None}
        /\ \A q \in Requests : request[q].reservation \in Reservations \cup {None}
        /\ \A m \in Meetings : meeting[m].reservation \in Reservations \cup {None}
        /\ released \subseteq Reservations
    BY DEF DeskInv, Desk!TypeOK
  <2>2. \A m \in Meetings : meeting'[m].reservation \in {meeting[m].reservation, None}
    OBVIOUS
  <2> QED BY <1>1, <2>1, <2>2 DEF DeskInv, ReservationsHaveOneOwner, Claims
<1>6. Desk!LiveEventKeepsReservation' /\ Desk!DeletedEventFreesReservation'
  <2>1. \A e \in Rows : row[e].reservation \in Reservations \cup {None}
    BY DEF DeskInv, Desk!TypeOK
  <2> QED BY <1>1, <2>1 DEF DeskInv, Desk!EventsMatchReservations, Desk!Live,
          Desk!LiveEventKeepsReservation, Desk!DeletedEventFreesReservation
<1>7. Desk!OrphansAreUnconfirmed'
  <2> SUFFICES ASSUME NEW x \in Reservations, reservation'[x] = "active"
               PROVE  Shown(x)'
    BY ShownReservationsNext
  <2>1. x \notin rs /\ x # None /\ Shown(x)
    BY <1>1, ShownReservations, DeskAssumption
       DEF DeskInv, Desk!EventsMatchReservations, Desk!EventAssumption
  <2>2. \A m \in Meetings : meeting[m].reservation = x => meeting'[m] = meeting[m]
    BY <2>1
  <2> QED BY <2>1, <2>2 DEF Shown
<1> QED BY <1>2, <1>3, <1>4, <1>5, <1>6, <1>7 DEF DeskInv, Desk!EventsMatchReservations

LEMMA DeskCancelReservation ==
  ASSUME DeskInv, NEW r \in Reservations, Desk!CancelReservation(r)
  PROVE  DeskInv'
<1>1. meeting' \in [Meetings -> [state : {"open", "finalized", "handed", "cancelled"},
                                 reservation : Reservations \cup {None}]]
  BY DEF DeskInv, Desk!TypeOK, Desk!CancelReservation
<1>2. UNCHANGED <<request, row, link, meeting, doomed, forced, unconfirmed>>
  BY DEF Desk!CancelReservation
<1> QED BY <1>1, <1>2, DeskReleased DEF Desk!CancelReservation

LEMMA DeskReopenMeeting ==
  ASSUME DeskInv, NEW m \in Meetings, Desk!ReopenMeeting(m)
  PROVE  DeskInv'
<1> DEFINE rs == {meeting[m].reservation} \ {None}
           fresh == [state |-> "open", reservation |-> None]
<1>1. rs \in SUBSET Reservations
  BY DEF DeskInv, Desk!TypeOK
<1>2. /\ meeting[m].state = "finalized" /\ Desk!Release(rs)
      /\ meeting' = [meeting EXCEPT ![m] = fresh]
      /\ UNCHANGED <<request, row, link, doomed, forced, unconfirmed>>
  BY DEF Desk!ReopenMeeting
<1>3. fresh.reservation = None /\ meeting[m].reservation \in rs \cup {None}
  OBVIOUS
<1>4. meeting \in [Meetings -> [state : {"open", "finalized", "handed", "cancelled"},
                                reservation : Reservations \cup {None}]]
  BY DEF DeskInv, Desk!TypeOK
<1>5. fresh \in [state : {"open", "finalized", "handed", "cancelled"},
                 reservation : Reservations \cup {None}]
  OBVIOUS
<1> HIDE DEF rs, fresh
<1>6. /\ meeting' \in [Meetings -> [state : {"open", "finalized", "handed", "cancelled"},
                                    reservation : Reservations \cup {None}]]
      /\ \A n \in Meetings : meeting'[n] # meeting[n] => n = m /\ meeting'[n].reservation = None
  BY <1>2, <1>3, <1>4, <1>5
<1> QED BY <1>1, <1>2, <1>3, <1>6, DeskReleased

LEMMA DeskCancelMeeting ==
  ASSUME DeskInv, NEW m \in Meetings, Desk!CancelMeeting(m)
  PROVE  DeskInv'
<1> DEFINE rs == {meeting[m].reservation} \ {None}
<1>1. rs \in SUBSET Reservations
  BY DEF DeskInv, Desk!TypeOK
<1>2. /\ meeting[m].state \in {"open", "finalized"} /\ Desk!Release(rs)
      /\ meeting' = [meeting EXCEPT ![m].state = "cancelled"]
      /\ UNCHANGED <<request, row, link, doomed, forced, unconfirmed>>
  BY DEF Desk!CancelMeeting
<1>3. meeting[m].reservation \in rs \cup {None}
  OBVIOUS
<1>4. meeting \in [Meetings -> [state : {"open", "finalized", "handed", "cancelled"},
                                reservation : Reservations \cup {None}]]
  BY DEF DeskInv, Desk!TypeOK
<1> HIDE DEF rs
<1>6. /\ meeting' \in [Meetings -> [state : {"open", "finalized", "handed", "cancelled"},
                                    reservation : Reservations \cup {None}]]
      /\ \A n \in Meetings : meeting'[n] # meeting[n] =>
           /\ n = m /\ meeting'[n].state = "cancelled"
           /\ meeting'[n].reservation = meeting[n].reservation
  BY <1>2, <1>4
<1> QED BY <1>1, <1>2, <1>3, <1>6, DeskReleased

LEMMA DeskFinalizeMeeting ==
  ASSUME DeskInv, NEW m \in Meetings, Desk!FinalizeMeeting(m)
  PROVE  DeskInv'
<1> PICK r \in Reservations \cup {None} :
      /\ meeting[m].state = "open"
      /\ r \in {None} \cup {x \in Reservations : reservation[x] = "none"}
      /\ reservation' = [x \in Reservations |->
                           IF x = r /\ reservation[x] = "none" THEN "active" ELSE reservation[x]]
      /\ meeting' = [meeting EXCEPT ![m] = [state |-> "finalized", reservation |-> r]]
      /\ UNCHANGED <<request, row, link, doomed, forced, unconfirmed, released>>
  BY DEF Desk!FinalizeMeeting, Desk!SlotReserved, Desk!Reserved
<1>s. /\ meeting'[m].state = "finalized" /\ meeting'[m].reservation = r
      /\ \A n \in Meetings : n # m => meeting'[n] = meeting[n]
  BY DEF DeskInv, Desk!TypeOK
<1>r. /\ meeting[m].reservation = None /\ meeting[m].state = "open"
      /\ r # None => r \in Reservations /\ reservation[r] = "none"
  BY DEF DeskInv, MeetingsAreLinked
<1>a. \A x \in Reservations :
        /\ x # r => reservation'[x] = reservation[x]
        /\ reservation[x] # "none" => reservation'[x] = reservation[x]
        /\ x = r => reservation'[x] = "active"
  BY <1>r, DeskAssumption DEF Desk!EventAssumption
<1>u. UNCHANGED <<request, row, link, doomed, forced, unconfirmed, released>>
  OBVIOUS
<1>1. Desk!TypeOK'
  <2> DEFINE fixed == [state |-> "finalized", reservation |-> r]
  <2>1. fixed \in [state : {"open", "finalized", "handed", "cancelled"},
                  reservation : Reservations \cup {None}]
    OBVIOUS
  <2>2. meeting' = [meeting EXCEPT ![m] = fixed]
    OBVIOUS
  <2> HIDE DEF fixed
  <2>3. meeting' \in [Meetings -> [state : {"open", "finalized", "handed", "cancelled"},
                                  reservation : Reservations \cup {None}]]
    BY <2>1, <2>2 DEF DeskInv, Desk!TypeOK
  <2>4. reservation' \in [Reservations -> {"none", "active", "cancelled"}]
    BY DEF DeskInv, Desk!TypeOK
  <2> QED BY <1>u, <2>3, <2>4 DEF DeskInv, Desk!TypeOK
<1>2. RequestsAreSound'
  BY <1>s, <1>r, <1>a, <1>u DEF DeskInv, RequestsAreSound, Desk!TypeOK
<1>3. MeetingsAreLinked'
  BY <1>s, <1>r, <1>a, <1>u DEF DeskInv, MeetingsAreLinked, ReservationsHaveOneOwner, Desk!TypeOK
<1>4. ReservationsHaveOneOwner'
  BY <1>s, <1>r, <1>a, <1>u DEF DeskInv, ReservationsHaveOneOwner, Claims, Desk!TypeOK
<1>5. Desk!LiveEventKeepsReservation' /\ Desk!DeletedEventFreesReservation'
  BY <1>a, <1>u DEF DeskInv, Desk!EventsMatchReservations, ReservationsHaveOneOwner,
     Desk!LiveEventKeepsReservation, Desk!DeletedEventFreesReservation, Desk!Live, Desk!TypeOK
<1>6. Desk!OrphansAreUnconfirmed'
  <2> SUFFICES ASSUME NEW x \in Reservations, reservation'[x] = "active"
               PROVE  Shown(x)'
    BY ShownReservationsNext
  <2>1. CASE x = r
    BY <1>s, <2>1 DEF Shown
  <2>2. CASE x # r
    <3>1. Shown(x) /\ x # None
      BY <1>a, <2>2, ShownReservations, DeskAssumption
         DEF DeskInv, Desk!EventsMatchReservations, Desk!EventAssumption
    <3> QED BY <1>s, <1>r, <1>u, <3>1 DEF Shown
  <2> QED BY <2>1, <2>2
<1> QED BY <1>1, <1>2, <1>3, <1>4, <1>5, <1>6 DEF DeskInv, Desk!EventsMatchReservations

(* Every step of the events' handlers and of the booking page keeps the    *)
(* invariant.                                                              *)
LEMMA DeskStep == DeskInv /\ [Desk!Next]_deskVars => DeskInv'
<1> SUFFICES ASSUME DeskInv, [Desk!Next]_deskVars PROVE DeskInv'
  OBVIOUS
<1>1. ASSUME UNCHANGED deskVars PROVE DeskInv'
  BY <1>1 DEF deskVars, DeskInv, Desk!TypeOK, RequestsAreSound, MeetingsAreLinked,
     ReservationsHaveOneOwner, Claims, Desk!EventsMatchReservations,
     Desk!LiveEventKeepsReservation, Desk!DeletedEventFreesReservation,
     Desk!OrphansAreUnconfirmed, Desk!Live
<1>2. ASSUME NEW q \in Requests, NEW m \in Meetings, Desk!Finalize(q, m) PROVE DeskInv'
  BY <1>2, DeskFinalize
<1>3. ASSUME NEW q \in Requests, NEW e \in Rows, Desk!Delete(q, e) PROVE DeskInv'
  BY <1>3, DeskDelete
<1>4. ASSUME NEW q \in Requests, Desk!Handle(q) PROVE DeskInv'
  BY <1>2, <1>3, <1>4, DeskFail, DeskCreate, DeskReserve, DeskInsert, DeskHandover,
     DeskImport, DeskCancel, DeskForceOn, DeskRemove DEF Desk!Handle
<1>5. ASSUME Desk!Book PROVE DeskInv'
  BY <1>5, DeskCancelReservation, DeskFinalizeMeeting, DeskReopenMeeting, DeskCancelMeeting
     DEF Desk!Book
<1> QED BY <1>1, <1>4, <1>5 DEF Desk!Next

(* The rows of a meeting are the one its link names.                       *)
LEMMA DeskOneEvent == DeskInv => Desk!OneEventPerMeeting
<1> SUFFICES ASSUME DeskInv, NEW m \in Meetings
             PROVE  Cardinality({e \in Rows : row[e].meeting = m}) <= 1
  BY DEF Desk!OneEventPerMeeting, Desk!Cardinality, Cardinality
<1>1. \A e \in Rows : row[e].meeting = m => link[m] = e
  BY DeskAssumption DEF DeskInv, MeetingsAreLinked, Desk!EventAssumption
<1>2. CASE {e \in Rows : row[e].meeting = m} = {}
  BY <1>2, FS_EmptySet
<1>3. CASE {e \in Rows : row[e].meeting = m} # {}
  <2>1. {e \in Rows : row[e].meeting = m} = {link[m]}
    BY <1>1, <1>3
  <2>2. Cardinality({link[m]}) = 1
    BY FS_Singleton
  <2> QED BY <2>1, <2>2
<1> QED BY <1>2, <1>3

(* GLAB's events and Aedilis' reservations and meetings agree in every     *)
(* interleaving of requests with each other and with the booking page      *)
(* (plugins/events/index.ts:251, plugins/facility/meeting-event.ts), for   *)
(* any numbers of requests, rows, reservations and meetings: a live event  *)
(* keeps its reservation unless it is cancelled at that page, a deleted    *)
(* one frees it, an orphan was answered with an error, and a meeting       *)
(* becomes one event.                                                      *)
THEOREM EventsMatch == Desk!Spec => []EventsMatchAedilis
<1>1. DeskInv => EventsMatchAedilis
  BY DeskOneEvent DEF EventsMatchAedilis, Desk!EventsMatchAedilis, DeskInv
<1> QED BY <1>1, DeskBegins, DeskStep, PTL DEF Desk!Spec, deskVars, Desk!vars

-----------------------------------------------------------------------------
(* Attendance.                                                             *)

(* While an attestation can still be presented, or waits, its nonce is     *)
(* kept: a nonce is no older than its attestation and the clock's error,   *)
(* and is deleted after both have run out.                                 *)
NoncesOutlive ==
  /\ \A a \in Attestations :
       /\ accepted[a] # 0 => accepted[a] = 1 /\ attest[a] # None
       /\ nonce[a] # None =>
            /\ accepted[a] = 1
            /\ attest[a].age >= nonce[a] - Freshness \/ attest[a].age > Freshness
       /\ accepted[a] # 0 /\ nonce[a] = None =>
            /\ attest[a].age > Freshness
            /\ \A w \in Waits : waiting[w] # None => waiting[w].attestation # a
  /\ \A w \in Waits : waiting[w] # None =>
       /\ attest[waiting[w].attestation] # None
       /\ nonce[waiting[w].attestation] # None =>
            nonce[waiting[w].attestation] <= Freshness + AutoFreshness + waiting[w].age

(* How far a GPS check-in has come, and what it has left behind.           *)
GpsSteps == {"idle", "relayed", "accepted", "photo", "written", "done"}
GpsTyped ==
  gps \in [GpsRequests -> [at : GpsSteps, user : Visitors \cup {None},
                           photo : Photos \cup {None}, linked : BOOLEAN]]
GpsIsBacked ==
  \A g \in GpsRequests :
    /\ gps[g].at = "idle" => gps[g] = Attendance!Idle
    /\ gps[g].at # "idle" => gps[g].user \in Visitors /\ gps[g].photo \in Photos
    /\ gps[g].at \in {"accepted", "photo", "written"} => gps[g].photo \in aedilis
    /\ gps[g].at = "written" => gps[g].photo \in files
    /\ gps[g].linked => gps[g].user \in Visitors /\ arrivals[gps[g].user] # None

AttendanceInv ==
  /\ Attendance!TypeOK /\ NoncesOutlive
  /\ GpsTyped /\ GpsIsBacked /\ Attendance!GpsRecordsAreBacked

LEMMA AttendanceBegins == Attendance!Init => AttendanceInv
BY ArrivalsAssumption DEF Attendance!Init, AttendanceInv, Attendance!TypeOK, NoncesOutlive,
   GpsTyped, GpsSteps, GpsIsBacked, Attendance!GpsRecordsAreBacked, Attendance!Idle,
   Attendance!AttendanceAssumption

(* What is over of an attestation's time when its nonce is deleted.        *)
LEMMA PurgedNonces ==
  ASSUME AttendanceInv, NEW a \in Attestations, nonce[a] # None, Attendance!Purged[a] = None
  PROVE  /\ attest[a].age > Freshness
         /\ \A w \in Waits : waiting[w] # None => waiting[w].attestation # a
<1>1. nonce[a] \in 0..(Retention + 1) /\ nonce[a] > Retention /\ attest[a] # None
  BY ArrivalsAssumption DEF AttendanceInv, Attendance!TypeOK, Attendance!Purged,
     Attendance!AttendanceAssumption, NoncesOutlive
<1>2. attest[a].age \in Int
  BY <1>1, ArrivalsAssumption DEF AttendanceInv, Attendance!TypeOK, Attendance!AttendanceAssumption
<1>3. attest[a].age > Freshness
  BY <1>1, <1>2, ArrivalsAssumption DEF AttendanceInv, NoncesOutlive, Attendance!AttendanceAssumption
<1>4. ASSUME NEW w \in Waits, waiting[w] # None, waiting[w].attestation = a PROVE FALSE
  <2>1. waiting[w].age \in 0..MaxWait
    BY <1>4 DEF AttendanceInv, Attendance!TypeOK
  <2>2. nonce[a] <= Freshness + AutoFreshness + waiting[w].age
    BY <1>1, <1>4 DEF AttendanceInv, NoncesOutlive
  <2> QED BY <1>1, <2>1, <2>2, ArrivalsAssumption DEF Attendance!AttendanceAssumption
<1> QED BY <1>3, <1>4

(* The first row of a day stays; what else is written has its source.      *)
LEMMA RecordedArrivals ==
  ASSUME AttendanceInv, NEW u \in Visitors, NEW source \in {"attested", "session", "manual", "gps"},
         NEW ev \in BOOLEAN, arrivals' = Attendance!Recorded(u, source, ev)
  PROVE  /\ arrivals' \in [Visitors -> [source : {"attested", "session", "manual", "gps"},
                                    event : BOOLEAN] \cup {None}]
         /\ arrivals'[u] # None
         /\ \A v \in Visitors :
              /\ arrivals[v] # None => arrivals'[v] = arrivals[v]
              /\ arrivals'[v] # arrivals[v] => v = u /\ arrivals'[v].source = source
<1> DEFINE entry == [source |-> source, event |-> ev]
<1>1. arrivals \in [Visitors -> [source : {"attested", "session", "manual", "gps"},
                                event : BOOLEAN] \cup {None}]
  BY DEF AttendanceInv, Attendance!TypeOK
<1>2. /\ entry \in [source : {"attested", "session", "manual", "gps"}, event : BOOLEAN]
      /\ entry # None /\ entry.source = source
  BY ArrivalsAssumption DEF Attendance!AttendanceAssumption
<1>3. arrivals' = IF arrivals[u] = None THEN [arrivals EXCEPT ![u] = entry] ELSE arrivals
  BY DEF Attendance!Recorded
<1> HIDE DEF entry
<1> QED BY <1>1, <1>2, <1>3

(* What the other routes write leaves GPS check-ins as they are.           *)
LEMMA OtherArrivals ==
  ASSUME AttendanceInv, UNCHANGED <<gps, aedilis, files, photoRow>>,
         \A u \in Visitors :
           /\ arrivals[u] # None => arrivals'[u] = arrivals[u]
           /\ arrivals'[u] # arrivals[u] => arrivals'[u].source # "gps"
  PROVE  GpsTyped' /\ GpsIsBacked' /\ Attendance!GpsRecordsAreBacked'
<1>1. GpsTyped' /\ GpsIsBacked'
  BY DEF AttendanceInv, GpsTyped, GpsIsBacked
<1>2. \A p \in Photos : photoRow[p] # None => photoRow[p].user \in Visitors
  BY DEF AttendanceInv, Attendance!TypeOK
<1>3. Attendance!GpsRecordsAreBacked'
  BY <1>2 DEF AttendanceInv, Attendance!GpsRecordsAreBacked
<1> QED BY <1>1, <1>3

(* The end of both routes: an attestation that is still accepted had not   *)
(* been, and leaves its nonce.                                             *)
LEMMA AttendanceUse ==
  ASSUME AttendanceInv, NEW a \in Attestations, NEW source \in {"attested", "session"},
         Attendance!Use(a, source), attest[a] # None,
         attest[a].age <= Freshness
           \/ \E w \in Waits : waiting[w] # None /\ waiting[w].attestation = a,
         attest' = attest, \A w \in Waits : waiting'[w] \in {waiting[w], None},
         waiting' \in [Waits -> [attestation : Attestations, age : 0..MaxWait] \cup {None}],
         UNCHANGED <<gps, aedilis, files, photoRow, event, approval, gateway>>
  PROVE  AttendanceInv'
<1> USE ArrivalsAssumption DEF Attendance!AttendanceAssumption
<1>1. attest[a].sub \in Visitors /\ attest[a].age \in Int /\ attest[a].age >= -Freshness
  BY DEF AttendanceInv, Attendance!TypeOK
<1>2. Attendance!Purged[a] = None => nonce[a] = None /\ accepted[a] = 0
  <2>1. nonce[a] # None => Attendance!Purged[a] # None
    BY PurgedNonces, <1>1
  <2>2. nonce[a] = None => accepted[a] = 0
    BY <1>1 DEF AttendanceInv, NoncesOutlive, Attendance!TypeOK
  <2> QED BY <2>1, <2>2
<1>p. /\ Attendance!Purged \in [Attestations -> 0..(Retention + 1) \cup {None}]
      /\ \A b \in Attestations : Attendance!Purged[b] \in {nonce[b], None}
      /\ accepted \in [Attestations -> Nat]
  BY DEF Attendance!Purged, AttendanceInv, Attendance!TypeOK
<1>3. /\ \A b \in Attestations :
           /\ nonce'[b] = IF b = a /\ Attendance!Purged[a] = None THEN 0 ELSE Attendance!Purged[b]
           /\ accepted'[b] = IF b = a /\ Attendance!Purged[a] = None THEN 1 ELSE accepted[b]
      /\ nonce' \in [Attestations -> 0..(Retention + 1) \cup {None}]
      /\ accepted' \in [Attestations -> Nat]
  <2>1. CASE Attendance!Purged[a] = None
    BY <1>2, <1>p, <2>1 DEF Attendance!Use
  <2>2. CASE Attendance!Purged[a] # None
    BY <1>p, <2>2 DEF Attendance!Use
  <2> QED BY <2>1, <2>2
<1>5. /\ arrivals' \in [Visitors -> [source : {"attested", "session", "manual", "gps"},
                                     event : BOOLEAN] \cup {None}]
      /\ \A u \in Visitors :
           /\ arrivals[u] # None => arrivals'[u] = arrivals[u]
           /\ arrivals'[u] # arrivals[u] => arrivals'[u].source # "gps"
  <2>1. CASE arrivals' = Attendance!Recorded(attest[a].sub, source, FALSE)
    <3>1. source \in {"attested", "session", "manual", "gps"} /\ source # "gps" /\ FALSE \in BOOLEAN
      OBVIOUS
    <3> QED BY <1>1, <2>1, <3>1, RecordedArrivals
  <2>2. CASE arrivals' = arrivals
    BY <2>2 DEF AttendanceInv, Attendance!TypeOK
  <2> QED BY <2>1, <2>2 DEF Attendance!Use
<1>6. Attendance!TypeOK'
  BY <1>3, <1>5 DEF AttendanceInv, Attendance!TypeOK
<1>7. NoncesOutlive'
  <2>1. ASSUME NEW b \in Attestations
        PROVE  /\ accepted'[b] # 0 => accepted'[b] = 1 /\ attest'[b] # None
               /\ nonce'[b] # None =>
                    /\ accepted'[b] = 1
                    /\ attest'[b].age >= nonce'[b] - Freshness \/ attest'[b].age > Freshness
               /\ accepted'[b] # 0 /\ nonce'[b] = None =>
                    /\ attest'[b].age > Freshness
                    /\ \A w \in Waits : waiting'[w] # None => waiting'[w].attestation # b
    <3>1. CASE b = a /\ Attendance!Purged[a] = None
      BY <1>1, <1>3, <3>1
    <3>2. CASE ~(b = a /\ Attendance!Purged[a] = None)
      BY <1>3, <1>p, <3>2, PurgedNonces DEF AttendanceInv, NoncesOutlive
    <3> QED BY <3>1, <3>2
  <2>2. ASSUME NEW w \in Waits, waiting'[w] # None
        PROVE  /\ attest'[waiting'[w].attestation] # None
               /\ nonce'[waiting'[w].attestation] # None =>
                    nonce'[waiting'[w].attestation] <= Freshness + AutoFreshness + waiting'[w].age
    <3>1. waiting'[w] = waiting[w]
      BY <2>2
    <3>2. waiting[w].attestation \in Attestations /\ waiting[w].age \in 0..MaxWait
      BY <2>2, <3>1 DEF AttendanceInv, Attendance!TypeOK
    <3> QED BY <1>3, <1>p, <2>2, <3>1, <3>2 DEF AttendanceInv, NoncesOutlive
  <2> QED BY <2>1, <2>2 DEF NoncesOutlive
<1>8. GpsTyped' /\ GpsIsBacked' /\ Attendance!GpsRecordsAreBacked'
  BY <1>5, OtherArrivals
<1> QED BY <1>6, <1>7, <1>8 DEF AttendanceInv

(* Issuing, waiting and the clock.                                         *)
LEMMA AttestationSteps ==
  ASSUME AttendanceInv,
         \/ \E a \in Attestations : Attendance!Issue(a)
         \/ \E a \in Attestations, w \in Waits : Attendance!AutomaticVerified(a, w)
         \/ Attendance!Tick
  PROVE  AttendanceInv'
<1> USE ArrivalsAssumption DEF Attendance!AttendanceAssumption, Attendance!SameGps,
        Attendance!SameEvent
<1>1. UNCHANGED <<accepted, arrivals, gateway, gps, aedilis, files, photoRow, event, approval>>
  BY DEF Attendance!Issue, Attendance!AutomaticVerified, Attendance!Tick
<1>2. GpsTyped' /\ GpsIsBacked' /\ Attendance!GpsRecordsAreBacked'
  BY <1>1 DEF AttendanceInv, GpsTyped, GpsIsBacked, Attendance!GpsRecordsAreBacked
<1>3. ASSUME NEW a \in Attestations, Attendance!Issue(a)
      PROVE  Attendance!TypeOK' /\ NoncesOutlive'
  <2> PICK u \in Visitors, age0 \in -Freshness..0 :
        /\ attest' = [attest EXCEPT ![a] = [sub |-> u, age |-> age0]]
        /\ attest[a] = None /\ UNCHANGED <<nonce, waiting>>
    BY <1>3 DEF Attendance!Issue
  <2>1. Attendance!TypeOK'
    BY <1>1 DEF AttendanceInv, Attendance!TypeOK
  <2>2. accepted[a] = 0 /\ nonce[a] = None
    BY DEF AttendanceInv, NoncesOutlive
  <2>3. /\ \A b \in Attestations : b # a => attest'[b] = attest[b]
        /\ \A w \in Waits : waiting[w] # None =>
             waiting[w].attestation # a /\ waiting[w].attestation \in Attestations
    BY DEF AttendanceInv, NoncesOutlive, Attendance!TypeOK
  <2>4. NoncesOutlive'
    BY <1>1, <2>2, <2>3 DEF AttendanceInv, NoncesOutlive
  <2> QED BY <2>1, <2>4
<1>4. ASSUME NEW a \in Attestations, NEW w \in Waits, Attendance!AutomaticVerified(a, w)
      PROVE  Attendance!TypeOK' /\ NoncesOutlive'
  <2>1. /\ waiting' = [waiting EXCEPT ![w] = [attestation |-> a, age |-> 0]]
        /\ attest[a] # None /\ attest[a].age <= AutoFreshness /\ UNCHANGED <<attest, nonce>>
    BY <1>4 DEF Attendance!AutomaticVerified, Attendance!Fresh, AttendanceInv, Attendance!TypeOK
  <2>2. Attendance!TypeOK'
    BY <1>1, <2>1 DEF AttendanceInv, Attendance!TypeOK
  <2>3. nonce[a] # None => nonce[a] <= Freshness + AutoFreshness
    BY <2>1 DEF AttendanceInv, NoncesOutlive, Attendance!TypeOK
  <2>4. ~(accepted[a] # 0 /\ nonce[a] = None)
    BY <2>1 DEF AttendanceInv, NoncesOutlive, Attendance!TypeOK
  <2>5. /\ waiting'[w].attestation = a /\ waiting'[w].age = 0
        /\ \A v \in Waits : v # w => waiting'[v] = waiting[v]
    BY <2>1 DEF AttendanceInv, Attendance!TypeOK
  <2>6. nonce[a] # None => nonce[a] \in Int
    BY DEF AttendanceInv, Attendance!TypeOK
  <2>7. NoncesOutlive'
    BY <1>1, <2>1, <2>3, <2>4, <2>5, <2>6 DEF AttendanceInv, NoncesOutlive
  <2> QED BY <2>2, <2>7
<1>5. ASSUME Attendance!Tick PROVE Attendance!TypeOK' /\ NoncesOutlive'
  <2>1. ASSUME NEW a \in Attestations
        PROVE  /\ attest'[a] \in [sub : Visitors, age : -Freshness..(Freshness + 1)] \cup {None}
               /\ nonce'[a] \in 0..(Retention + 1) \cup {None}
               /\ attest'[a] # None <=> attest[a] # None
               /\ nonce'[a] # None <=> nonce[a] # None
               /\ attest[a] # None => attest'[a].age =
                    IF attest[a].age <= Freshness THEN attest[a].age + 1 ELSE attest[a].age
               /\ nonce[a] # None => nonce'[a] =
                    IF nonce[a] <= Retention THEN nonce[a] + 1 ELSE nonce[a]
    <3>1. attest[a] # None => attest[a].age \in -Freshness..(Freshness + 1)
      BY DEF AttendanceInv, Attendance!TypeOK
    <3> QED BY <1>5, <3>1 DEF AttendanceInv, Attendance!TypeOK, Attendance!Tick
  <2>2. ASSUME NEW w \in Waits
        PROVE  /\ waiting'[w] \in [attestation : Attestations, age : 0..MaxWait] \cup {None}
               /\ waiting'[w] # None <=> waiting[w] # None
               /\ waiting[w] # None => /\ waiting'[w].attestation = waiting[w].attestation
                                       /\ waiting'[w].age = waiting[w].age + 1
    <3>1. waiting[w] # None => waiting[w].age \in 0..MaxWait /\ waiting[w].age < MaxWait
      BY <1>5 DEF AttendanceInv, Attendance!TypeOK, Attendance!Tick
    <3> QED BY <1>5, <3>1 DEF AttendanceInv, Attendance!TypeOK, Attendance!Tick
  <2>3. Attendance!TypeOK'
    BY <1>1, <1>5, <2>1, <2>2 DEF AttendanceInv, Attendance!TypeOK, Attendance!Tick
  <2>4. \A a \in Attestations : /\ attest[a] # None => attest[a].age \in Int
                                /\ nonce[a] # None => nonce[a] \in 0..(Retention + 1)
    BY DEF AttendanceInv, Attendance!TypeOK
  <2>5. \A w \in Waits : waiting[w] # None =>
          waiting[w].attestation \in Attestations /\ waiting[w].age \in Nat
    BY DEF AttendanceInv, Attendance!TypeOK
  <2>6. NoncesOutlive'
    BY <1>1, <2>1, <2>2, <2>4, <2>5 DEF AttendanceInv, NoncesOutlive
  <2> QED BY <2>3, <2>6
<1> QED BY <1>2, <1>3, <1>4, <1>5 DEF AttendanceInv

(* A GPS check-in, step by step.                                           *)
LEMMA GpsStepsAreBacked ==
  ASSUME AttendanceInv, NEW g \in GpsRequests,
         \/ \E u \in Visitors, p \in Photos : Attendance!GpsBegin(g, u, p)
         \/ Attendance!AedilisAnswers(g) \/ Attendance!GpsRecord(g)
         \/ Attendance!WriteFile(g) \/ Attendance!SaveRow(g)
  PROVE  AttendanceInv'
<1> USE ArrivalsAssumption DEF Attendance!AttendanceAssumption, Attendance!SameArrivals,
        Attendance!SameEvent, Attendance!GpsAt
<1>1. UNCHANGED <<attest, nonce, accepted, waiting, gateway, event, approval>>
  BY DEF Attendance!GpsBegin, Attendance!AedilisAnswers, Attendance!GpsRecord,
     Attendance!WriteFile, Attendance!SaveRow
<1>2. NoncesOutlive'
  BY <1>1 DEF AttendanceInv, NoncesOutlive
<1>t. gps[g] \in [at : GpsSteps, user : Visitors \cup {None},
                  photo : Photos \cup {None}, linked : BOOLEAN]
  BY DEF AttendanceInv, GpsTyped
<1>3. ASSUME NEW u \in Visitors, NEW p \in Photos, Attendance!GpsBegin(g, u, p)
      PROVE  AttendanceInv'
  <2>1. /\ gps[g].user = None /\ UNCHANGED <<arrivals, aedilis, files, photoRow>>
        /\ gps' = [gps EXCEPT ![g] = [at |-> "relayed", user |-> u, photo |-> p, linked |-> FALSE]]
    BY <1>3 DEF Attendance!GpsBegin, Attendance!Idle
  <2>2. GpsTyped'
    BY <2>1 DEF AttendanceInv, GpsTyped, GpsSteps
  <2>3. /\ gps'[g] = [at |-> "relayed", user |-> u, photo |-> p, linked |-> FALSE]
        /\ \A h \in GpsRequests : h # g => gps'[h] = gps[h]
    BY <2>1 DEF AttendanceInv, GpsTyped
  <2>4. GpsIsBacked' /\ Attendance!GpsRecordsAreBacked'
    BY <2>1, <2>3 DEF AttendanceInv, GpsIsBacked, Attendance!GpsRecordsAreBacked
  <2> QED BY <1>1, <1>2, <2>1, <2>2, <2>4 DEF AttendanceInv, Attendance!TypeOK
<1>4. ASSUME NEW to \in GpsSteps \ {"idle"}, NEW linked \in BOOLEAN,
             gps[g].at # "idle",
             gps' = [gps EXCEPT ![g].at = to, ![g].linked = linked],
             aedilis \subseteq aedilis', files \subseteq files',
             aedilis' \subseteq Photos, files' \subseteq Photos,
             to \in {"accepted", "photo", "written"} => gps[g].photo \in aedilis',
             to = "written" => gps[g].photo \in files',
             linked => arrivals'[gps[g].user] # None,
             \A u \in Visitors :
               /\ arrivals[u] # None => arrivals'[u] = arrivals[u]
               /\ arrivals'[u] # arrivals[u] => u = gps[g].user /\ gps[g].photo \in aedilis,
             arrivals' \in [Visitors -> [source : {"attested", "session", "manual", "gps"},
                                         event : BOOLEAN] \cup {None}],
             photoRow' \in [Photos -> [user : Visitors, linked : BOOLEAN] \cup {None}],
             \A p \in Photos : photoRow'[p] # photoRow[p] =>
               /\ p = gps[g].photo /\ gps[g].at = "written"
               /\ photoRow'[p] = [user |-> gps[g].user, linked |-> gps[g].linked]
      PROVE  AttendanceInv'
  <2>1. GpsTyped'
    BY <1>t, <1>4 DEF AttendanceInv, GpsTyped
  <2>2. /\ gps'[g].at = to /\ gps'[g].user = gps[g].user /\ gps'[g].photo = gps[g].photo
        /\ gps'[g].linked = linked
        /\ \A h \in GpsRequests : h # g => gps'[h] = gps[h]
    BY <1>t, <1>4 DEF AttendanceInv, GpsTyped
  <2>3. gps[g].user \in Visitors /\ gps[g].photo \in Photos
    BY <1>4 DEF AttendanceInv, GpsIsBacked
  <2>4. GpsIsBacked'
    <3> SUFFICES ASSUME NEW h \in GpsRequests
                 PROVE  /\ gps'[h].at = "idle" => gps'[h] = Attendance!Idle
                        /\ gps'[h].at # "idle" => gps'[h].user \in Visitors /\ gps'[h].photo \in Photos
                        /\ gps'[h].at \in {"accepted", "photo", "written"} => gps'[h].photo \in aedilis'
                        /\ gps'[h].at = "written" => gps'[h].photo \in files'
                        /\ gps'[h].linked => gps'[h].user \in Visitors /\ arrivals'[gps'[h].user] # None
      BY DEF GpsIsBacked, Attendance!Idle
    <3>1. CASE h = g
      BY <1>4, <2>2, <2>3, <3>1
    <3>2. CASE h # g
      <4>1. gps'[h] = gps[h]
        BY <2>2, <3>2
      <4>2. gps[h].linked => gps[h].user \in Visitors /\ arrivals'[gps[h].user] # None
        BY <1>4 DEF AttendanceInv, GpsIsBacked
      <4>3. aedilis \subseteq aedilis' /\ files \subseteq files'
        BY <1>4
      <4> QED BY <4>1, <4>2, <4>3 DEF AttendanceInv, GpsIsBacked
    <3> QED BY <3>1, <3>2
  <2>5. Attendance!GpsRecordsAreBacked'
    <3>1. ASSUME NEW p \in Photos, photoRow'[p] # None
          PROVE  /\ p \in files' /\ p \in aedilis'
                 /\ photoRow'[p].linked => arrivals'[photoRow'[p].user] # None
      <4>1. CASE photoRow'[p] = photoRow[p]
        <5>1. photoRow[p].user \in Visitors
          BY <3>1, <4>1 DEF AttendanceInv, Attendance!TypeOK
        <5> QED BY <1>4, <3>1, <4>1, <5>1 DEF AttendanceInv, Attendance!GpsRecordsAreBacked
      <4>2. CASE photoRow'[p] # photoRow[p]
        BY <1>4, <2>3, <4>2 DEF AttendanceInv, GpsIsBacked
      <4> QED BY <4>1, <4>2
    <3>2. ASSUME NEW u \in Visitors, arrivals'[u] # None, arrivals'[u].source = "gps"
          PROVE  \E h \in GpsRequests : gps'[h].user = u /\ gps'[h].photo \in aedilis'
      <4>1. CASE arrivals'[u] = arrivals[u]
        <5> PICK h \in GpsRequests : gps[h].user = u /\ gps[h].photo \in aedilis
          BY <3>2, <4>1 DEF AttendanceInv, Attendance!GpsRecordsAreBacked
        <5>1. gps'[h].user = gps[h].user /\ gps'[h].photo = gps[h].photo
          BY <2>2
        <5> QED BY <1>4, <5>1
      <4>2. CASE arrivals'[u] # arrivals[u]
        BY <1>4, <2>2, <4>2
      <4> QED BY <4>1, <4>2
    <3> QED BY <3>1, <3>2 DEF Attendance!GpsRecordsAreBacked
  <2> QED BY <1>1, <1>2, <1>4, <2>1, <2>4, <2>5 DEF AttendanceInv, Attendance!TypeOK
<1>g. {"photo", "done"} \subseteq GpsSteps \ {"idle"} /\ TRUE \in BOOLEAN
  BY DEF GpsSteps
<1>s. /\ gps[g].linked \in BOOLEAN /\ gps = [gps EXCEPT ![g].linked = gps[g].linked]
      /\ \A to : [gps EXCEPT ![g].at = to] = [gps EXCEPT ![g].at = to, ![g].linked = gps[g].linked]
  BY <1>t DEF AttendanceInv, GpsTyped
<1>l. gps[g].linked => arrivals[gps[g].user] # None
  BY DEF AttendanceInv, GpsIsBacked
<1>u. gps[g].at # "idle" => gps[g].user \in Visitors /\ gps[g].photo \in Photos
  BY DEF AttendanceInv, GpsIsBacked
<1>y. /\ arrivals \in [Visitors -> [source : {"attested", "session", "manual", "gps"},
                                    event : BOOLEAN] \cup {None}]
      /\ photoRow \in [Photos -> [user : Visitors, linked : BOOLEAN] \cup {None}]
      /\ aedilis \subseteq Photos /\ files \subseteq Photos
  BY DEF AttendanceInv, Attendance!TypeOK
<1>b. /\ gps[g].at \in {"accepted", "photo", "written"} => gps[g].photo \in aedilis
      /\ gps[g].at = "written" => gps[g].photo \in files
  BY DEF AttendanceInv, GpsIsBacked
<1>5. ASSUME Attendance!AedilisAnswers(g) PROVE AttendanceInv'
  <2>1. /\ gps[g].at = "relayed" /\ UNCHANGED <<arrivals, files, photoRow>>
        /\ \E to \in {"accepted", "done"} :
             /\ gps' = [gps EXCEPT ![g].at = to]
             /\ aedilis' \in {aedilis, aedilis \cup {gps[g].photo}}
             /\ to = "accepted" => gps[g].photo \in aedilis'
    BY <1>5 DEF Attendance!AedilisAnswers
  <2> PICK to \in {"accepted", "done"} :
        /\ gps' = [gps EXCEPT ![g].at = to]
        /\ aedilis' \in {aedilis, aedilis \cup {gps[g].photo}}
        /\ to = "accepted" => gps[g].photo \in aedilis'
    BY <2>1
  <2>2. gps' = [gps EXCEPT ![g].at = to, ![g].linked = gps[g].linked]
    BY <1>s
  <2> QED BY <1>4, <1>l, <1>s, <1>u, <1>y, <2>1, <2>2 DEF GpsSteps
<1>6. ASSUME Attendance!GpsRecord(g) PROVE AttendanceInv'
  <2>1. gps[g].at = "accepted" /\ UNCHANGED <<aedilis, files, photoRow>>
    BY <1>6 DEF Attendance!GpsRecord
  <2>2. CASE gps' = [gps EXCEPT ![g].at = "photo"] /\ UNCHANGED arrivals
    <3>1. gps' = [gps EXCEPT ![g].at = "photo", ![g].linked = gps[g].linked]
      BY <1>s, <2>2
    <3>2. "photo" \in GpsSteps \ {"idle"}
      BY <1>g
    <3> QED BY <1>4, <1>b, <1>l, <1>s, <1>u, <1>y, <2>1, <2>2, <3>1, <3>2
  <2>3. ASSUME NEW ev \in {FALSE, event = "active"},
               arrivals' = Attendance!Recorded(gps[g].user, "gps", ev),
               gps' = [gps EXCEPT ![g].at = "photo", ![g].linked = TRUE]
        PROVE  AttendanceInv'
    <3>1. /\ arrivals' \in [Visitors -> [source : {"attested", "session", "manual", "gps"},
                                         event : BOOLEAN] \cup {None}]
          /\ arrivals'[gps[g].user] # None
          /\ \A u \in Visitors :
               /\ arrivals[u] # None => arrivals'[u] = arrivals[u]
               /\ arrivals'[u] # arrivals[u] => u = gps[g].user
      <4>1. /\ ev \in BOOLEAN /\ gps[g].user \in Visitors
            /\ "gps" \in {"attested", "session", "manual", "gps"}
        BY <1>u, <2>1
      <4> QED BY <2>3, <4>1, RecordedArrivals
    <3>2. "photo" \in GpsSteps \ {"idle"}
      BY <1>g
    <3> QED BY <1>4, <1>b, <1>g, <1>u, <1>y, <2>1, <2>3, <3>1, <3>2
  <2> QED BY <1>6, <2>2, <2>3 DEF Attendance!GpsRecord
<1>7. ASSUME Attendance!WriteFile(g) PROVE AttendanceInv'
  <2> PICK to \in {"written", "done"} :
        /\ gps[g].at = "photo" /\ UNCHANGED <<arrivals, aedilis, photoRow>>
        /\ gps' = [gps EXCEPT ![g].at = to]
        /\ files' \in {files, files \cup {gps[g].photo}}
        /\ to = "written" => gps[g].photo \in files'
    BY <1>7 DEF Attendance!WriteFile
  <2>1. gps' = [gps EXCEPT ![g].at = to, ![g].linked = gps[g].linked]
    BY <1>s
  <2> QED BY <1>4, <1>b, <1>l, <1>s, <1>u, <1>y, <2>1 DEF GpsSteps
<1>8. ASSUME Attendance!SaveRow(g) PROVE AttendanceInv'
  <2>1. /\ gps[g].at = "written" /\ UNCHANGED <<arrivals, aedilis, files>>
        /\ gps' = [gps EXCEPT ![g].at = "done", ![g].linked = gps[g].linked]
    BY <1>8, <1>s DEF Attendance!SaveRow
  <2>2. /\ photoRow' \in [Photos -> [user : Visitors, linked : BOOLEAN] \cup {None}]
        /\ \A p \in Photos : photoRow'[p] # photoRow[p] =>
             /\ p = gps[g].photo
             /\ photoRow'[p] = [user |-> gps[g].user, linked |-> gps[g].linked]
    BY <1>8, <1>s, <1>u, <1>y, <2>1 DEF Attendance!SaveRow, Attendance!StorePhotoRow
  <2>3. "done" \in GpsSteps \ {"idle"}
    BY <1>g
  <2> QED BY <1>4, <1>l, <1>s, <1>u, <1>y, <2>1, <2>2, <2>3
<1> QED BY <1>3, <1>5, <1>6, <1>7, <1>8

LEMMA AttendanceStep == AttendanceInv /\ [Attendance!Next]_attendanceVars => AttendanceInv'
<1> SUFFICES ASSUME AttendanceInv, [Attendance!Next]_attendanceVars PROVE AttendanceInv'
  OBVIOUS
<1> USE ArrivalsAssumption DEF Attendance!AttendanceAssumption
<1>1. CASE UNCHANGED attendanceVars
  BY <1>1 DEF attendanceVars, AttendanceInv, Attendance!TypeOK, NoncesOutlive, GpsTyped,
     GpsIsBacked, Attendance!GpsRecordsAreBacked
<1>2. ASSUME NEW a \in Attestations, Attendance!Checkin(a) PROVE AttendanceInv'
  <2>1. attest[a] # None /\ attest[a].age <= Freshness
    BY <1>2 DEF Attendance!Checkin, Attendance!Fresh, AttendanceInv, Attendance!TypeOK
  <2>2. /\ Attendance!Use(a, "attested")
        /\ UNCHANGED <<attest, waiting, gps, aedilis, files, photoRow, event, approval, gateway>>
    BY <1>2 DEF Attendance!Checkin, Attendance!SameGps, Attendance!SameEvent
  <2>3. waiting' \in [Waits -> [attestation : Attestations, age : 0..MaxWait] \cup {None}]
    BY <2>2 DEF AttendanceInv, Attendance!TypeOK
  <2> QED BY <2>1, <2>2, <2>3, AttendanceUse
<1>3. ASSUME NEW w \in Waits, Attendance!AutomaticCheckin(w) PROVE AttendanceInv'
  <2>1. /\ waiting[w] # None /\ waiting' = [waiting EXCEPT ![w] = None]
        /\ Attendance!Use(waiting[w].attestation, "session") \/ UNCHANGED <<nonce, accepted, arrivals>>
        /\ UNCHANGED <<attest, gps, aedilis, files, photoRow, event, approval, gateway>>
    BY <1>3 DEF Attendance!AutomaticCheckin, Attendance!SameGps, Attendance!SameEvent
  <2>2. /\ waiting[w].attestation \in Attestations /\ attest[waiting[w].attestation] # None
        /\ waiting' \in [Waits -> [attestation : Attestations, age : 0..MaxWait] \cup {None}]
        /\ \A v \in Waits : waiting'[v] \in {waiting[v], None}
    BY <2>1 DEF AttendanceInv, Attendance!TypeOK, NoncesOutlive
  <2>3. CASE Attendance!Use(waiting[w].attestation, "session")
    BY <2>1, <2>2, <2>3, AttendanceUse
  <2>4. CASE UNCHANGED <<nonce, accepted, arrivals>>
    <3>1. Attendance!TypeOK' /\ GpsTyped' /\ GpsIsBacked' /\ Attendance!GpsRecordsAreBacked'
      BY <2>1, <2>2, <2>4 DEF AttendanceInv, Attendance!TypeOK, GpsTyped, GpsIsBacked,
         Attendance!GpsRecordsAreBacked
    <3>2. NoncesOutlive'
      BY <2>1, <2>2, <2>4 DEF AttendanceInv, NoncesOutlive
    <3> QED BY <3>1, <3>2 DEF AttendanceInv
  <2> QED BY <2>1, <2>3, <2>4
<1>4. ASSUME NEW u \in Visitors, Attendance!Manual(u) PROVE AttendanceInv'
  <2>1. UNCHANGED <<attest, nonce, accepted, waiting, gateway, gps, aedilis, files, photoRow,
                    event, approval>>
    BY <1>4 DEF Attendance!Manual, Attendance!SameGps, Attendance!SameEvent
  <2>2. /\ arrivals' \in [Visitors -> [source : {"attested", "session", "manual", "gps"},
                                       event : BOOLEAN] \cup {None}]
        /\ \A v \in Visitors :
             /\ arrivals[v] # None => arrivals'[v] = arrivals[v]
             /\ arrivals'[v] # arrivals[v] => arrivals'[v].source # "gps"
    <3>1. "manual" \in {"attested", "session", "manual", "gps"} /\ FALSE \in BOOLEAN
      OBVIOUS
    <3> QED BY <1>4, <3>1, RecordedArrivals DEF Attendance!Manual
  <2>3. NoncesOutlive' /\ Attendance!TypeOK'
    BY <2>1, <2>2 DEF AttendanceInv, Attendance!TypeOK, NoncesOutlive
  <2>4. GpsTyped' /\ GpsIsBacked' /\ Attendance!GpsRecordsAreBacked'
    BY <2>1, <2>2, OtherArrivals
  <2> QED BY <2>3, <2>4 DEF AttendanceInv
<1>5. ASSUME \/ Attendance!EventGoesOn
             \/ \E u \in Visitors : \/ Attendance!RequestApproval(u)
                                    \/ \E by \in Visitors : Attendance!Approve(by, u)
      PROVE  AttendanceInv'
  <2>1. UNCHANGED <<attest, nonce, accepted, waiting, gateway, arrivals, gps, aedilis, files,
                    photoRow>>
    BY <1>5 DEF Attendance!EventGoesOn, Attendance!RequestApproval, Attendance!Approve,
       Attendance!SameArrivals, Attendance!SameGps
  <2>2. /\ event' \in {"before", "active", "over"}
        /\ approval' \in [Visitors -> {"none", "requested", "approved"}]
    BY <1>5 DEF Attendance!EventGoesOn, Attendance!RequestApproval, Attendance!Approve,
       AttendanceInv, Attendance!TypeOK
  <2> QED BY <2>1, <2>2 DEF AttendanceInv, Attendance!TypeOK, NoncesOutlive, GpsTyped,
          GpsIsBacked, Attendance!GpsRecordsAreBacked
<1>6. ASSUME Attendance!Restart PROVE AttendanceInv'
  <2>1. /\ \A w \in Waits : waiting'[w] = None
        /\ UNCHANGED <<attest, nonce, accepted, arrivals, aedilis, files, photoRow, event, approval>>
    BY <1>6 DEF Attendance!Restart, Attendance!SameEvent
  <2>2. Attendance!TypeOK' /\ NoncesOutlive'
    BY <1>6, <2>1 DEF AttendanceInv, Attendance!TypeOK, NoncesOutlive, Attendance!Restart
  <2>3. GpsTyped'
    BY <1>6 DEF AttendanceInv, GpsTyped, GpsSteps, Attendance!Restart, Attendance!Idle
  <2>r. gps \in [GpsRequests -> [at : GpsSteps, user : Visitors \cup {None},
                                photo : Photos \cup {None}, linked : BOOLEAN]]
    BY DEF AttendanceInv, GpsTyped
  <2>g. ASSUME NEW g \in GpsRequests
        PROVE  gps'[g] = IF gps[g] = Attendance!Idle THEN Attendance!Idle
                         ELSE [gps[g] EXCEPT !.at = "done"]
    BY <1>6 DEF Attendance!Restart
  <2>4. \A g \in GpsRequests :
          /\ gps'[g].user = gps[g].user /\ gps'[g].photo = gps[g].photo
          /\ gps'[g].linked = gps[g].linked
          /\ gps'[g] = Attendance!Idle \/ (gps'[g].at = "done" /\ gps[g] # Attendance!Idle)
    <3> TAKE g \in GpsRequests
    <3>1. gps[g] \in [at : GpsSteps, user : Visitors \cup {None},
                      photo : Photos \cup {None}, linked : BOOLEAN]
      BY <2>r
    <3>2. CASE gps[g] = Attendance!Idle
      <4>1. gps'[g] = gps[g]
        BY <2>g, <3>2
      <4> QED BY <3>2, <4>1
    <3>3. CASE gps[g] # Attendance!Idle
      <4>1. gps'[g] = [gps[g] EXCEPT !.at = "done"]
        BY <2>g, <3>3
      <4> QED BY <3>1, <3>3, <4>1
    <3> QED BY <3>2, <3>3
  <2>5. GpsIsBacked'
    <3> SUFFICES ASSUME NEW h \in GpsRequests
                 PROVE  /\ gps'[h].at = "idle" => gps'[h] = Attendance!Idle
                        /\ gps'[h].at # "idle" => gps'[h].user \in Visitors /\ gps'[h].photo \in Photos
                        /\ gps'[h].at \notin {"accepted", "photo", "written"}
                        /\ gps'[h].linked => gps'[h].user \in Visitors /\ arrivals'[gps'[h].user] # None
      BY DEF GpsIsBacked, Attendance!Idle
    <3>1. Attendance!Idle.at = "idle"
      BY DEF Attendance!Idle
    <3>2. gps[h] # Attendance!Idle => gps[h].at # "idle"
      BY DEF AttendanceInv, GpsIsBacked
    <3> QED BY <2>1, <2>4, <3>1, <3>2 DEF AttendanceInv, GpsIsBacked
  <2>6. Attendance!GpsRecordsAreBacked'
    BY <2>1, <2>4 DEF AttendanceInv, Attendance!GpsRecordsAreBacked
  <2> QED BY <2>2, <2>3, <2>5, <2>6 DEF AttendanceInv
<1> QED BY <1>1, <1>2, <1>3, <1>4, <1>5, <1>6, AttestationSteps, GpsStepsAreBacked
        DEF Attendance!Next

(* Every arrival of the ledger has its proof, for any numbers of users,    *)
(* attestations, requests and photos, any freshness and any retention that *)
(* covers twice the freshness and the wait (attendance/index.ts): an       *)
(* attestation is accepted once over both routes, and what is stored of a  *)
(* GPS check-in is backed by Aedilis and by its file.                      *)
THEOREM ArrivalsBacked == Attendance!Spec => []ArrivalsAreBacked
<1>1. AttendanceInv => ArrivalsAreBacked
  BY DEF ArrivalsAreBacked, Attendance!ArrivalsAreBacked, Attendance!AcceptedOnce,
     AttendanceInv, NoncesOutlive, Attendance!TypeOK
<1> QED BY <1>1, AttendanceBegins, AttendanceStep, PTL DEF Attendance!Spec, attendanceVars,
           Attendance!vars

-----------------------------------------------------------------------------
(* Cocoiru.                                                                *)

(* What stands before a call in its recipient's inbox, the broadcasts of   *)
(* its own millisecond left aside: the call was counted with it.           *)
Ahead(c) ==
  {d \in Cocoiru!Pending(c.to) :
     Cocoiru!Before(d, c) /\ ~(d.kind = "tasukete" /\ d.age = c.age)}

CocoiruInv ==
  /\ Cocoiru!TypeOK /\ IsFiniteSet(calls)
  /\ \A c \in calls : c.kind = "call" /\ Cocoiru!Alive(c) => Cardinality(Ahead(c)) < InboxLimit
  /\ Cocoiru!PendingCallsAreSpaced

LEMMA CocoiruInvParts ==
  ASSUME CocoiruInv
  PROVE  /\ lease \in [Residents -> 0..Lease]
         /\ \A c \in calls : /\ c.id \in Int /\ c.from \in Residents /\ c.to \in Residents
                             /\ c.kind \in {"call", "tasukete"} /\ c.age \in 0..CallTtl
         /\ IsFiniteSet(calls)
         /\ InboxLimit \in Nat /\ CallTtl \in Nat /\ RepeatWindow \in Nat
         /\ TasuketeWindow \in Nat /\ Lease \in Nat
  BY CallsAssumption DEF CocoiruInv, Cocoiru!TypeOK, Cocoiru!CocoiruAssumption

(* Whoever stands before a call is one of its recipient's, but itself.     *)
LEMMA AheadIsFinite ==
  ASSUME IsFiniteSet(calls), NEW c
  PROVE  /\ IsFiniteSet(Cocoiru!Pending(c.to)) /\ IsFiniteSet(Ahead(c))
         /\ Cardinality(Cocoiru!Pending(c.to)) \in Nat /\ Cardinality(Ahead(c)) \in Nat
<1>1. Cocoiru!Pending(c.to) \in SUBSET calls /\ Ahead(c) \in SUBSET calls
  BY DEF Cocoiru!Pending, Ahead
<1> QED BY <1>1, FS_Subset, FS_CardinalityType

(* No row goes ahead of another when rows are only removed.                *)
LEMMA CocoiruRemoves ==
  ASSUME CocoiruInv, calls' \subseteq calls, lease' \in [Residents -> 0..Lease]
  PROVE  CocoiruInv'
<1>1. IsFiniteSet(calls) /\ IsFiniteSet(calls')
  BY FS_Subset DEF CocoiruInv
<1>2. ASSUME NEW c \in calls', c.kind = "call", Cocoiru!Alive(c)
      PROVE  Cardinality(Ahead(c)') < InboxLimit
  <2>1. Ahead(c)' \in SUBSET Ahead(c)
    BY DEF Ahead, Cocoiru!Pending, Cocoiru!Alive, Cocoiru!Before
  <2>2. Cardinality(Ahead(c)') <= Cardinality(Ahead(c)) /\ Cardinality(Ahead(c)) \in Nat
        /\ Cardinality(Ahead(c)') \in Nat
    BY <1>1, <2>1, AheadIsFinite, FS_Subset, FS_CardinalityType
  <2>3. Cardinality(Ahead(c)) < InboxLimit
    BY <1>2 DEF CocoiruInv
  <2> QED BY <2>2, <2>3, CocoiruInvParts
<1>3. Cocoiru!PendingCallsAreSpaced'
  BY DEF CocoiruInv, Cocoiru!PendingCallsAreSpaced, Cocoiru!Alive
<1>4. Cocoiru!TypeOK'
  BY DEF CocoiruInv, Cocoiru!TypeOK
<1> QED BY <1>1, <1>2, <1>3, <1>4 DEF CocoiruInv, Cocoiru!Alive

(* POST /calls: the row is counted with all that waits for its recipient.  *)
LEMMA CocoiruCalls ==
  ASSUME CocoiruInv, NEW from \in Residents, NEW to \in Residents, Cocoiru!PostCall(from, to)
  PROVE  CocoiruInv'
<1>1. PICK i \in Cocoiru!FreeIds : calls' = calls \cup {Cocoiru!Row(i, from, to, "call")}
  BY DEF Cocoiru!PostCall
<1> DEFINE r == Cocoiru!Row(i, from, to, "call")
<1>2. /\ r.id = i /\ r.from = from /\ r.to = to /\ r.kind = "call" /\ r.age = 0
      /\ calls' = calls \cup {r} /\ i \in CallIds
      /\ r = [id |-> i, from |-> from, to |-> to, kind |-> "call", age |-> 0]
  BY <1>1 DEF Cocoiru!Row, Cocoiru!FreeIds
<1> HIDE DEF r
<1>3. /\ lease' = lease /\ Cardinality(Cocoiru!Pending(to)) < InboxLimit
      /\ \A c \in calls :
           c.kind = "call" /\ c.from = from /\ c.to = to => ~(c.age < RepeatWindow)
  BY DEF Cocoiru!PostCall, Cocoiru!RecentCall, Cocoiru!Cardinality, Cardinality,
         Cocoiru!IsFiniteSet, IsFiniteSet
<1>4. IsFiniteSet(calls) /\ IsFiniteSet(calls')
  BY <1>2, FS_AddElement DEF CocoiruInv
<1>5. Cocoiru!TypeOK'
  <2>1. 0 \in 0..CallTtl
    BY CocoiruInvParts
  <2>2. r \in [id : CallIds, from : Residents, to : Residents, kind : {"call", "tasukete"},
               age : 0..CallTtl]
    BY <1>2, <2>1
  <2> QED BY <1>2, <1>3, <2>2 DEF CocoiruInv, Cocoiru!TypeOK
<1>6. ASSUME NEW c \in calls', c.kind = "call", Cocoiru!Alive(c)
      PROVE  Cardinality(Ahead(c)') < InboxLimit
  <2>1. CASE c.to # to
    <3>1. c \in calls
      BY <1>2, <2>1
    <3>2. Ahead(c)' = Ahead(c)
      BY <1>2, <2>1 DEF Ahead, Cocoiru!Pending, Cocoiru!Alive, Cocoiru!Before
    <3> QED BY <1>6, <3>1, <3>2 DEF CocoiruInv
  <2>2. CASE c.to = to
    <3> DEFINE P == Cocoiru!Pending(to)
               Q == P \cup {r}
    <3>1. Ahead(c)' \in SUBSET (Q \ {c}) /\ c \in Q
      <4>1. c \in Q
        BY <1>2, <1>6, <2>2 DEF Cocoiru!Pending, Cocoiru!Alive
      <4>2. c.age \in Nat /\ c.id \in Int
        BY <1>2, CocoiruInvParts, CallsAssumption DEF Cocoiru!CocoiruAssumption
      <4>3. ASSUME NEW d \in Ahead(c)'
            PROVE  d \in Q /\ d # c
        <5>1. d \in calls' /\ d.to = to /\ Cocoiru!Alive(d)
          BY <2>2, <4>3 DEF Ahead, Cocoiru!Pending, Cocoiru!Alive
        <5>2. d # c
          BY <4>2, <4>3 DEF Ahead, Cocoiru!Before
        <5> QED BY <1>2, <5>1, <5>2 DEF Cocoiru!Pending
      <4> QED BY <4>1, <4>3
    <3>2. IsFiniteSet(P) /\ Cardinality(P) \in Nat /\ Cardinality(P) < InboxLimit
      BY <1>3, <1>4, <2>2, AheadIsFinite
    <3> HIDE DEF P
    <3>3. IsFiniteSet(Q) /\ Cardinality(Q) <= Cardinality(P) + 1 /\ Cardinality(Q) \in Nat
      <4>1. /\ IsFiniteSet(Q)
            /\ Cardinality(Q) = IF r \in P THEN Cardinality(P) ELSE Cardinality(P) + 1
        BY <3>2, FS_AddElement
      <4> QED BY <3>2, <4>1
    <3> HIDE DEF Q
    <3>4. IsFiniteSet(Q \ {c}) /\ Cardinality(Q \ {c}) = Cardinality(Q) - 1
      BY <3>1, <3>3, FS_RemoveElement
    <3>5. Cardinality(Ahead(c)') <= Cardinality(Q \ {c}) /\ Cardinality(Ahead(c)') \in Nat
      BY <3>1, <3>4, FS_Subset, FS_CardinalityType
    <3> QED BY <3>2, <3>3, <3>4, <3>5, CocoiruInvParts
  <2> QED BY <2>1, <2>2
<1>7. Cocoiru!PendingCallsAreSpaced'
  <2> SUFFICES ASSUME NEW c \in calls', NEW d \in calls', c # d, c.from = d.from,
                      c.kind = d.kind, Cocoiru!Alive(c), c.age >= d.age
               PROVE  CASE c.kind = "call" -> c.to = d.to => c.age >= d.age + RepeatWindow
                        [] c.kind = "tasukete" -> c.age = d.age \/ c.age >= d.age + TasuketeWindow
    BY DEF Cocoiru!PendingCallsAreSpaced, Cocoiru!Alive
  <2>1. CASE c \in calls /\ d \in calls
    BY <2>1 DEF CocoiruInv, Cocoiru!PendingCallsAreSpaced
  <2>2. CASE c \in calls /\ d = r
    <3>1. c.kind = "call" /\ c.age \in Int
      BY <1>2, <2>2, CocoiruInvParts
    <3> QED BY <1>2, <1>3, <2>2, <3>1, CocoiruInvParts
  <2>3. CASE c = r /\ d \in calls
    <3>1. c.kind = "call" /\ d.age \in Nat /\ c.age = 0 /\ d.age = 0
      BY <1>2, <2>3, CocoiruInvParts
    <3>2. c.to = d.to => 0 >= RepeatWindow
      BY <1>2, <1>3, <2>3, <3>1, CocoiruInvParts
    <3> QED BY <3>1, <3>2, CocoiruInvParts
  <2> QED BY <1>2, <2>1, <2>2, <2>3
<1> QED BY <1>4, <1>5, <1>6, <1>7 DEF CocoiruInv, Cocoiru!Alive

(* POST /tasukete: the rows of a broadcast stand before no call but one of *)
(* their own millisecond.                                                  *)
LEMMA CocoiruBroadcasts ==
  ASSUME CocoiruInv, NEW from \in Residents, Cocoiru!PostTasukete(from)
  PROVE  CocoiruInv'
<1> DEFINE To == Cocoiru!Active \ {from}
<1>1. PICK id \in [To -> Cocoiru!FreeIds] :
        calls' = calls \cup {Cocoiru!Row(id[u], from, u, "tasukete") : u \in To}
  BY DEF Cocoiru!PostTasukete
<1>2. lease' = lease /\ To \subseteq Residents
  BY DEF Cocoiru!PostTasukete, Cocoiru!Active
<1> DEFINE New == {Cocoiru!Row(id[u], from, u, "tasukete") : u \in To}
<1>3. /\ calls' = calls \cup New
      /\ \A r \in New : /\ r.from = from /\ r.kind = "tasukete" /\ r.age = 0
                        /\ r \in [id : CallIds, from : Residents, to : Residents,
                                  kind : {"call", "tasukete"}, age : 0..CallTtl]
  BY <1>1, <1>2, CocoiruInvParts DEF Cocoiru!Row, Cocoiru!FreeIds
<1>4. IsFiniteSet(calls) /\ IsFiniteSet(calls')
  <2>1. IsFiniteSet(To)
    BY <1>2, CallsAssumption, FS_Subset DEF Cocoiru!CocoiruAssumption, Cocoiru!IsFiniteSet,
       IsFiniteSet
  <2> DEFINE f == [u \in To |-> Cocoiru!Row(id[u], from, u, "tasukete")]
  <2>2. f \in Surjection(To, New)
    BY DEF Surjection
  <2>3. IsFiniteSet(New)
    BY <2>1, <2>2, FS_Surjection
  <2> QED BY <1>3, <2>3, FS_Union DEF CocoiruInv
<1>n. \A c \in calls : c.kind = "tasukete" /\ c.from = from => ~(c.age < TasuketeWindow)
  BY DEF Cocoiru!PostTasukete, Cocoiru!RecentTasukete
<1> HIDE DEF New, To
<1>5. Cocoiru!TypeOK'
  BY <1>2, <1>3 DEF CocoiruInv, Cocoiru!TypeOK
<1>6. ASSUME NEW c \in calls', c.kind = "call", Cocoiru!Alive(c)
      PROVE  Cardinality(Ahead(c)') < InboxLimit
  <2>1. c \in calls /\ c.age \in Nat
    BY <1>3, <1>6, CocoiruInvParts
  <2>2. Ahead(c)' = Ahead(c)
    BY <1>3, <2>1 DEF Ahead, Cocoiru!Pending, Cocoiru!Alive, Cocoiru!Before
  <2> QED BY <1>6, <2>1, <2>2 DEF CocoiruInv
<1>7. Cocoiru!PendingCallsAreSpaced'
  <2> SUFFICES ASSUME NEW c \in calls', NEW d \in calls', c # d, c.from = d.from,
                      c.kind = d.kind, Cocoiru!Alive(c), c.age >= d.age
               PROVE  CASE c.kind = "call" -> c.to = d.to => c.age >= d.age + RepeatWindow
                        [] c.kind = "tasukete" -> c.age = d.age \/ c.age >= d.age + TasuketeWindow
    BY DEF Cocoiru!PendingCallsAreSpaced, Cocoiru!Alive
  <2>1. CASE c \in calls /\ d \in calls
    BY <2>1 DEF CocoiruInv, Cocoiru!PendingCallsAreSpaced
  <2>2. CASE c \in calls /\ d \in New
    <3>1. c.kind = "tasukete" /\ c.from = from /\ d.age = 0
      BY <1>3, <2>2
    <3>2. c.age >= 0 + TasuketeWindow
      BY <1>n, <2>2, <3>1, CocoiruInvParts
    <3> QED BY <3>1, <3>2
  <2>3. CASE c \in New /\ d \in calls
    <3>1. c.kind = "tasukete" /\ c.age = 0 /\ d.age = 0
      BY <1>3, <2>3, CocoiruInvParts
    <3> QED BY <3>1
  <2>4. CASE c \in New /\ d \in New
    <3>1. c.kind = "tasukete" /\ c.age = 0 /\ d.age = 0
      BY <1>3, <2>4
    <3> QED BY <3>1
  <2> QED BY <1>3, <2>1, <2>2, <2>3, <2>4
<1> QED BY <1>4, <1>5, <1>6, <1>7 DEF CocoiruInv, Cocoiru!Alive

(* Rows grow old together, until they have expired.                        *)
LEMMA CocoiruTicks ==
  ASSUME CocoiruInv, Cocoiru!Tick
  PROVE  CocoiruInv'
<1>0. PICK G : G = [c \in calls |-> [c EXCEPT !.age = IF Cocoiru!Alive(c) THEN @ + 1 ELSE @]]
  OBVIOUS
<1>1. /\ calls' = {G[c] : c \in calls}
      /\ \A u \in Residents : lease'[u] = IF lease[u] = 0 THEN 0 ELSE lease[u] - 1
      /\ lease' = [u \in Residents |-> IF lease[u] = 0 THEN 0 ELSE lease[u] - 1]
  BY <1>0 DEF Cocoiru!Tick
<1>2. ASSUME NEW c \in calls
      PROVE  /\ G[c] \in [id : CallIds, from : Residents, to : Residents,
                          kind : {"call", "tasukete"}, age : 0..CallTtl]
             /\ G[c].id = c.id /\ G[c].from = c.from /\ G[c].to = c.to /\ G[c].kind = c.kind
             /\ G[c].age = IF Cocoiru!Alive(c) THEN c.age + 1 ELSE c.age
             /\ c.age \in 0..CallTtl /\ c.id \in Int /\ G[c].age \in 0..CallTtl
  <2>1. c \in [id : CallIds, from : Residents, to : Residents,
               kind : {"call", "tasukete"}, age : 0..CallTtl]
    BY <1>2 DEF CocoiruInv, Cocoiru!TypeOK
  <2> DEFINE a == IF Cocoiru!Alive(c) THEN c.age + 1 ELSE c.age
  <2>2. a \in 0..CallTtl /\ G[c] = [c EXCEPT !.age = a]
    BY <1>0, <2>1, CocoiruInvParts DEF Cocoiru!Alive
  <2> HIDE DEF a
  <2>3. /\ G[c] \in [id : CallIds, from : Residents, to : Residents,
                     kind : {"call", "tasukete"}, age : 0..CallTtl]
        /\ G[c].id = c.id /\ G[c].from = c.from /\ G[c].to = c.to /\ G[c].kind = c.kind
        /\ G[c].age = a
    BY <2>1, <2>2
  <2> QED BY <2>1, <2>2, <2>3, CocoiruInvParts DEF a
<1>3. G \in Surjection(calls, calls')
  BY <1>0, <1>1 DEF Surjection
<1>4. IsFiniteSet(calls) /\ IsFiniteSet(calls')
  BY <1>3, FS_Surjection DEF CocoiruInv
<1>5. Cocoiru!TypeOK'
  BY <1>1, <1>2, CocoiruInvParts DEF Cocoiru!TypeOK
<1>6. ASSUME NEW c \in calls, G[c].kind = "call", Cocoiru!Alive(G[c])
      PROVE  Cardinality(Ahead(G[c])') < InboxLimit
  <2> DEFINE A == Ahead(c)
             B == Ahead(G[c])'
             T == {G[d] : d \in A}
             g == [d \in A |-> G[d]]
  <2>1. c.kind = "call" /\ Cocoiru!Alive(c) /\ G[c].age = c.age + 1
    BY <1>2, <1>6, CocoiruInvParts DEF Cocoiru!Alive
  <2>2. ASSUME NEW x \in B
        PROVE  x \in T
    <3>1. PICK d \in calls : x = G[d]
      BY <1>1, <2>2 DEF Ahead, Cocoiru!Pending
    <3>2. /\ x.to = G[c].to /\ x.age < CallTtl
          /\ x.age > G[c].age \/ (x.age = G[c].age /\ x.id < G[c].id)
          /\ ~(x.kind = "tasukete" /\ x.age = G[c].age)
      BY <2>2 DEF Ahead, Cocoiru!Pending, Cocoiru!Alive, Cocoiru!Before
    <3>3. G[d].age = d.age + 1 /\ d.age < CallTtl
      BY <1>2, <3>1, <3>2, CocoiruInvParts DEF Cocoiru!Alive
    <3>4. d \in A
      BY <1>2, <2>1, <3>1, <3>2, <3>3 DEF Ahead, Cocoiru!Pending, Cocoiru!Alive, Cocoiru!Before
    <3> QED BY <3>1, <3>4
  <2>3. g \in Surjection(A, T)
    BY DEF Surjection
  <2>4. IsFiniteSet(A) /\ Cardinality(A) < InboxLimit /\ Cardinality(A) \in Nat
    BY <1>4, <1>6, <2>1, AheadIsFinite DEF CocoiruInv
  <2>5. IsFiniteSet(T) /\ Cardinality(T) <= Cardinality(A) /\ Cardinality(T) \in Nat
    BY <2>3, <2>4, FS_Surjection, FS_CardinalityType
  <2>6. B \in SUBSET T
    BY <2>2
  <2> HIDE DEF A, B, T
  <2>7. Cardinality(B) <= Cardinality(T) /\ Cardinality(B) \in Nat
    BY <2>5, <2>6, FS_Subset, FS_CardinalityType
  <2>8. Cardinality(B) < InboxLimit
    BY <2>4, <2>5, <2>7, CocoiruInvParts
  <2> QED BY <2>8 DEF B
<1>7. ASSUME NEW c \in calls, NEW d \in calls, G[c] # G[d], G[c].from = G[d].from,
             G[c].kind = G[d].kind, Cocoiru!Alive(G[c]), G[c].age >= G[d].age
      PROVE  CASE G[c].kind = "call" -> G[c].to = G[d].to => G[c].age >= G[d].age + RepeatWindow
               [] G[c].kind = "tasukete" ->
                    G[c].age = G[d].age \/ G[c].age >= G[d].age + TasuketeWindow
  <2>1. /\ c # d /\ c.from = d.from /\ c.kind = d.kind /\ Cocoiru!Alive(c) /\ c.age >= d.age
        /\ G[c].age = c.age + 1 /\ G[d].age = d.age + 1
    BY <1>2, <1>7, CocoiruInvParts DEF Cocoiru!Alive
  <2>2. CASE c.kind = "call"
    <3>1. c.to = d.to => c.age >= d.age + RepeatWindow
      BY <2>1, <2>2 DEF CocoiruInv, Cocoiru!PendingCallsAreSpaced
    <3>2. /\ G[c].kind = "call" /\ G[c].to = c.to /\ G[d].to = d.to
          /\ c.age \in Int /\ d.age \in Int
      BY <1>2, <2>2
    <3>3. G[c].to = G[d].to => G[c].age >= G[d].age + RepeatWindow
      BY <2>1, <3>1, <3>2, CocoiruInvParts
    <3> QED BY <3>2, <3>3
  <2>3. CASE c.kind = "tasukete"
    <3>1. c.age = d.age \/ c.age >= d.age + TasuketeWindow
      BY <2>1, <2>3 DEF CocoiruInv, Cocoiru!PendingCallsAreSpaced
    <3>2. G[c].kind = "tasukete" /\ c.age \in Int /\ d.age \in Int
      BY <1>2, <2>3
    <3>3. G[c].age = G[d].age \/ G[c].age >= G[d].age + TasuketeWindow
      BY <2>1, <3>1, <3>2, CocoiruInvParts
    <3> QED BY <3>2, <3>3
  <2> QED BY <2>2, <2>3, CocoiruInvParts
<1>8. Cocoiru!PendingCallsAreSpaced'
  <2> SUFFICES ASSUME NEW x \in calls', NEW y \in calls', x # y, x.from = y.from,
                      x.kind = y.kind, Cocoiru!Alive(x), x.age >= y.age
               PROVE  CASE x.kind = "call" -> x.to = y.to => x.age >= y.age + RepeatWindow
                        [] x.kind = "tasukete" -> x.age = y.age \/ x.age >= y.age + TasuketeWindow
    BY DEF Cocoiru!PendingCallsAreSpaced, Cocoiru!Alive
  <2>1. PICK c \in calls, d \in calls : x = G[c] /\ y = G[d]
    BY <1>1
  <2> QED BY <1>7, <2>1
<1>9. \A c \in calls' : c.kind = "call" /\ Cocoiru!Alive(c) =>
        Cardinality(Ahead(c)') < InboxLimit
  BY <1>1, <1>6
<1> QED BY <1>4, <1>5, <1>8, <1>9 DEF CocoiruInv, Cocoiru!Alive

LEMMA CocoiruBegins == Cocoiru!Init => CocoiruInv
<1>1. Cocoiru!Init => Cocoiru!TypeOK /\ IsFiniteSet(calls)
  BY CallsAssumption, FS_EmptySet DEF Cocoiru!Init, Cocoiru!TypeOK, Cocoiru!CocoiruAssumption
<1> QED BY <1>1 DEF Cocoiru!Init, CocoiruInv, Cocoiru!PendingCallsAreSpaced

LEMMA CocoiruStep == CocoiruInv /\ [Cocoiru!Next]_cocoiruVars => CocoiruInv'
<1> SUFFICES ASSUME CocoiruInv, [Cocoiru!Next]_cocoiruVars
             PROVE  CocoiruInv'
  OBVIOUS
<1>l. lease \in [Residents -> 0..Lease] /\ Lease \in Nat
  BY CocoiruInvParts
<1>1. ASSUME NEW u \in Residents, Cocoiru!Acknowledge(u)
      PROVE  CocoiruInv'
  BY <1>1, <1>l, CocoiruRemoves DEF Cocoiru!Acknowledge
<1>2. ASSUME NEW u \in Residents, NEW available \in BOOLEAN,
             Cocoiru!PutAvailability(u, available)
      PROVE  CocoiruInv'
  <2>1. calls' \subseteq calls
    BY <1>2 DEF Cocoiru!PutAvailability
  <2>2. lease' \in [Residents -> 0..Lease]
    BY <1>2, <1>l DEF Cocoiru!PutAvailability
  <2> QED BY <2>1, <2>2, CocoiruRemoves
<1>3. CASE UNCHANGED cocoiruVars
  BY <1>3, <1>l, CocoiruRemoves DEF cocoiruVars
<1> QED BY <1>1, <1>2, <1>3, CocoiruCalls, CocoiruBroadcasts, CocoiruTicks DEF Cocoiru!Next

LEMMA CallsAreShown == CocoiruInv => CallsAreShownAndSpaced
<1> SUFFICES ASSUME CocoiruInv, NEW c \in calls, c.kind = "call", Cocoiru!Alive(c)
             PROVE  \/ c \in Cocoiru!Inbox(c.to)
                    \/ \E d \in Cocoiru!Pending(c.to) :
                         d.kind = "tasukete" /\ d.age = c.age /\ d.id < c.id
  BY DEF CallsAreShownAndSpaced, Cocoiru!CallsAreShownAndSpaced, Cocoiru!AcceptedCallIsShown,
         CocoiruInv
<1>1. CASE \E d \in Cocoiru!Pending(c.to) :
             d.kind = "tasukete" /\ d.age = c.age /\ d.id < c.id
  BY <1>1
<1>2. CASE ~\E d \in Cocoiru!Pending(c.to) :
              d.kind = "tasukete" /\ d.age = c.age /\ d.id < c.id
  <2>1. Ahead(c) = {d \in Cocoiru!Pending(c.to) : Cocoiru!Before(d, c)}
    BY <1>2, CocoiruInvParts DEF Ahead, Cocoiru!Before, Cocoiru!Pending
  <2>2. Cardinality({d \in Cocoiru!Pending(c.to) : Cocoiru!Before(d, c)}) < InboxLimit
    BY <2>1 DEF CocoiruInv
  <2>3. c \in Cocoiru!Pending(c.to)
    BY DEF Cocoiru!Pending
  <2> QED BY <2>2, <2>3 DEF Cocoiru!Inbox, Cocoiru!Cardinality, Cardinality,
             Cocoiru!IsFiniteSet, IsFiniteSet
<1> QED BY <1>1, <1>2

(* A call to a resident that was answered 201 is in the recipient's inbox  *)
(* until it is acknowledged or expires, and the rate limits hold between   *)
(* the rows that are left (plugins/cocoiru), whatever the limits.          *)
THEOREM CallsShownAndSpaced == Cocoiru!Spec => []CallsAreShownAndSpaced
BY CocoiruBegins, CocoiruStep, CallsAreShown, PTL DEF Cocoiru!Spec, cocoiruVars, Cocoiru!vars

-----------------------------------------------------------------------------
(* What is remembered of Cernere.                                          *)

PresenceInv == Presence!TypeOK /\ Presence!FailuresAreOwn

(* The deadline of the cache leaves the margin less the answer's way, an   *)
(* issue is no older than its timeout.                                     *)
TokenInv ==
  /\ Token!TypeOK
  /\ cached.deadline > 0 => cached.ends >= cached.deadline + Margin - IssueTimeout
  /\ Token!Asked =>
       /\ issue.begun \in 0..now /\ now <= issue.begun + IssueTimeout
       /\ issue.at = -1 \/ issue.at \in issue.begun..now
  /\ Token!HandedTokenIsLive

(* Keys are as old as the cache and one fetch; a caller that may fall back *)
(* on them began to wait while they were fresh; what a caller was woken    *)
(* with is used at once.                                                   *)
KeysAreRecent ==
  /\ \A k \in published : since[k] = 0
  /\ fetch # KeyCache!NoFetch => fetch.age \in Nat
  /\ fetch.served # None => fetch # KeyCache!NoFetch /\ \A k \in fetch.served : since[k] <= fetch.age
  /\ keys # None /\ age < Ttl => \A k \in keys : since[k] <= age + FetchTimeout
  /\ \A c \in KeyCallers :
       /\ verifying[c].at = "waiting" =>
            /\ fetch # KeyCache!NoFetch
            /\ verifying[c].fresh =>
                 /\ keys # None
                 /\ \A k \in keys : since[k] < Ttl + FetchTimeout + fetch.age
       /\ verifying[c].at = "woken" =>
            /\ verifying[c].key \in Keys
            /\ verifying[c].got # None => \A k \in verifying[c].got : since[k] < KeyCache!Enough
       /\ verifying[c].at \in {"waiting", "ok"} => verifying[c].key \in Keys

KeysInv == KeyCache!TypeOK /\ KeysAreRecent /\ KeyCache!AcceptedKeyIsRecent

LEMMA PresenceBegins == Presence!Init => PresenceInv
<1> SUFFICES ASSUME Presence!Init PROVE PresenceInv
  OBVIOUS
<1>1. \A r \in Presence!Askers : Presence!Calls(r) \in 1..2
  BY DEF Presence!Calls
<1> QED BY <1>1 DEF Presence!Init, PresenceInv, Presence!TypeOK, Presence!FailuresAreOwn

LEMMA PresenceStep == PresenceInv /\ [Presence!Next]_presenceVars => PresenceInv'
<1> DEFINE Asking == [at : {"idle", "setup", "declare", "declaring", "calling", "answered"},
                      left : 1..2, answer : {"none", "ok", "refused", "unavailable"}]
<1> SUFFICES ASSUME PresenceInv, [Presence!Next]_presenceVars PROVE PresenceInv'
  OBVIOUS
<1>t. /\ asking \in [Presence!Askers -> Asking] /\ declaration \in {"none", "pending", "ok"}
      /\ setupSettled \in BOOLEAN /\ failed \subseteq Presence!Askers
      /\ \A r \in Presence!Askers :
           /\ asking[r].answer = "unavailable" => r \in failed
           /\ asking[r].at = "calling" => declaration = "ok"
  BY DEF PresenceInv, Presence!TypeOK, Presence!FailuresAreOwn
<1>1. CASE UNCHANGED presenceVars
  BY <1>1 DEF presenceVars, PresenceInv, Presence!TypeOK, Presence!FailuresAreOwn
(* A request goes on, or is answered with its own failure.                 *)
<1>2. ASSUME NEW r \in Presence!Askers, NEW new \in Asking, asking' = [asking EXCEPT ![r] = new],
             declaration' \in {"none", "pending", "ok"},
             declaration = "ok" => declaration' = "ok", setupSettled' = setupSettled,
             failed \subseteq failed', failed' \subseteq Presence!Askers,
             new.answer = "unavailable" => r \in failed',
             new.at = "calling" => declaration' = "ok"
      PROVE  PresenceInv'
  <2>1. asking' \in [Presence!Askers -> Asking]
    BY <1>t, <1>2
  <2>2. \A p \in Presence!Askers : asking'[p] = IF p = r THEN new ELSE asking[p]
    BY <1>t, <1>2
  <2> HIDE DEF Asking
  <2>3. Presence!FailuresAreOwn'
    BY <1>t, <1>2, <2>2 DEF Presence!FailuresAreOwn
  <2> QED BY <1>t, <1>2, <2>1, <2>3 DEF PresenceInv, Presence!TypeOK, Asking
<1>e. \A r \in Presence!Askers :
        /\ asking[r] \in Asking
        /\ \A at \in {"setup", "declare", "declaring", "calling"} :
             [asking EXCEPT ![r].at = at] = [asking EXCEPT ![r] = [asking[r] EXCEPT !.at = at]]
  BY <1>t
<1>3. ASSUME NEW r \in Presence!Askers, Presence!Begin(r) PROVE PresenceInv'
  <2> PICK at \in {"setup", "declare"} : asking' = [asking EXCEPT ![r].at = at]
    BY <1>3 DEF Presence!Begin
  <2> DEFINE new == [asking[r] EXCEPT !.at = at]
  <2>1. /\ asking' = [asking EXCEPT ![r] = new] /\ new \in Asking /\ new.at # "calling"
        /\ new.answer = asking[r].answer
    BY <1>e
  <2> HIDE DEF new, Asking
  <2> QED BY <1>2, <1>3, <1>t, <2>1 DEF Presence!Begin
<1>4. ASSUME NEW r \in Presence!Askers, Presence!Declare(r) PROVE PresenceInv'
  <2> PICK at \in {"declaring", "calling"} :
        /\ asking' = [asking EXCEPT ![r].at = at]
        /\ declaration' \in {"none", "pending", "ok"} /\ (declaration = "ok" => declaration' = "ok")
        /\ at = "calling" => declaration' = "ok"
    BY <1>4 DEF Presence!Declare, Presence!Redeclare
  <2> DEFINE new == [asking[r] EXCEPT !.at = at]
  <2>1. /\ asking' = [asking EXCEPT ![r] = new] /\ new \in Asking /\ new.at = at
        /\ new.answer = asking[r].answer
    BY <1>e
  <2> HIDE DEF new, Asking
  <2> QED BY <1>2, <1>4, <1>t, <2>1 DEF Presence!Declare
<1>5. ASSUME NEW r \in Presence!Askers, Presence!Call(r) PROVE PresenceInv'
  <2>1. PICK new \in Asking :
          /\ asking' = [asking EXCEPT ![r] = new] /\ new.at # "calling"
          /\ new.answer = "unavailable" => r \in failed'
          /\ failed' \in {failed, failed \cup {r}}
    <3>0. /\ \A how \in {"ok", "refused", "unavailable"} :
               /\ Presence!Answered(r, how) \in Asking
               /\ Presence!Answered(r, how).at = "answered"
               /\ Presence!Answered(r, how).answer = how
          /\ asking[r].left # 1 =>
               /\ [asking[r] EXCEPT !.at = "declare", !.left = @ - 1] \in Asking
               /\ [asking[r] EXCEPT !.at = "declare", !.left = @ - 1].at = "declare"
               /\ [asking[r] EXCEPT !.at = "declare", !.left = @ - 1].answer = asking[r].answer
      <4>1. asking[r] \in Asking
        BY <1>e
      <4>2. ASSUME NEW how \in {"ok", "refused", "unavailable"}
            PROVE  /\ Presence!Answered(r, how) \in Asking
                   /\ Presence!Answered(r, how).at = "answered"
                   /\ Presence!Answered(r, how).answer = how
        BY <4>1 DEF Presence!Answered
      <4>3. ASSUME asking[r].left # 1
            PROVE  /\ [asking[r] EXCEPT !.at = "declare", !.left = @ - 1] \in Asking
                   /\ [asking[r] EXCEPT !.at = "declare", !.left = @ - 1].at = "declare"
                   /\ [asking[r] EXCEPT !.at = "declare", !.left = @ - 1].answer = asking[r].answer
        <5>1. asking[r].left - 1 \in 1..2
          BY <4>1, <4>3
        <5> QED BY <4>1, <5>1
      <4> QED BY <4>2, <4>3
    <3> HIDE DEF Asking
    <3>1. CASE asking[r].left = 1 /\ asking' = [asking EXCEPT ![r] = Presence!Answered(r, "ok")]
               /\ failed' = failed
      BY <3>0, <3>1
    <3>2. CASE asking[r].left # 1 /\ failed' = failed
               /\ asking' = [asking EXCEPT ![r] = [asking[r] EXCEPT !.at = "declare", !.left = @ - 1]]
      <4>1. asking[r].answer = "unavailable" => r \in failed
        BY <1>t
      <4> QED BY <3>0, <3>2, <4>1
    <3>3. CASE asking' = [asking EXCEPT ![r] = Presence!Answered(r, "refused")] /\ failed' = failed
      BY <3>0, <3>3
    <3>4. CASE asking' = [asking EXCEPT ![r] = Presence!Answered(r, "unavailable")]
               /\ failed' = failed \cup {r}
      BY <3>0, <3>4
    <3> QED BY <1>5, <3>1, <3>2, <3>3, <3>4 DEF Presence!Call
  <2> HIDE DEF Asking
  <2> QED BY <1>2, <1>5, <1>t, <2>1 DEF Presence!Call
(* A declaration ends for all who share it.                                *)
<1>6. CASE Presence!Declared \/ Presence!DeclarationFails
  <2>1. /\ \A p \in Presence!Askers :
             /\ asking'[p] \in Asking
             /\ asking'[p].at = "calling" => declaration' = "ok"
             /\ asking'[p].answer = "unavailable" => p \in failed'
        /\ asking' = [p \in Presence!Askers |-> asking'[p]]
    <3>1. CASE Presence!Declared
      <4> SUFFICES ASSUME NEW p \in Presence!Askers
                   PROVE  /\ asking'[p] \in Asking
                          /\ asking'[p].answer = "unavailable" => p \in failed'
        BY <3>1 DEF Presence!Declared
      <4>1. asking'[p] \in {asking[p], [asking[p] EXCEPT !.at = "calling"]} /\ failed' = failed
        BY <3>1 DEF Presence!Declared
      <4>2. asking[p].answer = "unavailable" => p \in failed
        BY <1>t
      <4> QED BY <1>e, <4>1, <4>2
    <3>2. CASE Presence!DeclarationFails
      <4> SUFFICES ASSUME NEW p \in Presence!Askers
                   PROVE  /\ asking'[p] \in Asking
                          /\ asking'[p].at # "calling"
                          /\ asking'[p].answer = "unavailable" => p \in failed'
        BY <3>2 DEF Presence!DeclarationFails
      <4>1. \/ p \in failed' /\ asking'[p] = [asking[p] EXCEPT !.at = "answered", !.answer = "unavailable"]
            \/ asking'[p] = asking[p]
        BY <3>2 DEF Presence!DeclarationFails, Presence!Answered, Presence!At
      <4>2. asking[p].answer = "unavailable" => p \in failed'
        BY <1>t, <3>2 DEF Presence!DeclarationFails
      <4>3. asking[p].at # "calling"
        BY <1>t, <3>2 DEF Presence!DeclarationFails
      <4> QED BY <1>e, <4>1, <4>2, <4>3
    <3> QED BY <1>6, <3>1, <3>2
  <2>2. /\ declaration' \in {"none", "pending", "ok"} /\ setupSettled' \in BOOLEAN
        /\ failed' \subseteq Presence!Askers
    BY <1>6, <1>t DEF Presence!Declared, Presence!DeclarationFails, Presence!At
  <2> QED BY <2>1, <2>2 DEF PresenceInv, Presence!TypeOK, Presence!FailuresAreOwn
<1> QED BY <1>1, <1>3, <1>4, <1>5, <1>6 DEF Presence!Next

LEMMA TokenBegins == Token!Init => TokenInv
BY IssueAssumption DEF Token!Init, TokenInv, Token!TypeOK, Token!HandedTokenIsLive, Token!NoToken,
   Token!NoIssue, Token!Asked, Token!TokenAssumption

LEMMA TokenStep == TokenInv /\ [Token!Next]_tokenVars => TokenInv'
<1> DEFINE Asked0 == [at : {"idle", "waiting", "token", "failed"}, ends : Nat, cache : BOOLEAN]
<1> SUFFICES ASSUME TokenInv, [Token!Next]_tokenVars PROVE TokenInv'
  OBVIOUS
<1> USE IssueAssumption DEF Token!TokenAssumption
<1>t. /\ now \in 0..MaxNow /\ failure \in Nat /\ cached \in [deadline : Int, ends : Nat]
      /\ issue \in [begun : Int, at : Int, life : Nat]
      /\ caller \in [TokenCallers -> Asked0]
      /\ cached.deadline > 0 => cached.ends >= cached.deadline + Margin - IssueTimeout
      /\ issue # Token!NoIssue =>
           /\ issue.begun \in 0..now /\ now <= issue.begun + IssueTimeout
           /\ issue.at = -1 \/ issue.at \in issue.begun..now
      /\ \A c \in TokenCallers :
           caller[c].at = "token" /\ caller[c].cache => caller[c].ends > now + Margin - IssueTimeout
  BY DEF TokenInv, Token!TypeOK, Token!HandedTokenIsLive, Token!Asked
<1>1. CASE UNCHANGED tokenVars
  BY <1>1 DEF tokenVars, TokenInv, Token!TypeOK, Token!HandedTokenIsLive, Token!Asked
<1>2. ASSUME NEW c \in TokenCallers, Token!GetToken(c) PROVE TokenInv'
  <2>1. /\ UNCHANGED <<now, cached, failure>>
        /\ \/ issue' = issue
           \/ issue = Token!NoIssue /\ issue' = [begun |-> now, at |-> -1, life |-> 0]
        /\ \E new \in Asked0 :
             /\ caller' = [caller EXCEPT ![c] = new]
             /\ new.at = "token" /\ new.cache => new.ends > now + Margin - IssueTimeout
    <3>1. CASE cached.deadline > now
      <4> DEFINE new == Token!Got(cached.ends, TRUE)
      <4>1. new \in Asked0 /\ new.ends > now + Margin - IssueTimeout
        BY <1>t, <3>1 DEF Token!Got
      <4>2. caller' = [caller EXCEPT ![c] = new] /\ UNCHANGED <<now, cached, failure, issue>>
        <5>1. ~(cached.deadline <= now)
          BY <1>t, <3>1
        <5> HIDE DEF new
        <5>2. caller' = [caller EXCEPT ![c] = Token!Got(cached.ends, TRUE)] /\ UNCHANGED issue
          BY <1>2, <3>1, <5>1 DEF Token!GetToken
        <5>3. UNCHANGED <<now, cached, failure>>
          BY <1>2 DEF Token!GetToken
        <5> QED BY <5>2, <5>3 DEF new
      <4> HIDE DEF Asked0, new
      <4> QED BY <4>1, <4>2
    <3>2. ASSUME NEW at \in {"waiting", "failed"}, caller' = [caller EXCEPT ![c].at = at]
          PROVE  \E new \in Asked0 : caller' = [caller EXCEPT ![c] = new] /\ new.at # "token"
      <4> DEFINE new == [caller[c] EXCEPT !.at = at]
      <4>1. new \in Asked0 /\ new.at # "token" /\ caller' = [caller EXCEPT ![c] = new]
        BY <1>t, <3>2
      <4> HIDE DEF Asked0, new
      <4> QED BY <4>1
    <3>3. CASE ~(cached.deadline > now)
      <4>1. \E at \in {"waiting", "failed"} : caller' = [caller EXCEPT ![c].at = at]
        BY <1>t, <1>2, <3>3 DEF Token!GetToken
      <4>2. \E new \in Asked0 : caller' = [caller EXCEPT ![c] = new] /\ new.at # "token"
        BY <3>2, <4>1
      <4>3. UNCHANGED <<now, cached, failure>>
        BY <1>2 DEF Token!GetToken
      <4>4. \/ issue' = issue
            \/ issue = Token!NoIssue /\ issue' = [begun |-> now, at |-> -1, life |-> 0]
        BY <1>t, <1>2, <3>3 DEF Token!GetToken, Token!Asked, Token!NoIssue
      <4> HIDE DEF Asked0
      <4> QED BY <4>2, <4>3, <4>4
    <3> QED BY <3>1, <3>3
  <2>2. PICK new \in Asked0 :
          /\ caller' = [caller EXCEPT ![c] = new]
          /\ new.at = "token" /\ new.cache => new.ends > now + Margin - IssueTimeout
    BY <2>1
  <2> HIDE DEF Asked0
  <2>3. /\ caller' \in [TokenCallers -> Asked0]
        /\ \A d \in TokenCallers : caller'[d] = IF d = c THEN new ELSE caller[d]
    BY <1>t, <2>2
  <2>4. Token!HandedTokenIsLive'
    BY <1>t, <2>1, <2>2, <2>3 DEF Token!HandedTokenIsLive
  <2>5. /\ issue' \in [begun : Int, at : Int, life : Nat]
        /\ issue' # Token!NoIssue =>
             /\ issue'.begun \in 0..now /\ now <= issue'.begun + IssueTimeout
             /\ issue'.at = -1 \/ issue'.at \in issue'.begun..now
    BY <1>t, <2>1
  <2> QED BY <1>t, <2>1, <2>3, <2>4, <2>5 DEF TokenInv, Token!TypeOK, Token!Asked, Asked0
<1>3. CASE Token!CernereIssues
  <2> PICK life \in Lives : issue' = [issue EXCEPT !.at = now, !.life = life]
    BY <1>3 DEF Token!CernereIssues
  <2>1. UNCHANGED <<now, cached, failure, caller>> /\ issue # Token!NoIssue
    BY <1>3 DEF Token!CernereIssues, Token!Asked
  <2>2. /\ issue' \in [begun : Int, at : Int, life : Nat]
        /\ issue'.begun = issue.begun /\ issue'.at = now
    <3>1. issue' = [begun |-> issue.begun, at |-> now, life |-> life]
      BY <1>t
    <3>2. issue.begun \in Int /\ now \in Int /\ life \in Nat
      BY <1>t
    <3> QED BY <3>1, <3>2
  <2> QED BY <1>t, <2>1, <2>2 DEF TokenInv, Token!TypeOK, Token!HandedTokenIsLive, Token!Asked
<1>4. CASE Token!IssueOk
  <2>1. /\ now' = now /\ failure' = 0 /\ issue' = Token!NoIssue
        /\ issue # Token!NoIssue /\ issue.at # -1
        /\ cached' = [deadline |-> now + issue.life - Margin, ends |-> issue.at + issue.life]
    BY <1>4 DEF Token!IssueOk, Token!Asked
  <2>2. issue.at + issue.life \in Nat /\ issue.at >= now - IssueTimeout
    BY <1>t, <2>1
  <2>3. /\ cached' \in [deadline : Int, ends : Nat]
        /\ cached'.ends >= cached'.deadline + Margin - IssueTimeout
    BY <1>t, <2>1, <2>2
  <2>4. ASSUME NEW c \in TokenCallers
        PROVE  /\ caller'[c] \in Asked0
               /\ caller'[c] = caller[c] \/ ~caller'[c].cache
    BY <1>t, <1>4, <2>2 DEF Token!IssueOk, Token!Got
  <2>5. caller' \in [TokenCallers -> Asked0]
    BY <1>4, <2>4 DEF Token!IssueOk
  <2>6. Token!HandedTokenIsLive'
    BY <1>t, <2>1, <2>4 DEF Token!HandedTokenIsLive
  <2>7. issue' \in [begun : Int, at : Int, life : Nat]
    BY <2>1 DEF Token!NoIssue
  <2> QED BY <1>t, <2>1, <2>3, <2>5, <2>6, <2>7 DEF TokenInv, Token!TypeOK, Token!Asked
<1>5. CASE Token!IssueFails
  <2>1. /\ now' = now /\ failure' = now + Backoff /\ issue' = Token!NoIssue
        /\ cached' = Token!NoToken
    BY <1>5 DEF Token!IssueFails
  <2>2. ASSUME NEW c \in TokenCallers
        PROVE  /\ caller'[c] \in Asked0
               /\ caller'[c] = caller[c] \/ caller'[c].at = "failed"
    <3>1. caller[c] \in Asked0 /\ caller'[c] \in {caller[c], [caller[c] EXCEPT !.at = "failed"]}
      BY <1>t, <1>5 DEF Token!IssueFails
    <3> QED BY <3>1
  <2>3. caller' \in [TokenCallers -> Asked0]
    BY <1>5, <2>2 DEF Token!IssueFails
  <2>4. Token!HandedTokenIsLive'
    BY <1>t, <2>1, <2>2 DEF Token!HandedTokenIsLive
  <2>5. issue' \in [begun : Int, at : Int, life : Nat] /\ cached' \in [deadline : Int, ends : Nat]
        /\ cached'.deadline = 0 /\ failure' \in Nat
    BY <1>t, <2>1 DEF Token!NoIssue, Token!NoToken
  <2> QED BY <1>t, <2>1, <2>3, <2>4, <2>5 DEF TokenInv, Token!TypeOK, Token!Asked
<1>6. CASE Token!Tick
  <2>1. /\ now < MaxNow /\ now' = now + 1 /\ UNCHANGED <<cached, failure, issue>>
        /\ issue # Token!NoIssue => now < issue.begun + IssueTimeout
    BY <1>6 DEF Token!Tick, Token!Asked
  <2>2. ASSUME NEW c \in TokenCallers
        PROVE  caller'[c] \in Asked0 /\ caller'[c].at # "token"
    <3>1. \/ caller'[c] = caller[c] /\ caller[c].at = "waiting"
          \/ caller'[c] = [at |-> "idle", ends |-> 0, cache |-> FALSE]
      BY <1>6 DEF Token!Tick, Token!Waiting
    <3>2. caller[c] \in Asked0
      BY <1>t
    <3>3. CASE caller'[c] = caller[c] /\ caller[c].at = "waiting"
      BY <3>2, <3>3
    <3>4. CASE caller'[c] = [at |-> "idle", ends |-> 0, cache |-> FALSE]
      BY <3>4
    <3> QED BY <3>1, <3>3, <3>4
  <2>3. caller' \in [TokenCallers -> Asked0]
    BY <1>6, <2>2 DEF Token!Tick
  <2>4. Token!HandedTokenIsLive'
    BY <2>2 DEF Token!HandedTokenIsLive
  <2>5. /\ now' \in 0..MaxNow
        /\ issue # Token!NoIssue =>
             /\ issue.begun \in 0..now' /\ now' <= issue.begun + IssueTimeout
             /\ issue.at = -1 \/ issue.at \in issue.begun..now'
    BY <1>t, <2>1
  <2> QED BY <1>t, <2>1, <2>3, <2>4, <2>5 DEF TokenInv, Token!TypeOK, Token!Asked
<1> QED BY <1>1, <1>2, <1>3, <1>4, <1>5, <1>6 DEF Token!Next

KeySets == {None} \cup SUBSET Keys
Verifying == [key : Keys \cup {None},
              at : {"idle", "waiting", "woken", "ok", "invalid", "unavailable"},
              forced : BOOLEAN, fresh : BOOLEAN, got : KeySets]

(* What one verification may be in, of the invariant.                      *)
VerifyingIsSound(v) ==
  /\ v.at = "waiting" =>
       /\ fetch # KeyCache!NoFetch
       /\ v.fresh =>
            /\ keys # None
            /\ \A k \in keys : since[k] < Ttl + FetchTimeout + fetch.age
  /\ v.at = "woken" =>
       /\ v.key \in Keys
       /\ v.got # None => \A k \in v.got : since[k] < KeyCache!Enough
  /\ v.at \in {"waiting", "ok"} => v.key \in Keys
  /\ v.at = "ok" => since[v.key] < KeyCache!Enough

KeysAreOld ==
  /\ keys \in KeySets /\ age \in 0..Ttl
  /\ fetch \in [age : {None} \cup 0..FetchTimeout, served : KeySets]
  /\ published \subseteq Keys
  /\ since \in [Keys -> 0..KeyCache!Enough]
  /\ refetched \in 0..MinInterval
  /\ \A k \in published : since[k] = 0
  /\ fetch # KeyCache!NoFetch => fetch.age \in Nat
  /\ fetch.served # None => fetch # KeyCache!NoFetch /\ \A k \in fetch.served : since[k] <= fetch.age
  /\ keys # None /\ age < Ttl => \A k \in keys : since[k] <= age + FetchTimeout

LEMMA KeysInvParts ==
  KeysInv <=> /\ KeysAreOld /\ verifying \in [KeyCallers -> Verifying]
              /\ \A c \in KeyCallers : VerifyingIsSound(verifying[c])
BY DEF KeysInv, KeyCache!TypeOK, KeysAreRecent, KeyCache!AcceptedKeyIsRecent, KeysAreOld,
   Verifying, VerifyingIsSound, KeySets, KeyCache!Sets

LEMMA KeysInvPartsNext ==
  KeysInv' <=> /\ KeysAreOld' /\ verifying' \in [KeyCallers -> Verifying]
               /\ \A c \in KeyCallers : VerifyingIsSound(verifying[c])'
BY DEF KeysInv, KeyCache!TypeOK, KeysAreRecent, KeyCache!AcceptedKeyIsRecent, KeysAreOld,
   Verifying, VerifyingIsSound, KeySets, KeyCache!Sets

LEMMA KeysBegin == KeyCache!Init => KeysInv
<1> SUFFICES ASSUME KeyCache!Init PROVE KeysInv
  OBVIOUS
<1> USE KeysAssumption DEF KeyCache!KeyCacheAssumption
<1>1. KeyCache!Enough \in Nat
  BY DEF KeyCache!Enough
<1>2. KeysAreOld
  BY <1>1 DEF KeyCache!Init, KeysAreOld, KeySets, KeyCache!NoFetch
<1>3. ASSUME NEW c \in KeyCallers PROVE verifying[c] = KeyCache!Idle
  BY DEF KeyCache!Init
<1>4. KeyCache!Idle \in Verifying /\ VerifyingIsSound(KeyCache!Idle)
  BY DEF KeyCache!Idle, Verifying, KeySets, VerifyingIsSound
<1>5. verifying \in [KeyCallers -> Verifying]
  BY <1>4 DEF KeyCache!Init
<1> QED BY <1>2, <1>3, <1>4, <1>5, KeysInvParts

(* A verification goes on: with the keys it has, fresh enough to be used   *)
(* now, or behind a fetch.                                                 *)
LEMMA KeysAnswer ==
  ASSUME KeysInv, NEW c \in KeyCallers, NEW key \in Keys, NEW ks \in KeySets,
         ks # None => \A k \in ks : since[k] < KeyCache!Enough,
         KeyCache!Answer(c, key, ks), UNCHANGED <<keys, age, published, since>>
  PROVE  KeysInv'
<1> USE KeysAssumption DEF KeyCache!KeyCacheAssumption
<1>1. PICK new \in Verifying : /\ verifying' = [verifying EXCEPT ![c] = new]
                               /\ new.at \in {"ok", "invalid", "unavailable"} /\ new.key = key
                               /\ new.at = "ok" => since[key] < KeyCache!Enough
  <2> DEFINE new == [KeyCache!Idle EXCEPT !.key = key, !.at =
                       IF ks = None THEN "unavailable" ELSE IF key \in ks THEN "ok" ELSE "invalid"]
  <2>1. verifying' = [verifying EXCEPT ![c] = new]
    BY DEF KeyCache!Answer
  <2>2. new \in Verifying /\ new.at \in {"ok", "invalid", "unavailable"} /\ new.key = key
    BY DEF KeyCache!Idle, Verifying, KeySets
  <2>3. new.at = "ok" => since[key] < KeyCache!Enough
    BY DEF KeyCache!Idle
  <2> HIDE DEF new
  <2> QED BY <2>1, <2>2, <2>3
<1>2. UNCHANGED <<keys, age, published, since, fetch, refetched>>
  BY DEF KeyCache!Answer
<1>3. KeysAreOld'
  BY <1>2, KeysInvParts DEF KeysAreOld
<1>4. /\ verifying' \in [KeyCallers -> Verifying]
      /\ \A d \in KeyCallers : verifying'[d] = IF d = c THEN new ELSE verifying[d]
  BY <1>1, KeysInvParts
<1>5. \A d \in KeyCallers : VerifyingIsSound(verifying[d])'
  BY <1>1, <1>2, <1>4, KeysInvParts DEF VerifyingIsSound
<1> QED BY <1>3, <1>4, <1>5, KeysInvPartsNext

LEMMA KeysWait ==
  ASSUME KeysInv, NEW c \in KeyCallers, NEW key \in Keys, NEW force \in BOOLEAN,
         KeyCache!Wait(c, key, force), verifying[c].at \in {"idle", "woken"},
         UNCHANGED <<keys, age, published, since>>
  PROVE  KeysInv'
<1> USE KeysAssumption DEF KeyCache!KeyCacheAssumption
<1> PICK new \in Verifying :
      /\ verifying' = [verifying EXCEPT ![c] = new]
      /\ new.at = "waiting" /\ new.key = key /\ (new.fresh => KeyCache!Fresh)
  <2> DEFINE entry == [key |-> key, at |-> "waiting", forced |-> force, fresh |-> KeyCache!Fresh,
                       got |-> None]
  <2>1. /\ entry \in Verifying /\ entry.at = "waiting" /\ entry.key = key
        /\ entry.fresh = KeyCache!Fresh
    BY DEF Verifying, KeySets, KeyCache!Fresh
  <2>2. verifying' = [verifying EXCEPT ![c] = entry]
    BY DEF KeyCache!Wait
  <2> HIDE DEF entry
  <2> QED BY <2>1, <2>2
<1>2. /\ fetch' = IF fetch = KeyCache!NoFetch THEN [age |-> 0, served |-> None] ELSE fetch
      /\ refetched' \in {0, refetched}
  BY DEF KeyCache!Wait
<1>3. fetch' # KeyCache!NoFetch /\ (fetch # KeyCache!NoFetch => fetch' = fetch)
      /\ (fetch = KeyCache!NoFetch => fetch'.age = 0 /\ fetch'.served = None)
  BY <1>2 DEF KeyCache!NoFetch
<1>t. KeysAreOld /\ KeyCache!Enough \in Nat
  BY KeysInvParts DEF KeyCache!Enough
<1>4. KeysAreOld'
  BY <1>2, <1>3, <1>t DEF KeysAreOld, KeySets, KeyCache!Fresh
<1>5. /\ verifying' \in [KeyCallers -> Verifying]
      /\ \A d \in KeyCallers : verifying'[d] = IF d = c THEN new ELSE verifying[d]
  BY KeysInvParts
<1>6. VerifyingIsSound(new)'
  <2>1. KeyCache!Fresh => keys # None /\ \A k \in keys : since[k] < Ttl + FetchTimeout + fetch'.age
    <3> SUFFICES ASSUME KeyCache!Fresh, NEW k \in keys
                 PROVE  since[k] < Ttl + FetchTimeout + fetch'.age
      BY DEF KeyCache!Fresh
    <3>1. since[k] <= age + FetchTimeout /\ age < Ttl /\ age \in Nat /\ k \in Keys
      BY <1>t DEF KeysAreOld, KeyCache!Fresh, KeySets
    <3>2. since[k] \in Nat /\ fetch'.age \in Nat
      BY <1>3, <1>t, <3>1 DEF KeysAreOld
    <3> QED BY <3>1, <3>2
  <2> QED BY <1>3, <2>1 DEF VerifyingIsSound
<1>7. \A d \in KeyCallers : d # c => VerifyingIsSound(verifying[d])'
  <2> TAKE d \in KeyCallers
  <2>1. VerifyingIsSound(verifying[d])
    BY KeysInvParts
  <2> QED BY <1>3, <1>5, <2>1 DEF VerifyingIsSound
<1>8. \A d \in KeyCallers : VerifyingIsSound(verifying[d])'
  <2> TAKE d \in KeyCallers
  <2>1. CASE d = c
    BY <1>5, <1>6, <2>1 DEF VerifyingIsSound
  <2>2. CASE d # c
    BY <1>7, <2>2
  <2> QED BY <2>1, <2>2
<1> QED BY <1>4, <1>5, <1>8, KeysInvPartsNext

(* The keys of the cache, fresh or too young to be asked for again.        *)
LEMMA CachedKeysAreRecent ==
  ASSUME KeysInv, NEW force \in BOOLEAN, KeyCache!Cached(force)
  PROVE  keys \in KeySets /\ (keys # None => \A k \in keys : since[k] < KeyCache!Enough)
<1> USE KeysAssumption DEF KeyCache!KeyCacheAssumption
<1>1. KeysAreOld
  BY KeysInvParts
<1>2. keys # None => age < Ttl
  BY <1>1 DEF KeyCache!Cached, KeyCache!MayRefresh, KeyCache!Fresh, KeysAreOld
<1>3. ASSUME keys # None, NEW k \in keys PROVE since[k] < KeyCache!Enough
  <2>1. k \in Keys /\ age \in Nat /\ since[k] \in Nat /\ since[k] <= age + FetchTimeout
    BY <1>1, <1>2, <1>3 DEF KeysAreOld, KeySets, KeyCache!Enough
  <2> QED BY <1>2, <1>3, <2>1 DEF KeyCache!Enough
<1> QED BY <1>1, <1>3 DEF KeysAreOld

LEMMA KeysVerify ==
  ASSUME KeysInv, NEW c \in KeyCallers, NEW key \in Keys, NEW ks \in KeySets,
         ks # None => \A k \in ks : since[k] < KeyCache!Enough,
         verifying[c].at \in {"idle", "woken"},
         KeyCache!Verify(c, key, ks), UNCHANGED <<keys, age, published, since>>
  PROVE  KeysInv'
<1>1. CASE KeyCache!Answer(c, key, ks)
  BY <1>1, KeysAnswer
<1>2. CASE KeyCache!Cached(TRUE) /\ KeyCache!Answer(c, key, keys)
  <2>1. keys \in KeySets /\ (keys # None => \A k \in keys : since[k] < KeyCache!Enough)
    BY <1>2, CachedKeysAreRecent
  <2> QED BY <1>2, <2>1, KeysAnswer
<1>3. CASE KeyCache!Wait(c, key, TRUE)
  BY <1>3, KeysWait
<1> QED BY <1>1, <1>2, <1>3 DEF KeyCache!Verify

(* The end of a fetch: whoever waits has keys it can use now, or none.     *)
LEMMA KeysWake ==
  ASSUME KeysInv, NEW ks \in KeySets, fetch # KeyCache!NoFetch,
         ks # None => \A k \in ks : since[k] < KeyCache!Enough,
         verifying' = KeyCache!Wake(ks), fetch' = KeyCache!NoFetch,
         UNCHANGED <<published, since, refetched>>
  PROVE  /\ verifying' \in [KeyCallers -> Verifying]
         /\ \A c \in KeyCallers : VerifyingIsSound(verifying[c])'
<1> USE KeysAssumption DEF KeyCache!KeyCacheAssumption
<1>t. /\ KeysAreOld /\ verifying \in [KeyCallers -> Verifying]
      /\ \A c \in KeyCallers : VerifyingIsSound(verifying[c])
  BY KeysInvParts
<1>1. ASSUME NEW c \in KeyCallers
      PROVE  verifying'[c] \in Verifying /\ VerifyingIsSound(verifying[c])'
  <2>1. verifying[c] \in Verifying /\ VerifyingIsSound(verifying[c])
    BY <1>t
  <2>2. CASE verifying[c].at # "waiting"
    <3>1. verifying'[c] = verifying[c]
      BY <2>2 DEF KeyCache!Wake
    <3> QED BY <2>1, <2>2, <3>1 DEF VerifyingIsSound
  <2>3. CASE verifying[c].at = "waiting"
    <3> DEFINE got == IF ks # None THEN ks ELSE IF verifying[c].fresh THEN keys ELSE None
    <3>1. verifying'[c] = [verifying[c] EXCEPT !.at = "woken", !.got = got]
      BY <2>3 DEF KeyCache!Wake
    <3>2. got \in KeySets
      BY <1>t DEF KeysAreOld, KeySets
    <3>3. got # None => \A k \in got : since[k] < KeyCache!Enough
      <4>1. CASE ks # None
        BY <4>1
      <4>2. CASE ks = None /\ verifying[c].fresh
        <5> SUFFICES ASSUME keys # None, NEW k \in keys PROVE since[k] < KeyCache!Enough
          BY <4>2
        <5>1. since[k] < Ttl + FetchTimeout + fetch.age
          BY <2>1, <2>3, <4>2 DEF VerifyingIsSound
        <5>2. k \in Keys /\ since[k] \in Int /\ fetch.age \in 0..FetchTimeout
          BY <1>t DEF KeysAreOld, KeySets, KeyCache!Enough
        <5> QED BY <5>1, <5>2 DEF KeyCache!Enough
      <4> QED BY <4>1, <4>2
    <3> HIDE DEF got
    <3>4. /\ verifying'[c] \in Verifying /\ verifying'[c].at = "woken"
          /\ verifying'[c].key = verifying[c].key /\ verifying'[c].got = got
      BY <2>1, <3>1, <3>2 DEF Verifying
    <3> QED BY <2>1, <2>3, <3>3, <3>4 DEF VerifyingIsSound, KeyCache!Enough
  <2> QED BY <2>2, <2>3
<1>2. verifying' \in [KeyCallers -> Verifying]
  BY <1>1 DEF KeyCache!Wake
<1> QED BY <1>1, <1>2

LEMMA KeysStep == KeysInv /\ [KeyCache!Next]_keyVars => KeysInv'
<1> SUFFICES ASSUME KeysInv, [KeyCache!Next]_keyVars PROVE KeysInv'
  OBVIOUS
<1> USE KeysAssumption DEF KeyCache!KeyCacheAssumption
<1>t. /\ KeysAreOld /\ verifying \in [KeyCallers -> Verifying]
      /\ \A c \in KeyCallers : verifying[c] \in Verifying /\ VerifyingIsSound(verifying[c])
  BY KeysInvParts
<1>e. KeyCache!Enough \in Nat /\ KeyCache!Enough > 0
  BY DEF KeyCache!Enough
<1>1. CASE UNCHANGED keyVars
  BY <1>1, <1>t, KeysInvPartsNext DEF keyVars, KeysAreOld, VerifyingIsSound
<1>2. ASSUME NEW c \in KeyCallers, NEW k \in Keys, KeyCache!Begin(c, k) PROVE KeysInv'
  <2>1. verifying[c].at = "idle" /\ UNCHANGED <<keys, age, published, since>>
    BY <1>2 DEF KeyCache!Begin
  <2>2. CASE KeyCache!Cached(FALSE) /\ KeyCache!Verify(c, k, keys)
    <3>1. keys \in KeySets /\ (keys # None => \A x \in keys : since[x] < KeyCache!Enough)
      BY <2>2, CachedKeysAreRecent
    <3> QED BY <2>1, <2>2, <3>1, KeysVerify
  <2>3. CASE KeyCache!Wait(c, k, FALSE)
    BY <2>1, <2>3, KeysWait
  <2> QED BY <1>2, <2>2, <2>3 DEF KeyCache!Begin
<1>3. ASSUME NEW c \in KeyCallers, KeyCache!Resume(c) PROVE KeysInv'
  <2>1. /\ verifying[c].at = "woken" /\ UNCHANGED <<keys, age, published, since>>
        /\ \/ KeyCache!Answer(c, verifying[c].key, verifying[c].got)
           \/ KeyCache!Verify(c, verifying[c].key, verifying[c].got)
    BY <1>3 DEF KeyCache!Resume
  <2>2. /\ verifying[c].key \in Keys /\ verifying[c].got \in KeySets
        /\ verifying[c].got # None => \A k \in verifying[c].got : since[k] < KeyCache!Enough
    BY <1>t, <2>1 DEF VerifyingIsSound, Verifying
  <2> QED BY <2>1, <2>2, KeysAnswer, KeysVerify
<1>4. ASSUME NEW c \in KeyCallers, KeyCache!Done(c) PROVE KeysInv'
  <2>1. /\ verifying' = [verifying EXCEPT ![c] = KeyCache!Idle]
        /\ UNCHANGED <<keys, age, fetch, published, since, refetched>>
    BY <1>4 DEF KeyCache!Done
  <2>2. KeyCache!Idle \in Verifying /\ KeyCache!Idle.at = "idle"
    BY DEF KeyCache!Idle, Verifying, KeySets
  <2>3. /\ verifying' \in [KeyCallers -> Verifying]
        /\ \A d \in KeyCallers : verifying'[d] = IF d = c THEN KeyCache!Idle ELSE verifying[d]
    BY <1>t, <2>1, <2>2
  <2>4. KeysAreOld' /\ \A d \in KeyCallers : VerifyingIsSound(verifying[d])'
    BY <1>t, <2>1, <2>2, <2>3 DEF KeysAreOld, VerifyingIsSound
  <2> QED BY <2>3, <2>4, KeysInvPartsNext
<1>5. CASE KeyCache!Serve
  <2>1. /\ fetch # KeyCache!NoFetch /\ fetch' = [fetch EXCEPT !.served = published]
        /\ UNCHANGED <<keys, age, verifying, published, since, refetched>>
    BY <1>5 DEF KeyCache!Serve
  <2>2. /\ fetch.age \in 0..FetchTimeout /\ published \in KeySets /\ published # None
    BY <1>t, <2>1 DEF KeysAreOld, KeySets
  <2>3. /\ fetch'.age = fetch.age /\ fetch'.served = published
        /\ fetch' \in [age : {None} \cup 0..FetchTimeout, served : KeySets]
        /\ fetch' # KeyCache!NoFetch
    BY <1>t, <2>1, <2>2 DEF KeysAreOld, KeyCache!NoFetch
  <2>4. KeysAreOld'
    BY <1>t, <2>1, <2>2, <2>3 DEF KeysAreOld
  <2>5. \A d \in KeyCallers : VerifyingIsSound(verifying[d])'
    BY <1>t, <2>1, <2>3 DEF VerifyingIsSound
  <2> QED BY <1>t, <2>1, <2>4, <2>5, KeysInvPartsNext
<1>6. CASE KeyCache!Fetched
  <2>1. /\ fetch.served # None /\ keys' = fetch.served /\ age' = 0
        /\ verifying' = KeyCache!Wake(fetch.served) /\ fetch' = KeyCache!NoFetch
        /\ UNCHANGED <<published, since, refetched>>
    BY <1>6 DEF KeyCache!Fetched
  <2>2. /\ fetch # KeyCache!NoFetch /\ fetch.age \in 0..FetchTimeout
        /\ fetch.served \in KeySets /\ fetch.served \in SUBSET Keys
        /\ \A k \in fetch.served : since[k] <= fetch.age /\ since[k] \in Nat
    BY <1>t, <1>e, <2>1 DEF KeysAreOld, KeySets
  <2>3. \A k \in fetch.served : since[k] < KeyCache!Enough
    BY <2>2 DEF KeyCache!Enough
  <2>4. /\ verifying' \in [KeyCallers -> Verifying]
        /\ \A c \in KeyCallers : VerifyingIsSound(verifying[c])'
    BY <2>1, <2>2, <2>3, KeysWake
  <2>5. KeysAreOld'
    <3>1. \A k \in keys' : since'[k] <= age' + FetchTimeout
      BY <2>1, <2>2
    <3>2. /\ KeyCache!NoFetch \in [age : {None} \cup 0..FetchTimeout, served : KeySets]
          /\ KeyCache!NoFetch.served = None
      BY DEF KeyCache!NoFetch, KeySets
    <3> QED BY <1>t, <2>1, <2>2, <3>1, <3>2 DEF KeysAreOld, KeyCache!Enough, KeyCache!NoFetch
  <2> QED BY <2>4, <2>5, KeysInvPartsNext
<1>7. CASE KeyCache!Fail
  <2>1. /\ fetch # KeyCache!NoFetch /\ fetch' = KeyCache!NoFetch
        /\ verifying' = KeyCache!Wake(None)
        /\ UNCHANGED <<keys, age, published, since, refetched>>
    BY <1>7 DEF KeyCache!Fail
  <2>2. None \in KeySets
    BY DEF KeySets
  <2>3. /\ verifying' \in [KeyCallers -> Verifying]
        /\ \A c \in KeyCallers : VerifyingIsSound(verifying[c])'
    BY <2>1, <2>2, KeysWake
  <2>4. KeysAreOld'
    <3>1. /\ KeyCache!NoFetch \in [age : {None} \cup 0..FetchTimeout, served : KeySets]
          /\ KeyCache!NoFetch.served = None
      BY DEF KeyCache!NoFetch, KeySets
    <3> QED BY <1>t, <2>1, <3>1 DEF KeysAreOld, KeyCache!Enough, KeyCache!NoFetch
  <2> QED BY <2>3, <2>4, KeysInvPartsNext
<1>8. CASE KeyCache!Rotate
  <2>1. /\ published' \subseteq Keys /\ UNCHANGED <<keys, age, fetch, verifying, refetched>>
        /\ since' = [k \in Keys |-> IF k \in published \cup published' THEN 0 ELSE since[k]]
    BY <1>8 DEF KeyCache!Rotate
  <2>2. /\ \A k \in Keys : since'[k] \in {0, since[k]} /\ since[k] \in Nat
        /\ \A k \in published' : since'[k] = 0
        /\ since' \in [Keys -> 0..KeyCache!Enough]
    BY <1>t, <1>e, <2>1 DEF KeysAreOld
  <2>3. KeysAreOld'
    <3>1. fetch.served # None => \A k \in fetch.served : k \in Keys
      BY <1>t DEF KeysAreOld, KeySets
    <3>2. keys # None => \A k \in keys : k \in Keys
      BY <1>t DEF KeysAreOld, KeySets
    <3>3. fetch.served # None => \A k \in fetch.served : since'[k] <= fetch.age
      BY <1>t, <2>2, <3>1 DEF KeysAreOld
    <3>4. keys # None /\ age < Ttl => \A k \in keys : since'[k] <= age + FetchTimeout
      BY <1>t, <2>2, <3>2 DEF KeysAreOld
    <3> QED BY <1>t, <2>1, <2>2, <3>3, <3>4 DEF KeysAreOld
  <2>4. ASSUME NEW d \in KeyCallers PROVE VerifyingIsSound(verifying[d])'
    <3>1. verifying'[d] = verifying[d] /\ verifying[d].got \in KeySets
      BY <1>t, <2>1 DEF Verifying
    <3>2. /\ keys # None => \A k \in keys : k \in Keys
          /\ verifying[d].got # None => \A k \in verifying[d].got : k \in Keys
          /\ fetch # KeyCache!NoFetch => fetch.age \in Nat
      BY <1>t, <3>1 DEF KeysAreOld, KeySets
    <3>3. VerifyingIsSound(verifying[d])
      BY <1>t
    <3> QED BY <1>e, <2>1, <2>2, <3>1, <3>2, <3>3 DEF VerifyingIsSound
  <2> QED BY <1>t, <2>1, <2>3, <2>4, KeysInvPartsNext
<1>9. CASE KeyCache!Tick
  <2>1. /\ \A c \in KeyCallers : verifying[c].at \in {"idle", "waiting"}
        /\ fetch # KeyCache!NoFetch => fetch.age < FetchTimeout
        /\ fetch' = IF fetch = KeyCache!NoFetch THEN fetch ELSE [fetch EXCEPT !.age = @ + 1]
        /\ age' = KeyCache!Older(age, Ttl)
        /\ since' = [k \in Keys |-> IF k \in published THEN 0
                                    ELSE KeyCache!Older(since[k], KeyCache!Enough)]
        /\ refetched' = KeyCache!Older(refetched, MinInterval)
        /\ UNCHANGED <<keys, verifying, published>>
    BY <1>9 DEF KeyCache!Tick
  <2>2. /\ since' \in [Keys -> 0..KeyCache!Enough]
        /\ \A k \in Keys : since[k] \in Nat /\ since'[k] \in Nat /\ since'[k] <= since[k] + 1
        /\ \A k \in published : since'[k] = 0
    BY <1>t, <1>e, <2>1 DEF KeysAreOld, KeyCache!Older
  <2>3. /\ fetch = KeyCache!NoFetch => fetch' = KeyCache!NoFetch
        /\ fetch # KeyCache!NoFetch =>
             /\ fetch' # KeyCache!NoFetch /\ fetch.age \in Nat /\ fetch'.age = fetch.age + 1
             /\ fetch'.served = fetch.served
             /\ fetch'.age \in 0..FetchTimeout
        /\ fetch' \in [age : {None} \cup 0..FetchTimeout, served : KeySets]
    <3>1. CASE fetch = KeyCache!NoFetch
      BY <1>t, <2>1, <3>1 DEF KeysAreOld
    <3>2. CASE fetch # KeyCache!NoFetch
      <4>1. /\ fetch.age \in Nat /\ fetch.age + 1 \in 0..FetchTimeout
            /\ fetch \in [age : {None} \cup 0..FetchTimeout, served : KeySets]
        BY <1>t, <2>1, <3>2 DEF KeysAreOld
      <4>2. fetch' = [fetch EXCEPT !.age = fetch.age + 1]
        BY <2>1, <3>2
      <4>3. /\ fetch'.age = fetch.age + 1 /\ fetch'.served = fetch.served
            /\ fetch' \in [age : {None} \cup 0..FetchTimeout, served : KeySets]
        BY <4>1, <4>2
      <4> QED BY <3>2, <4>1, <4>3 DEF KeyCache!NoFetch
    <3> QED BY <3>1, <3>2
  <2>4. /\ age \in 0..Ttl /\ age' \in 0..Ttl /\ (age' < Ttl => age' = age + 1 /\ age < Ttl)
        /\ refetched' \in 0..MinInterval
    BY <1>t, <2>1 DEF KeysAreOld, KeyCache!Older
  <2>5. /\ fetch.served # None => \A k \in fetch.served : k \in Keys
        /\ keys # None => \A k \in keys : k \in Keys
    BY <1>t DEF KeysAreOld, KeySets
  <2>6. KeysAreOld'
    <3>1. fetch'.served # None => fetch' # KeyCache!NoFetch /\ \A k \in fetch'.served : since'[k] <= fetch'.age
      BY <1>t, <2>2, <2>3, <2>5 DEF KeysAreOld
    <3>2. keys # None /\ age' < Ttl => \A k \in keys : since'[k] <= age' + FetchTimeout
      BY <1>t, <2>2, <2>4, <2>5 DEF KeysAreOld
    <3> QED BY <1>t, <2>1, <2>2, <2>3, <2>4, <3>1, <3>2 DEF KeysAreOld
  <2>7. ASSUME NEW d \in KeyCallers PROVE VerifyingIsSound(verifying[d])'
    <3>1. verifying'[d] = verifying[d] /\ VerifyingIsSound(verifying[d])
      BY <1>t, <2>1
    <3> QED BY <2>1, <2>2, <2>3, <2>5, <3>1 DEF VerifyingIsSound
  <2> QED BY <1>t, <2>1, <2>6, <2>7, KeysInvPartsNext
<1> QED BY <1>1, <1>2, <1>3, <1>4, <1>5, <1>6, <1>7, <1>8, <1>9 DEF KeyCache!Next

(* For any lives, margins and timeouts, and any callers (cernere-service-  *)
(* token.ts, service-token-verifier.ts, presence-schema.ts): a token of    *)
(* the cache is handed out only while Cernere still accepts it, a key is   *)
(* accepted only while it is recent, and a reader's failure is its own.    *)
THEOREM CernereRemembered ==
  Token!Spec /\ KeyCache!Spec /\ Presence!Spec => []CernereIsRemembered
<1>1. TokenInv /\ KeysInv /\ PresenceInv => CernereIsRemembered
  BY DEF CernereIsRemembered, TokenInv, KeysInv, PresenceInv
<1> QED BY <1>1, TokenBegins, TokenStep, KeysBegin, KeysStep, PresenceBegins, PresenceStep, PTL
        DEF Token!Spec, KeyCache!Spec, Presence!Spec, tokenVars, keyVars, presenceVars,
            Token!vars, KeyCache!vars, Presence!vars

-----------------------------------------------------------------------------
(* The header.                                                             *)

SaveUnderWay == saving # Header!NoSave

HeaderInv ==
  /\ Header!TypeOK
  /\ SaveUnderWay =>
       /\ saving.of \in Settings /\ saving.value \in Values /\ awaiting = {}
       /\ shown[saving.of] = saving.value
       /\ saving.applied => saving.value \in recent[saving.of]
  /\ \A s \in Settings :
       /\ answer[s] # Unknown =>
            s \in awaiting /\ "permission" \notin awaiting /\ answer[s] \in recent[s]
       /\ saved[s] \in had[s]
       /\ ~disposed /\ (SaveUnderWay => s # saving.of) => shown[s] \in {saved[s], Unknown}

LEMMA HeaderBegins == Header!Init => HeaderInv
<1> SUFFICES ASSUME Header!Init PROVE HeaderInv
  OBVIOUS
<1>1. /\ saved \in [Settings -> Values] /\ server \in [Settings -> Values]
      /\ {shown, answer} \subseteq [Settings -> Values \cup {Unknown}]
      /\ {recent, had} \subseteq [Settings -> SUBSET Values]
      /\ \A s \in Settings : shown[s] = Unknown /\ answer[s] = Unknown /\ had[s] = Values
  BY DEF Header!Init
<1>2. Header!NoSave \in [of : Settings \cup {Unknown}, value : Values \cup {Unknown},
                        applied : BOOLEAN]
  BY DEF Header!NoSave
<1> QED BY <1>1, <1>2 DEF Header!Init, HeaderInv, Header!TypeOK, SaveUnderWay

(* What Cernere has changes, and what a request of the page is remembered  *)
(* to have found.                                                          *)
LEMMA HeaderBecomes ==
  ASSUME Header!TypeOK, NEW s \in Settings, NEW v \in Values, Header!Becomes(s, v)
  PROVE  /\ server' \in [Settings -> Values] /\ had' \in [Settings -> SUBSET Values]
         /\ had'[s] = had[s] \cup {v} /\ \A x \in Settings : x # s => had'[x] = had[x]
<1>1. server \in [Settings -> Values] /\ had \in [Settings -> SUBSET Values]
  BY DEF Header!TypeOK
<1>2. had[s] \cup {v} \in SUBSET Values
  BY <1>1
<1> QED BY <1>1, <1>2 DEF Header!Becomes

LEMMA HeaderElsewhere ==
  ASSUME HeaderInv, NEW s \in Settings, NEW v \in Values, Header!Elsewhere(s, v)
  PROVE  HeaderInv'
<1>1. /\ server' \in [Settings -> Values] /\ had' \in [Settings -> SUBSET Values]
      /\ \A x \in Settings : had[x] \subseteq had'[x]
  BY HeaderBecomes DEF HeaderInv, Header!Elsewhere
<1>2. /\ recent' \in [Settings -> SUBSET Values]
      /\ \A x \in Settings : recent[x] \subseteq recent'[x]
  <2>1. recent \in [Settings -> SUBSET Values] /\ recent[s] \cup {v} \in SUBSET Values
    BY DEF HeaderInv, Header!TypeOK
  <2>2. recent' = [recent EXCEPT ![s] = recent[s] \cup {v}]
    BY DEF Header!Elsewhere
  <2> QED BY <2>1, <2>2
<1>3. UNCHANGED <<saved, shown, awaiting, answer, saving, allowed, disposed>>
  BY DEF Header!Elsewhere
<1>4. Header!TypeOK'
  BY <1>1, <1>2, <1>3 DEF HeaderInv, Header!TypeOK
<1>5. SaveUnderWay' <=> SaveUnderWay
  BY <1>3 DEF SaveUnderWay
<1> QED BY <1>1, <1>2, <1>3, <1>4, <1>5 DEF HeaderInv

LEMMA HeaderServed ==
  ASSUME HeaderInv, NEW s \in Settings, Header!Served(s)
  PROVE  HeaderInv'
<1>1. /\ s \in awaiting /\ "permission" \notin awaiting
      /\ answer' = [answer EXCEPT ![s] = server[s]]
      /\ recent' = [recent EXCEPT ![s] = {server[s]}]
      /\ UNCHANGED <<server, saved, shown, awaiting, saving, allowed, disposed, had>>
  BY DEF Header!Served
<1>2. /\ server \in [Settings -> Values] /\ answer \in [Settings -> Values \cup {Unknown}]
      /\ recent \in [Settings -> SUBSET Values]
  BY DEF HeaderInv, Header!TypeOK
<1>3. /\ answer' \in [Settings -> Values \cup {Unknown}] /\ recent' \in [Settings -> SUBSET Values]
      /\ answer'[s] = server[s] /\ recent'[s] = {server[s]}
      /\ \A x \in Settings : x # s => answer'[x] = answer[x] /\ recent'[x] = recent[x]
  <2>1. {server[s]} \in SUBSET Values
    BY <1>2
  <2> QED BY <1>1, <1>2, <2>1
<1>4. Header!TypeOK'
  BY <1>1, <1>3 DEF HeaderInv, Header!TypeOK
<1>5. ~SaveUnderWay /\ ~SaveUnderWay'
  BY <1>1 DEF HeaderInv, SaveUnderWay
<1> QED BY <1>1, <1>3, <1>4, <1>5 DEF HeaderInv

LEMMA HeaderRead ==
  ASSUME HeaderInv, NEW s \in Settings, Header!Read(s) \/ Header!ReadFails(s)
  PROVE  HeaderInv'
<1>1. /\ s \in awaiting /\ awaiting' = awaiting \ {s} /\ "permission" \notin awaiting
      /\ answer' = [answer EXCEPT ![s] = Unknown]
      /\ UNCHANGED <<server, saving, allowed, disposed, recent>>
  BY DEF HeaderInv, Header!Read, Header!ReadFails
<1>2. /\ saved \in [Settings -> Values] /\ shown \in [Settings -> Values \cup {Unknown}]
      /\ answer \in [Settings -> Values \cup {Unknown}]
      /\ recent \in [Settings -> SUBSET Values] /\ had \in [Settings -> SUBSET Values]
  BY DEF HeaderInv, Header!TypeOK
<1>3. /\ answer' \in [Settings -> Values \cup {Unknown}] /\ answer'[s] = Unknown
      /\ \A x \in Settings : x # s => answer'[x] = answer[x]
  BY <1>1, <1>2
<1>4. ~SaveUnderWay /\ ~SaveUnderWay'
  BY <1>1 DEF HeaderInv, SaveUnderWay
<1>5. CASE Header!Read(s)
  <2>1. /\ answer[s] # Unknown /\ answer[s] \in recent[s]
        /\ saved' = [saved EXCEPT ![s] = answer[s]]
        /\ shown' = [shown EXCEPT ![s] = answer[s]]
        /\ had' = [had EXCEPT ![s] = recent[s]]
    BY <1>5 DEF HeaderInv, Header!Read
  <2>2. /\ saved' \in [Settings -> Values] /\ shown' \in [Settings -> Values \cup {Unknown}]
        /\ had' \in [Settings -> SUBSET Values]
        /\ saved'[s] = answer[s] /\ shown'[s] = answer[s] /\ had'[s] = recent[s]
        /\ \A x \in Settings : x # s =>
             saved'[x] = saved[x] /\ shown'[x] = shown[x] /\ had'[x] = had[x]
    BY <1>2, <2>1
  <2>3. Header!TypeOK'
    BY <1>1, <1>3, <2>2 DEF HeaderInv, Header!TypeOK
  <2> QED BY <1>1, <1>3, <1>4, <2>1, <2>2, <2>3 DEF HeaderInv
<1>6. CASE Header!ReadFails(s)
  <2>1. shown' = [shown EXCEPT ![s] = Unknown] /\ UNCHANGED <<saved, had>>
    BY <1>6 DEF Header!ReadFails
  <2>2. /\ shown' \in [Settings -> Values \cup {Unknown}] /\ shown'[s] = Unknown
        /\ \A x \in Settings : x # s => shown'[x] = shown[x]
    BY <1>2, <2>1
  <2>3. Header!TypeOK'
    BY <1>1, <1>3, <2>1, <2>2 DEF HeaderInv, Header!TypeOK
  <2> QED BY <1>1, <1>3, <1>4, <2>1, <2>2, <2>3 DEF HeaderInv
<1> QED BY <1>5, <1>6

LEMMA HeaderChoose ==
  ASSUME HeaderInv, NEW s \in Settings, NEW v \in Values, Header!Choose(s, v)
  PROVE  HeaderInv'
<1> USE SettingsAssumption DEF Header!HeaderStatusAssumption
<1>1. /\ awaiting = {} /\ saving = Header!NoSave
      /\ shown' = [shown EXCEPT ![s] = v]
      /\ saving' = [of |-> s, value |-> v, applied |-> FALSE]
      /\ UNCHANGED <<server, saved, awaiting, answer, allowed, disposed, recent, had>>
  BY DEF Header!Choose
<1>2. ~SaveUnderWay /\ saving'.of = s /\ saving'.value = v /\ ~saving'.applied
  BY <1>1 DEF SaveUnderWay
<1>3. shown \in [Settings -> Values \cup {Unknown}]
  BY DEF HeaderInv, Header!TypeOK
<1>4. /\ shown' \in [Settings -> Values \cup {Unknown}] /\ shown'[s] = v
      /\ \A x \in Settings : x # s => shown'[x] = shown[x]
  BY <1>1, <1>3
<1>5. Header!TypeOK'
  BY <1>1, <1>4 DEF HeaderInv, Header!TypeOK
<1>6. SaveUnderWay'
  BY <1>2 DEF SaveUnderWay, Header!NoSave
<1> QED BY <1>1, <1>2, <1>4, <1>5, <1>6 DEF HeaderInv

LEMMA HeaderApplied ==
  ASSUME HeaderInv, Header!Applied
  PROVE  HeaderInv'
<1>1. /\ SaveUnderWay /\ Header!Becomes(saving.of, saving.value)
      /\ recent' = [recent EXCEPT ![saving.of] = {saving.value}]
      /\ saving' = [saving EXCEPT !.applied = TRUE]
      /\ UNCHANGED <<saved, shown, awaiting, answer, allowed, disposed>>
  BY DEF Header!Applied, SaveUnderWay
<1>2. saving.of \in Settings /\ saving.value \in Values /\ awaiting = {}
  BY <1>1 DEF HeaderInv
<1>3. /\ saving'.of = saving.of /\ saving'.value = saving.value /\ saving'.applied
      /\ saving' \in [of : Settings \cup {Unknown}, value : Values \cup {Unknown},
                      applied : BOOLEAN]
  BY <1>1, <1>2 DEF HeaderInv, Header!TypeOK
<1>4. SaveUnderWay'
  BY <1>3 DEF SaveUnderWay, Header!NoSave
<1>5. /\ server' \in [Settings -> Values] /\ had' \in [Settings -> SUBSET Values]
      /\ \A x \in Settings : had[x] \subseteq had'[x]
  BY <1>1, <1>2, HeaderBecomes DEF HeaderInv
<1>6. /\ recent' \in [Settings -> SUBSET Values] /\ recent'[saving.of] = {saving.value}
  <2>1. recent \in [Settings -> SUBSET Values] /\ {saving.value} \in SUBSET Values
    BY <1>2 DEF HeaderInv, Header!TypeOK
  <2> QED BY <1>1, <1>2, <2>1
<1>7. Header!TypeOK'
  BY <1>1, <1>3, <1>5, <1>6 DEF HeaderInv, Header!TypeOK
<1>8. \A s \in Settings : answer[s] = Unknown
  BY <1>2 DEF HeaderInv
<1> QED BY <1>1, <1>2, <1>3, <1>4, <1>5, <1>6, <1>7, <1>8 DEF HeaderInv

LEMMA HeaderSaved ==
  ASSUME HeaderInv, Header!SaveAnswered \/ Header!SaveFails
  PROVE  HeaderInv'
<1>1. SaveUnderWay /\ saving' = Header!NoSave /\ ~SaveUnderWay'
  BY DEF Header!SaveAnswered, Header!SaveFails, SaveUnderWay, Header!NoSave
<1>2. saving.of \in Settings /\ saving.value \in Values /\ shown[saving.of] = saving.value
  BY <1>1 DEF HeaderInv
<1>3. Header!NoSave \in [of : Settings \cup {Unknown}, value : Values \cup {Unknown},
                        applied : BOOLEAN]
  BY DEF Header!NoSave
<1>4. /\ saved \in [Settings -> Values] /\ shown \in [Settings -> Values \cup {Unknown}]
      /\ recent \in [Settings -> SUBSET Values] /\ had \in [Settings -> SUBSET Values]
  BY DEF HeaderInv, Header!TypeOK
<1>5. UNCHANGED <<server, awaiting, answer, allowed, disposed, recent>>
  BY DEF Header!SaveAnswered, Header!SaveFails
<1>6. CASE Header!SaveAnswered
  <2>1. /\ saving.value \in recent[saving.of]
        /\ saved' = [saved EXCEPT ![saving.of] = saving.value]
        /\ had' = [had EXCEPT ![saving.of] = recent[saving.of]]
        /\ UNCHANGED shown
    BY <1>1, <1>6 DEF HeaderInv, Header!SaveAnswered
  <2>2. /\ saved' \in [Settings -> Values] /\ had' \in [Settings -> SUBSET Values]
        /\ saved'[saving.of] = saving.value /\ had'[saving.of] = recent[saving.of]
        /\ \A x \in Settings : x # saving.of => saved'[x] = saved[x] /\ had'[x] = had[x]
    BY <1>2, <1>4, <2>1
  <2>3. Header!TypeOK'
    BY <1>1, <1>3, <1>4, <1>5, <2>1, <2>2 DEF HeaderInv, Header!TypeOK
  <2> QED BY <1>1, <1>2, <1>5, <2>1, <2>2, <2>3 DEF HeaderInv
<1>7. CASE Header!SaveFails
  <2>1. shown' = [shown EXCEPT ![saving.of] = saved[saving.of]] /\ UNCHANGED <<saved, had>>
    BY <1>7 DEF Header!SaveFails
  <2>2. /\ shown' \in [Settings -> Values \cup {Unknown}]
        /\ shown'[saving.of] = saved[saving.of]
        /\ \A x \in Settings : x # saving.of => shown'[x] = shown[x]
    BY <1>2, <1>4, <2>1
  <2>3. Header!TypeOK'
    BY <1>1, <1>3, <1>5, <2>1, <2>2 DEF HeaderInv, Header!TypeOK
  <2> QED BY <1>1, <1>2, <1>5, <2>1, <2>2, <2>3 DEF HeaderInv
<1> QED BY <1>6, <1>7

LEMMA HeaderStep == HeaderInv /\ [Header!Next]_headerVars => HeaderInv'
<1> SUFFICES ASSUME HeaderInv, [Header!Next]_headerVars PROVE HeaderInv'
  OBVIOUS
<1>1. CASE UNCHANGED headerVars
  BY <1>1 DEF headerVars, HeaderInv, Header!TypeOK, SaveUnderWay
<1>2. CASE Header!Update \/ Header!Permitted
  <2>1. /\ UNCHANGED <<server, saved, shown, answer, saving, disposed, recent, had>>
        /\ awaiting' \in {{"permission"}, {}, Settings} /\ allowed' \in BOOLEAN
    BY <1>2 DEF Header!Update, Header!Permitted, HeaderInv, Header!TypeOK
  <2>2. ~SaveUnderWay /\ ~SaveUnderWay' /\ \A s \in Settings : answer[s] = Unknown
    BY <1>2, <2>1 DEF Header!Update, Header!Permitted, HeaderInv, SaveUnderWay
  <2>3. Header!TypeOK'
    BY <2>1 DEF HeaderInv, Header!TypeOK
  <2> QED BY <2>1, <2>2, <2>3 DEF HeaderInv
<1>3. CASE Header!Dispose
  <2>1. Header!NoSave \in [of : Settings \cup {Unknown}, value : Values \cup {Unknown},
                           applied : BOOLEAN]
    BY DEF Header!NoSave
  <2>2. /\ disposed' /\ awaiting' = {} /\ answer' = [s \in Settings |-> Unknown]
        /\ saving' = Header!NoSave /\ ~SaveUnderWay'
        /\ UNCHANGED <<server, saved, shown, allowed, recent, had>>
    BY <1>3 DEF Header!Dispose, SaveUnderWay
  <2>3. Header!TypeOK'
    BY <2>1, <2>2 DEF HeaderInv, Header!TypeOK
  <2> QED BY <2>2, <2>3 DEF HeaderInv
<1>4. ASSUME NEW s \in Settings, Header!Served(s) \/ Header!Read(s) \/ Header!ReadFails(s)
      PROVE  HeaderInv'
  BY <1>4, HeaderServed, HeaderRead
<1>5. ASSUME NEW s \in Settings, NEW v \in Values, Header!Choose(s, v) \/ Header!Elsewhere(s, v)
      PROVE  HeaderInv'
  BY <1>5, HeaderChoose, HeaderElsewhere
<1> QED BY <1>1, <1>2, <1>3, <1>4, <1>5, HeaderApplied, HeaderSaved DEF Header!Next

(* But for a choice that is being saved, the header shows nothing or what  *)
(* Cernere has had since it last did what the page knows of                *)
(* (public/src/header-status.ts), for any settings and values, whoever     *)
(* else writes them: no read overwrites a choice with something older, and *)
(* no choice that was not saved is left standing.                          *)
THEOREM HeaderCurrent == Header!Spec => []HeaderIsCurrent
<1>1. HeaderInv => HeaderIsCurrent
  BY DEF HeaderInv, Header!TypeOK, SaveUnderWay, HeaderIsCurrent, Header!HeaderIsCurrent
<1> QED BY <1>1, HeaderBegins, HeaderStep, PTL DEF Header!Spec, headerVars, Header!vars

-----------------------------------------------------------------------------
(* The page's side of an interview call.                                   *)

VoiceInv ==
  /\ live \in Voice!Calls \cup {0} /\ current \in {live, 0}
  /\ stage \in [Voice!Calls -> {"none", "permission", "worklet", "file", "post", "events",
                                "reading", "over"}]
  /\ mic \in [Voice!Calls -> BOOLEAN] /\ known \subseteq Voice!Calls
  /\ deletion \in [Voice!Calls -> {"none", "sent", "answered"}]
  /\ queue \in Seq({"audio", "control"})
  /\ seq \in Nat /\ heard \in [Voice!Calls -> Int]
  /\ live # 0 => stage[live] \notin {"none", "over"}
  /\ live # 0 /\ stage[live] \in {"events", "reading"} => current = live
  /\ current # 0 => current \in known /\ heard[current] = seq
  /\ current = 0 => queue = <<>>
  /\ \A c \in known : stage[c] \in {"events", "reading", "over"}
  /\ \A c \in Voice!Calls : c \notin known => heard[c] = 0
  /\ Voice!CallsAreTheirOwn

LEMMA VoiceBegins == Voice!Init => VoiceInv
BY VoiceAssumption DEF Voice!Init, VoiceInv, Voice!CallsAreTheirOwn, Voice!Nobody, Voice!Calls,
   Voice!TrBrowserAssumption

(* stop ends whatever runs and hands a known call back.                    *)
LEMMA VoiceStops ==
  ASSUME VoiceInv, Voice!StopRunning,
         stage' \in [Voice!Calls -> {"none", "permission", "worklet", "file", "post", "events",
                                     "reading", "over"}],
         \A c \in Voice!Calls : stage'[c] \in {stage[c], "over"}
  PROVE  VoiceInv'
<1> USE DEF Voice!Nobody
<1>1. /\ live' = 0 /\ current' = 0 /\ queue' = <<>> /\ UNCHANGED <<known, seq, heard>>
      /\ mic' = [mic EXCEPT ![live] = FALSE]
      /\ deletion' = IF current = 0 THEN deletion ELSE [deletion EXCEPT ![current] = "sent"]
  BY DEF Voice!StopRunning
<1>2. /\ mic' \in [Voice!Calls -> BOOLEAN] /\ \A c \in Voice!Calls : ~mic'[c]
      /\ deletion' \in [Voice!Calls -> {"none", "sent", "answered"}]
      /\ \A c \in known : deletion'[c] # "none"
  <2>1. 0 \notin Voice!Calls
    BY DEF Voice!Calls
  <2> QED BY <1>1, <2>1 DEF VoiceInv, Voice!CallsAreTheirOwn
<1>3. queue' \in Seq({"audio", "control"})
  BY <1>1
<1> QED BY <1>1, <1>2, <1>3 DEF VoiceInv, Voice!CallsAreTheirOwn

(* A frame leaves: it belongs to the call that runs, whose next number it  *)
(* has.                                                                    *)
LEMMA VoiceSends ==
  ASSUME VoiceInv, NEW q \in Seq({"audio", "control"}), NEW busy \in BOOLEAN,
         current = 0 => q = <<>>, Voice!Send(q, busy)
  PROVE  /\ queue' \in Seq({"audio", "control"}) /\ seq' \in Nat
         /\ heard' \in [Voice!Calls -> Int]
         /\ current = 0 => queue' = <<>>
         /\ current # 0 => heard'[current] = seq'
         /\ \A c \in Voice!Calls : /\ c # current => heard'[c] = heard[c]
                                   /\ heard'[c] # -1
<1> USE DEF Voice!Nobody
<1>t. /\ heard \in [Voice!Calls -> Int] /\ seq \in Nat /\ current \in Voice!Calls \cup {0}
      /\ current # 0 => heard[current] = seq
      /\ \A c \in Voice!Calls : heard[c] # -1
  BY DEF VoiceInv, Voice!CallsAreTheirOwn
<1>1. CASE queue' = q /\ UNCHANGED <<heard, seq>>
  BY <1>t, <1>1
<1>2. CASE /\ current # 0 /\ q # <<>> /\ queue' = Tail(q)
           /\ heard' = Voice!InOrder(current, Head(q), seq)
           /\ seq' = Voice!Number(Head(q), seq)
  <2>1. Tail(q) \in Seq({"audio", "control"})
    BY <1>2
  <2>2. CASE Head(q) = "audio"
    BY <1>t, <1>2, <2>1, <2>2 DEF Voice!InOrder, Voice!Number
  <2>3. CASE Head(q) # "audio"
    BY <1>t, <1>2, <2>1, <2>3 DEF Voice!InOrder, Voice!Number
  <2> QED BY <2>2, <2>3
<1> QED BY <1>1, <1>2 DEF Voice!Send

(* Only the queue and its numbers change, or the call is stopped.          *)
LEMMA VoiceQueues ==
  ASSUME VoiceInv, UNCHANGED <<live, mic, known, current>>,
         deletion' \in [Voice!Calls -> {"none", "sent", "answered"}],
         \A c \in Voice!Calls : deletion[c] # "none" => deletion'[c] # "none",
         queue' \in Seq({"audio", "control"}), seq' \in Nat,
         heard' \in [Voice!Calls -> Int],
         current = 0 => queue' = <<>>,
         current # 0 => heard'[current] = seq',
         \A c \in Voice!Calls : /\ c # current => heard'[c] = heard[c]
                                /\ heard'[c] # -1,
         stage' \in [Voice!Calls -> {"none", "permission", "worklet", "file", "post", "events",
                                     "reading", "over"}],
         \A c \in Voice!Calls :
           stage'[c] = stage[c] \/ (stage[c] = "events" /\ stage'[c] = "reading")
  PROVE  VoiceInv'
<1>1. ASSUME NEW c \in Voice!Calls, c \notin known'
      PROVE  heard'[c] = 0
  <2>1. heard[c] = 0 /\ c \notin known
    BY <1>1 DEF VoiceInv
  <2>2. c # current
    BY <2>1 DEF VoiceInv, Voice!Nobody, Voice!Calls, Voice!TypeOK
  <2> QED BY <2>1, <2>2
<1>2. /\ \A c \in known' : stage'[c] \in {"events", "reading", "over"}
      /\ live # 0 => stage'[live] \notin {"none", "over"}
      /\ live # 0 /\ stage'[live] \in {"events", "reading"} => current = live
  BY DEF VoiceInv
<1> QED BY <1>1, <1>2 DEF VoiceInv, Voice!CallsAreTheirOwn, Voice!Nobody

LEMMA VoiceEnqueues ==
  ASSUME VoiceInv, NEW kind \in {"audio", "control"}, Voice!Enqueue(kind), current # 0,
         stage' \in [Voice!Calls -> {"none", "permission", "worklet", "file", "post", "events",
                                     "reading", "over"}],
         \A c \in Voice!Calls :
           stage'[c] = stage[c] \/ (stage[c] = "events" /\ stage'[c] = "reading")
  PROVE  VoiceInv'
<1>t. /\ queue \in Seq({"audio", "control"}) /\ seq \in Nat /\ heard \in [Voice!Calls -> Int]
      /\ deletion \in [Voice!Calls -> {"none", "sent", "answered"}]
      /\ heard[current] = seq /\ \A c \in Voice!Calls : heard[c] # -1
  BY DEF VoiceInv, Voice!CallsAreTheirOwn
<1>1. CASE UNCHANGED <<live, mic, known, current, deletion, queue, timer, upload, seq, heard>>
  BY <1>1, <1>t, VoiceQueues
<1>2. CASE Voice!StopRunning
  <2>1. live' = 0 /\ known' = known /\ current' = 0
    BY <1>2 DEF Voice!StopRunning, Voice!Nobody
  <2>2. VoiceInv'
    <3>1. /\ queue' = <<>> /\ UNCHANGED <<seq, heard>>
          /\ mic' = [mic EXCEPT ![live] = FALSE]
          /\ deletion' = [deletion EXCEPT ![current] = "sent"]
      BY <1>2 DEF Voice!StopRunning, Voice!Nobody
    <3>2. /\ mic' \in [Voice!Calls -> BOOLEAN] /\ \A c \in Voice!Calls : ~mic'[c]
          /\ deletion' \in [Voice!Calls -> {"none", "sent", "answered"}]
          /\ \A c \in known : deletion'[c] # "none"
      BY <3>1 DEF VoiceInv, Voice!CallsAreTheirOwn, Voice!Nobody
    <3>3. queue' \in Seq({"audio", "control"})
      BY <3>1
    <3>4. \A c \in known' : stage'[c] \in {"events", "reading", "over"}
      BY <2>1 DEF VoiceInv
    <3> QED BY <2>1, <3>1, <3>2, <3>3, <3>4 DEF VoiceInv, Voice!CallsAreTheirOwn, Voice!Nobody
  <2> QED BY <2>2
<1>3. CASE /\ queue' = Append(queue, kind) /\ UNCHANGED <<upload, heard, seq>>
           /\ UNCHANGED <<live, mic, known, current, deletion>>
  <2>1. queue' \in Seq({"audio", "control"})
    BY <1>3, <1>t
  <2> QED BY <1>3, <1>t, <2>1, VoiceQueues
<1>4. CASE Voice!Send(Append(queue, kind), Voice!Busy) /\ UNCHANGED <<live, mic, known, current, deletion>>
  <2>1. Append(queue, kind) \in Seq({"audio", "control"}) /\ Voice!Busy \in BOOLEAN
    BY <1>t DEF Voice!Busy
  <2>2. /\ queue' \in Seq({"audio", "control"}) /\ seq' \in Nat
        /\ heard' \in [Voice!Calls -> Int]
        /\ heard'[current] = seq'
        /\ \A c \in Voice!Calls : /\ c # current => heard'[c] = heard[c]
                                  /\ heard'[c] # -1
    BY <1>4, <2>1, VoiceSends
  <2> QED BY <1>4, <1>t, <2>2, VoiceQueues
<1> QED BY <1>1, <1>2, <1>3, <1>4 DEF Voice!Enqueue

(* A closure goes on to its next await, or is over.                        *)
LEMMA VoiceStep == VoiceInv /\ [Voice!Next]_voiceVars => VoiceInv'
<1> DEFINE Stages == {"none", "permission", "worklet", "file", "post", "events", "reading", "over"}
<1> SUFFICES ASSUME VoiceInv, [Voice!Next]_voiceVars PROVE VoiceInv'
  OBVIOUS
<1> USE DEF Voice!Nobody
<1>t. /\ live \in Voice!Calls \cup {0} /\ current \in {live, 0}
      /\ stage \in [Voice!Calls -> Stages]
      /\ mic \in [Voice!Calls -> BOOLEAN] /\ known \subseteq Voice!Calls
      /\ deletion \in [Voice!Calls -> {"none", "sent", "answered"}]
      /\ queue \in Seq({"audio", "control"}) /\ seq \in Nat /\ heard \in [Voice!Calls -> Int]
      /\ current = 0 => queue = <<>>
      /\ current # 0 => current \in known /\ heard[current] = seq
      /\ \A c \in Voice!Calls : heard[c] # -1
  BY DEF VoiceInv, Voice!CallsAreTheirOwn
<1>0. 0 \notin Voice!Calls
  BY DEF Voice!Calls
<1>1. CASE UNCHANGED voiceVars
  BY <1>1 DEF voiceVars, VoiceInv, Voice!CallsAreTheirOwn
<1>2. CASE Voice!Stop
  BY <1>2, <1>t, VoiceStops DEF Voice!Stop
<1>3. ASSUME NEW c \in Voice!Calls, Voice!Start(c) PROVE VoiceInv'
  <2>1. /\ live = 0 /\ stage[c] = "none" /\ live' = c /\ seq' = 0
        /\ stage' = [stage EXCEPT ![c] = "permission"]
        /\ UNCHANGED <<mic, known, current, deletion, queue, heard>>
    BY <1>3 DEF Voice!Start
  <2>2. /\ stage' \in [Voice!Calls -> Stages] /\ stage'[c] = "permission"
        /\ \A d \in Voice!Calls : d # c => stage'[d] = stage[d]
        /\ c \notin known /\ current = 0
    BY <1>t, <2>1 DEF VoiceInv
  <2> QED BY <1>0, <1>t, <2>1, <2>2 DEF VoiceInv, Voice!CallsAreTheirOwn
<1>4. ASSUME NEW c \in Voice!Calls, Voice!Granted(c) \/ Voice!Prepared(c) PROVE VoiceInv'
  <2>1. /\ stage[c] \in {"permission", "worklet", "file"}
        /\ \E to \in {"worklet", "file", "post"} :
             stage' = [stage EXCEPT ![c] = IF live = c THEN to ELSE "over"]
        /\ mic' \in {mic, [mic EXCEPT ![c] = (live = c)]}
        /\ UNCHANGED <<live, known, current, deletion, queue, seq, heard>>
    BY <1>4 DEF Voice!Granted, Voice!Prepared, Voice!Step
  <2> PICK to \in {"worklet", "file", "post"} :
        stage' = [stage EXCEPT ![c] = IF live = c THEN to ELSE "over"]
    BY <2>1
  <2>2. /\ stage' \in [Voice!Calls -> Stages]
        /\ \A d \in Voice!Calls : d # c => stage'[d] = stage[d]
        /\ stage'[c] = IF live = c THEN to ELSE "over"
        /\ c \notin known
    BY <1>t, <2>1 DEF VoiceInv
  <2>3. /\ mic' \in [Voice!Calls -> BOOLEAN]
        /\ \A d \in Voice!Calls : mic'[d] => live = d
    BY <1>t, <2>1 DEF VoiceInv, Voice!CallsAreTheirOwn
  <2> QED BY <1>0, <1>t, <2>1, <2>2, <2>3 DEF VoiceInv, Voice!CallsAreTheirOwn
<1>5. ASSUME NEW c \in Voice!Calls, Voice!Fails(c) PROVE VoiceInv'
  <2>1. /\ stage[c] # "none" /\ stage' = [stage EXCEPT ![c] = "over"]
        /\ stage' \in [Voice!Calls -> Stages]
        /\ \A d \in Voice!Calls : stage'[d] = IF d = c THEN "over" ELSE stage[d]
    BY <1>5, <1>t DEF Voice!Fails
  <2>2. CASE live = c
    <3>1. Voice!StopRunning
      BY <1>5, <2>2 DEF Voice!Fails
    <3> QED BY <2>1, <3>1, VoiceStops
  <2>3. CASE live # c
    <3>1. UNCHANGED <<live, mic, known, current, deletion, queue, seq, heard>>
      BY <1>5, <2>3 DEF Voice!Fails
    <3> QED BY <1>0, <1>t, <2>1, <2>3, <3>1 DEF VoiceInv, Voice!CallsAreTheirOwn
  <2> QED BY <2>2, <2>3
<1>6. ASSUME NEW c \in Voice!Calls, Voice!Given(c) PROVE VoiceInv'
  <2>1. /\ stage[c] = "post" /\ stage' = [stage EXCEPT ![c] = IF live = c THEN "events" ELSE "over"]
        /\ known' = known \cup {c} /\ UNCHANGED <<live, mic, queue, heard>>
    BY <1>6 DEF Voice!Given, Voice!Step
  <2>2. /\ stage' \in [Voice!Calls -> Stages]
        /\ \A d \in Voice!Calls : d # c => stage'[d] = stage[d]
        /\ stage'[c] = IF live = c THEN "events" ELSE "over"
        /\ c \notin known /\ heard[c] = 0 /\ current # c
    BY <1>0, <1>t, <2>1 DEF VoiceInv
  <2>3. CASE live = c
    <3>1. current' = c /\ seq' = 0 /\ UNCHANGED deletion /\ current = 0
      BY <1>6, <1>t, <2>2, <2>3 DEF Voice!Given
    <3> QED BY <1>0, <1>t, <2>1, <2>2, <2>3, <3>1 DEF VoiceInv, Voice!CallsAreTheirOwn
  <2>4. CASE live # c
    <3>1. deletion' = [deletion EXCEPT ![c] = "sent"] /\ UNCHANGED <<current, seq>>
      BY <1>6, <2>4 DEF Voice!Given
    <3>2. /\ deletion' \in [Voice!Calls -> {"none", "sent", "answered"}] /\ deletion'[c] = "sent"
          /\ \A d \in Voice!Calls : d # c => deletion'[d] = deletion[d]
      BY <1>t, <3>1
    <3> QED BY <1>0, <1>t, <2>1, <2>2, <2>4, <3>1, <3>2 DEF VoiceInv, Voice!CallsAreTheirOwn
  <2> QED BY <2>3, <2>4
<1>7. ASSUME NEW c \in Voice!Calls, Voice!Opened(c) PROVE VoiceInv'
  <2>1. /\ live = c /\ stage[c] = "events" /\ stage' = [stage EXCEPT ![c] = "reading"]
        /\ Voice!Enqueue("control")
    BY <1>7 DEF Voice!Opened, Voice!Step
  <2>2. /\ stage' \in [Voice!Calls -> Stages] /\ current # 0
        /\ \A d \in Voice!Calls :
             stage'[d] = stage[d] \/ (stage[d] = "events" /\ stage'[d] = "reading")
    BY <1>0, <1>t, <2>1 DEF VoiceInv
  <2> QED BY <2>1, <2>2, VoiceEnqueues
<1>8. CASE Voice!Pcm
  <2>1. current # 0 /\ Voice!Enqueue("audio") /\ UNCHANGED stage
    BY <1>8 DEF Voice!Pcm
  <2> QED BY <1>t, <2>1, VoiceEnqueues
<1>9. CASE Voice!BargeIn
  <2>1. current # 0 /\ Voice!Enqueue("control") /\ UNCHANGED stage
    BY <1>9 DEF Voice!BargeIn
  <2> QED BY <1>t, <2>1, VoiceEnqueues
<1>10. ASSUME NEW busy \in BOOLEAN, Voice!Send(queue, busy),
              UNCHANGED <<live, stage, mic, known, current>>,
              deletion' \in [Voice!Calls -> {"none", "sent", "answered"}],
              \A c \in Voice!Calls : deletion[c] # "none" => deletion'[c] # "none"
       PROVE  VoiceInv'
  <2>1. /\ queue' \in Seq({"audio", "control"}) /\ seq' \in Nat
        /\ heard' \in [Voice!Calls -> Int]
        /\ current = 0 => queue' = <<>>
        /\ current # 0 => heard'[current] = seq'
        /\ \A c \in Voice!Calls : /\ c # current => heard'[c] = heard[c]
                                  /\ heard'[c] # -1
    BY <1>10, <1>t, VoiceSends
  <2> QED BY <1>10, <1>t, <2>1, VoiceQueues
<1>11. CASE Voice!TimerFires
  BY <1>10, <1>11, <1>t DEF Voice!TimerFires, Voice!Busy
<1>12. CASE Voice!Uploaded
  BY <1>10, <1>12, <1>t DEF Voice!Uploaded
<1>13. CASE Voice!UploadFails
  <2>1. CASE Voice!StopRunning /\ UNCHANGED stage
    BY <1>t, <2>1, VoiceStops
  <2>2. CASE Voice!Send(queue, FALSE) /\ UNCHANGED <<live, stage, mic, known, current, deletion>>
    BY <1>10, <1>t, <2>2
  <2> QED BY <1>13, <2>1, <2>2 DEF Voice!UploadFails
<1>14. ASSUME NEW c \in Voice!Calls, Voice!Deleted(c) PROVE VoiceInv'
  <2>1. /\ deletion' \in [Voice!Calls -> {"none", "sent", "answered"}]
        /\ \A d \in Voice!Calls : deletion[d] # "none" => deletion'[d] # "none"
        /\ UNCHANGED <<live, stage, mic, known, current>>
    BY <1>14, <1>t DEF Voice!Deleted
  <2>2. CASE Voice!Send(queue, FALSE)
    BY <1>10, <2>1, <2>2
  <2>3. CASE UNCHANGED <<queue, heard, seq>>
    BY <1>t, <2>1, <2>3, VoiceQueues
  <2> QED BY <1>14, <2>2, <2>3 DEF Voice!Deleted
<1> QED BY <1>1, <1>2, <1>3, <1>4, <1>5, <1>6, <1>7, <1>8, <1>9, <1>11, <1>12, <1>13, <1>14
        DEF Voice!Next

(* Whatever was pressed while something was awaited, for any numbers of    *)
(* presses and frames (tirocinium/call-ui.ts, call-audio.ts): a call the   *)
(* page knows runs or has been handed back, the microphone is on for the   *)
(* running call only, and each call gets its own audio without a gap.      *)
THEOREM CallsTheirOwn == Voice!Spec => []CallsAreTheirOwn
<1>1. VoiceInv => CallsAreTheirOwn
  BY DEF VoiceInv, CallsAreTheirOwn
<1> QED BY <1>1, VoiceBegins, VoiceStep, PTL DEF Voice!Spec, voiceVars, Voice!vars
-----------------------------------------------------------------------------
(* All of them: a step of the sum is a step of one part, or of none.       *)
LEMMA ScreenIsPart == PartsSpec => Init /\ [][Next]_vars
<1>1. PartsInit => Init
  BY DEF PartsInit
<1>2. [PartsNext]_partVars => [Next]_vars
  BY DEF PartsNext, partVars, screenVars
<1> QED BY <1>1, <1>2, PTL DEF PartsSpec

LEMMA DeskIsPart == PartsSpec => Desk!Spec
<1>1. PartsInit => Desk!Init
  BY DEF PartsInit
<1>2. [PartsNext]_partVars => [Desk!Next]_(Desk!vars)
  BY DEF PartsNext, partVars, deskVars, Desk!vars
<1> QED BY <1>1, <1>2, PTL DEF PartsSpec, Desk!Spec

LEMMA AttendanceIsPart == PartsSpec => Attendance!Spec
<1>1. PartsInit => Attendance!Init
  BY DEF PartsInit
<1>2. [PartsNext]_partVars => [Attendance!Next]_(Attendance!vars)
  BY DEF PartsNext, partVars, attendanceVars, Attendance!vars
<1> QED BY <1>1, <1>2, PTL DEF PartsSpec, Attendance!Spec

LEMMA CocoiruIsPart == PartsSpec => Cocoiru!Spec
<1>1. PartsInit => Cocoiru!Init
  BY DEF PartsInit
<1>2. [PartsNext]_partVars => [Cocoiru!Next]_(Cocoiru!vars)
  BY DEF PartsNext, partVars, cocoiruVars, Cocoiru!vars
<1> QED BY <1>1, <1>2, PTL DEF PartsSpec, Cocoiru!Spec

LEMMA PresenceIsPart == PartsSpec => Presence!Spec
<1>1. PartsInit => Presence!Init
  BY DEF PartsInit
<1>2. [PartsNext]_partVars => [Presence!Next]_(Presence!vars)
  BY DEF PartsNext, partVars, presenceVars, Presence!vars
<1> QED BY <1>1, <1>2, PTL DEF PartsSpec, Presence!Spec

LEMMA TokenIsPart == PartsSpec => Token!Spec
<1>1. PartsInit => Token!Init
  BY DEF PartsInit
<1>2. [PartsNext]_partVars => [Token!Next]_(Token!vars)
  BY DEF PartsNext, partVars, tokenVars, Token!vars
<1> QED BY <1>1, <1>2, PTL DEF PartsSpec, Token!Spec

LEMMA KeyCacheIsPart == PartsSpec => KeyCache!Spec
<1>1. PartsInit => KeyCache!Init
  BY DEF PartsInit
<1>2. [PartsNext]_partVars => [KeyCache!Next]_(KeyCache!vars)
  BY DEF PartsNext, partVars, keyVars, KeyCache!vars
<1> QED BY <1>1, <1>2, PTL DEF PartsSpec, KeyCache!Spec

LEMMA HeaderIsPart == PartsSpec => Header!Spec
<1>1. PartsInit => Header!Init
  BY DEF PartsInit
<1>2. [PartsNext]_partVars => [Header!Next]_(Header!vars)
  BY DEF PartsNext, partVars, headerVars, Header!vars
<1> QED BY <1>1, <1>2, PTL DEF PartsSpec, Header!Spec

LEMMA VoiceIsPart == PartsSpec => Voice!Spec
<1>1. PartsInit => Voice!Init
  BY DEF PartsInit
<1>2. [PartsNext]_partVars => [Voice!Next]_(Voice!vars)
  BY DEF PartsNext, partVars, voiceVars, Voice!vars
<1> QED BY <1>1, <1>2, PTL DEF PartsSpec, Voice!Spec

(* Whatever part is explored, what the run checks of it holds: attempts to *)
(* present, events and Aedilis, arrivals, calls, what is remembered of     *)
(* Cernere, the header and the voice.                                      *)
THEOREM PartsHold ==
  PartsSpec => /\ [](/\ SilentOnceClosed /\ EventsMatchAedilis /\ ArrivalsAreBacked
                     /\ CallsAreShownAndSpaced /\ CernereIsRemembered /\ HeaderIsCurrent
                     /\ CallsAreTheirOwn)
               /\ FailedResumeSparesRunning
BY Silent, FailedResume, EventsMatch, ArrivalsBacked, CallsShownAndSpaced, CernereRemembered,
   HeaderCurrent, CallsTheirOwn, ScreenIsPart, DeskIsPart, AttendanceIsPart, CocoiruIsPart,
   PresenceIsPart, TokenIsPart, KeyCacheIsPart, HeaderIsPart, VoiceIsPart, PTL
=============================================================================
