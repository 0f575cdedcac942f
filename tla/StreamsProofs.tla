---------------------------- MODULE StreamsProofs ----------------------------
(***************************************************************************)
(* Safety of the life cycles of MCStreams that have no proof module of     *)
(* their own: the shared Cernere client, for any number of callers and of  *)
(* sockets; the voice calls, for any users, starts and capacity; the shell *)
(* of the page, for any tabs, teams and clicks.                            *)
(*                                                                         *)
(* Inv (CernereClient) is inductive: one lemma per action, the conjuncts   *)
(* an action leaves alone together in its last step.  So is CallsInv, that *)
(* counts the places of a room: one lemma per action shows that it takes   *)
(* none, one that a start takes one of those its tests found free.         *)
(***************************************************************************)
EXTENDS MCStreams, FiniteSetTheorems, TLAPS

-----------------------------------------------------------------------------
(* The shared Cernere client.                                              *)


(* A request that is sent at once goes out on a socket whose handshake is  *)
(* over.                                                                   *)
LEMMA RequestInv == ASSUME Inv, NEW c \in Calls, Request(c) PROVE Inv'
<1> USE DEF Inv, TypeOK, Request, MaySend, Send, Fail, SocketReady
<1>1. TypeOK' BY DEF Settled
<1>2. PendingIsAuthenticated'
  BY DEF PendingIsAuthenticated, HandshakeIsCurrent, HandshakeMatchesSocket,
         Pending
<1>3. JoinersHaveAConnect' BY DEF JoinersHaveAConnect, Joining
<1>4. ClosedHoldsNothing' BY DEF ClosedHoldsNothing, Pending
<1>5. HandshakeIsCurrent' BY DEF HandshakeIsCurrent
<1>6. LoginHasNoSocket'
  BY DEF HandshakeIsCurrent, HandshakeMatchesSocket, LoginHasNoSocket, Live
<1>7. LiveSocketIsCurrent' /\ HandshakeMatchesSocket'
  BY DEF LiveSocketIsCurrent, HandshakeMatchesSocket
<1> QED BY <1>1, <1>2, <1>3, <1>4, <1>5, <1>6, <1>7

(* Taking an answer away disturbs nothing.                                 *)
LEMMA ReturnInv == ASSUME Inv, NEW c \in Calls, Return(c) PROVE Inv'
<1> USE DEF Inv, TypeOK, Return
<1>1. TypeOK' OBVIOUS
<1>2. PendingIsAuthenticated' BY DEF PendingIsAuthenticated, Pending
<1>3. JoinersHaveAConnect' BY DEF JoinersHaveAConnect, Joining
<1>4. ClosedHoldsNothing' BY DEF ClosedHoldsNothing, Pending
<1>5. LiveSocketIsCurrent' /\ HandshakeIsCurrent' /\
      HandshakeMatchesSocket' /\ LoginHasNoSocket'
  BY DEF LiveSocketIsCurrent, HandshakeIsCurrent, HandshakeMatchesSocket,
         LoginHasNoSocket
<1> QED BY <1>1, <1>2, <1>3, <1>4, <1>5

(* A request timer only ends its own request.                              *)
LEMMA RequestTimeoutInv ==
  ASSUME Inv, NEW c \in Calls, RequestTimeout(c) PROVE Inv'
<1> USE DEF Inv, TypeOK, RequestTimeout, Fail
<1>1. TypeOK' BY DEF Settled
<1>2. PendingIsAuthenticated' BY DEF PendingIsAuthenticated, Pending
<1>3. JoinersHaveAConnect' BY DEF JoinersHaveAConnect, Joining
<1>4. ClosedHoldsNothing' BY DEF ClosedHoldsNothing, Pending
<1>5. LiveSocketIsCurrent' /\ HandshakeIsCurrent' /\
      HandshakeMatchesSocket' /\ LoginHasNoSocket'
  BY DEF LiveSocketIsCurrent, HandshakeIsCurrent, HandshakeMatchesSocket,
         LoginHasNoSocket
<1> QED BY <1>1, <1>2, <1>3, <1>4, <1>5

(* A reply only ends its own request.                                      *)
LEMMA ReplyInv ==
  ASSUME Inv, NEW c \in Calls, NEW type \in ReplyTypes, Reply(c, type)
  PROVE  Inv'
<1> USE DEF Inv, TypeOK, Reply
<1>1. TypeOK' BY DEF Settled
<1>2. PendingIsAuthenticated' BY DEF PendingIsAuthenticated, Pending
<1>3. JoinersHaveAConnect' BY DEF JoinersHaveAConnect, Joining
<1>4. ClosedHoldsNothing' BY DEF ClosedHoldsNothing
<1>5. LiveSocketIsCurrent' /\ HandshakeIsCurrent' /\
      HandshakeMatchesSocket' /\ LoginHasNoSocket'
  BY DEF LiveSocketIsCurrent, HandshakeIsCurrent, HandshakeMatchesSocket,
         LoginHasNoSocket
<1> QED BY <1>1, <1>2, <1>3, <1>4, <1>5

(* A failed login resumes every caller that waits for it.                  *)
LEMMA LoginFailInv == ASSUME Inv, LoginFail PROVE Inv'
<1> USE DEF Inv, TypeOK, LoginFail, Fail
<1>1. TypeOK' BY DEF Settled
<1>2. PendingIsAuthenticated' BY DEF PendingIsAuthenticated, Pending
<1>3. JoinersHaveAConnect' BY DEF JoinersHaveAConnect, Joining
<1>4. ClosedHoldsNothing' BY DEF ClosedHoldsNothing, Pending
<1>5. HandshakeIsCurrent' BY DEF HandshakeIsCurrent
<1>6. LoginHasNoSocket' BY DEF LoginHasNoSocket
<1>7. LiveSocketIsCurrent' /\ HandshakeMatchesSocket'
  BY DEF LiveSocketIsCurrent, HandshakeMatchesSocket
<1> QED BY <1>1, <1>2, <1>3, <1>4, <1>5, <1>6, <1>7

(* A login succeeds when no live socket would be forgotten                 *)
(* (LoginHasNoSocket).                                                     *)
LEMMA LoginOkInv == ASSUME Inv, NEW s \in Sockets, LoginOk(s) PROVE Inv'
<1> USE DEF Inv, TypeOK, LoginOk
<1>1. TypeOK' OBVIOUS
<1>2. LiveSocketIsCurrent'
  BY NoneAssumption DEF LiveSocketIsCurrent, LoginHasNoSocket
<1>3. PendingIsAuthenticated'
  BY DEF PendingIsAuthenticated, HandshakeMatchesSocket, Pending
<1>4. JoinersHaveAConnect' BY DEF JoinersHaveAConnect
<1>5. ClosedHoldsNothing' BY DEF ClosedHoldsNothing
<1>6. HandshakeIsCurrent' BY NoneAssumption DEF HandshakeIsCurrent
<1>7. HandshakeMatchesSocket' BY DEF HandshakeMatchesSocket, Active
<1>8. LoginHasNoSocket' BY DEF LoginHasNoSocket
<1> QED BY <1>1, <1>2, <1>3, <1>4, <1>5, <1>6, <1>7, <1>8

(* The callers let through by a handshake are on the socket it             *)
(* authenticated.                                                          *)
LEMMA ConnectedInv == ASSUME Inv, NEW s \in Sockets, Connected(s) PROVE Inv'
<1> USE DEF Inv, TypeOK, Connected, Send, Fail
<1>1. TypeOK' BY DEF Settled
<1>2. PendingIsAuthenticated'
  BY NoneAssumption DEF PendingIsAuthenticated, Pending
<1>3. JoinersHaveAConnect' BY DEF JoinersHaveAConnect, Joining
<1>4. ClosedHoldsNothing' BY DEF ClosedHoldsNothing
<1>5. HandshakeIsCurrent' BY DEF HandshakeIsCurrent
<1>6. HandshakeMatchesSocket' BY DEF HandshakeMatchesSocket
<1>7. LoginHasNoSocket' BY DEF LoginHasNoSocket
<1>8. LiveSocketIsCurrent' BY DEF LiveSocketIsCurrent
<1> QED BY <1>1, <1>2, <1>3, <1>4, <1>5, <1>6, <1>7, <1>8

(* The handshake that times out is that of the current connect().          *)
LEMMA HandshakeTimeoutInv ==
  ASSUME Inv, NEW s \in Sockets, HandshakeTimeout(s) PROVE Inv'
<1> USE DEF Inv, TypeOK, HandshakeTimeout, GiveUp, Fail
<1>1. TypeOK' BY DEF Settled
<1>2. LiveSocketIsCurrent' BY DEF LiveSocketIsCurrent, Live
<1>3. PendingIsAuthenticated' BY DEF PendingIsAuthenticated, Pending
<1>4. JoinersHaveAConnect' BY DEF JoinersHaveAConnect, Joining
<1>5. ClosedHoldsNothing' BY DEF ClosedHoldsNothing, Live, Pending
<1>6. HandshakeIsCurrent' BY DEF HandshakeIsCurrent
<1>7. HandshakeMatchesSocket' BY DEF HandshakeMatchesSocket
<1>8. LoginHasNoSocket' BY DEF LoginHasNoSocket
<1> QED BY <1>1, <1>2, <1>3, <1>4, <1>5, <1>6, <1>7, <1>8

(* An opening socket stays the current one.                                *)
LEMMA SocketOpenInv ==
  ASSUME Inv, NEW s \in Sockets, SocketOpen(s) PROVE Inv'
<1> USE DEF Inv, TypeOK, SocketOpen
<1>1. TypeOK' OBVIOUS
<1>2. LiveSocketIsCurrent' BY DEF LiveSocketIsCurrent, Live
<1>3. ClosedHoldsNothing' BY DEF ClosedHoldsNothing, Live
<1>4. HandshakeMatchesSocket' BY DEF HandshakeMatchesSocket, Active
<1>5. LoginHasNoSocket' BY DEF LoginHasNoSocket, Live
<1>6. PendingIsAuthenticated' /\ JoinersHaveAConnect' /\ HandshakeIsCurrent'
  BY DEF PendingIsAuthenticated, JoinersHaveAConnect, HandshakeIsCurrent,
         Joining, Pending
<1> QED BY <1>1, <1>2, <1>3, <1>4, <1>5, <1>6

(* A socket that starts to close stays the current one.                    *)
LEMMA PeerClosingInv ==
  ASSUME Inv, NEW s \in Sockets, PeerClosing(s) PROVE Inv'
<1> USE DEF Inv, TypeOK, PeerClosing
<1>1. TypeOK' OBVIOUS
<1>2. LiveSocketIsCurrent' BY DEF LiveSocketIsCurrent, Live
<1>3. ClosedHoldsNothing' BY DEF ClosedHoldsNothing, Live
<1>4. HandshakeMatchesSocket' BY DEF HandshakeMatchesSocket, Active
<1>5. LoginHasNoSocket' BY DEF LoginHasNoSocket, Live
<1>6. PendingIsAuthenticated' /\ JoinersHaveAConnect' /\ HandshakeIsCurrent'
  BY DEF PendingIsAuthenticated, JoinersHaveAConnect, HandshakeIsCurrent,
         Joining, Pending
<1> QED BY <1>1, <1>2, <1>3, <1>4, <1>5, <1>6

(* onerror clears this.ws: the socket it clears is its own.                *)
LEMMA SocketErrorInv ==
  ASSUME Inv, NEW s \in Sockets, SocketError(s) PROVE Inv'
<1> USE DEF Inv, TypeOK, SocketError, GiveUp, Fail
<1>1. TypeOK' BY DEF Settled
<1>2. LiveSocketIsCurrent'
  BY DEF LiveSocketIsCurrent, HandshakeIsCurrent, Live
<1>3. PendingIsAuthenticated' BY DEF PendingIsAuthenticated, Pending
<1>4. JoinersHaveAConnect' BY DEF JoinersHaveAConnect, Joining
<1>5. ClosedHoldsNothing' BY DEF ClosedHoldsNothing, Live, Pending
<1>6. HandshakeIsCurrent' BY DEF HandshakeIsCurrent
<1>7. HandshakeMatchesSocket' BY DEF HandshakeMatchesSocket, Active
<1>8. LoginHasNoSocket' BY DEF LoginHasNoSocket, Live
<1> QED BY <1>1, <1>2, <1>3, <1>4, <1>5, <1>6, <1>7, <1>8

(* onclose settles the handshake and the requests of its own socket.       *)
LEMMA SocketClosedInv ==
  ASSUME Inv, NEW s \in Sockets, SocketClosed(s) PROVE Inv'
<1> USE DEF Inv, TypeOK, SocketClosed, GiveUp, Fail
<1>1. TypeOK' BY DEF Settled
<1>2. LiveSocketIsCurrent' BY DEF LiveSocketIsCurrent, Live
<1>3. PendingIsAuthenticated' BY DEF PendingIsAuthenticated, Pending
<1>4. JoinersHaveAConnect' BY DEF JoinersHaveAConnect, Joining
<1>5. ClosedHoldsNothing' BY DEF ClosedHoldsNothing, Live, Pending
<1>6. HandshakeIsCurrent' BY DEF HandshakeIsCurrent
<1>7. HandshakeMatchesSocket' BY DEF HandshakeMatchesSocket, Active
<1>8. LoginHasNoSocket' BY DEF LoginHasNoSocket
<1> QED BY <1>1, <1>2, <1>3, <1>4, <1>5, <1>6, <1>7, <1>8

(* close() ends the only live socket and the only open handshake.          *)
LEMMA CloseInv == ASSUME Inv, Close PROVE Inv'
<1> USE DEF Inv, TypeOK, Close, GiveUp, Fail
<1>1. TypeOK' BY DEF Settled
<1>2. LiveSocketIsCurrent' BY DEF LiveSocketIsCurrent, Live
<1>3. PendingIsAuthenticated' BY DEF PendingIsAuthenticated, Pending
<1>4. JoinersHaveAConnect' BY DEF JoinersHaveAConnect, Joining
<1>5. ClosedHoldsNothing'
  BY NoneAssumption DEF LiveSocketIsCurrent, ClosedHoldsNothing,
         HandshakeIsCurrent, Live, Pending
<1>6. HandshakeIsCurrent' BY DEF HandshakeIsCurrent
<1>7. HandshakeMatchesSocket' BY DEF HandshakeMatchesSocket
<1>8. LoginHasNoSocket' BY DEF LoginHasNoSocket
<1> QED BY <1>1, <1>2, <1>3, <1>4, <1>5, <1>6, <1>7, <1>8

-----------------------------------------------------------------------------
(* The initial state has no socket and no request.                         *)
LEMMA InitInv == Init => Inv
<1> SUFFICES ASSUME Init PROVE Inv
  OBVIOUS
<1> USE NoneAssumption DEF Init
<1>1. TypeOK BY DEF TypeOK
<1>2. Pending = {} /\ Joining = {} BY DEF Pending, Joining
<1>3. \A s \in Sockets : sock[s] = "unused" /\ hand[s] = "none" OBVIOUS
<1>4. LiveSocketIsCurrent BY <1>3 DEF LiveSocketIsCurrent, Live
<1>5. PendingIsAuthenticated /\ JoinersHaveAConnect /\ ClosedHoldsNothing
  BY <1>2 DEF PendingIsAuthenticated, JoinersHaveAConnect, ClosedHoldsNothing
<1>6. HandshakeIsCurrent /\ HandshakeMatchesSocket /\ LoginHasNoSocket
  BY <1>3 DEF HandshakeIsCurrent, HandshakeMatchesSocket, LoginHasNoSocket
<1> QED BY <1>1, <1>4, <1>5, <1>6 DEF Inv

(* Inv is inductive.                                                       *)
LEMMA StepInv == Inv /\ [Next]_vars => Inv'
<1> SUFFICES ASSUME Inv, [Next]_vars PROVE Inv'
  OBVIOUS
<1>1. CASE UNCHANGED vars
  BY <1>1 DEF vars, Inv, TypeOK, Live, Active, Pending, Joining,
      LiveSocketIsCurrent, PendingIsAuthenticated, JoinersHaveAConnect,
      ClosedHoldsNothing, HandshakeIsCurrent, HandshakeMatchesSocket,
      LoginHasNoSocket
<1>2. ASSUME NEW c \in Calls, Request(c) PROVE Inv'
  BY <1>2, RequestInv
<1>3. ASSUME NEW c \in Calls, Return(c) PROVE Inv'
  BY <1>3, ReturnInv
<1>4. ASSUME NEW c \in Calls, RequestTimeout(c) PROVE Inv'
  BY <1>4, RequestTimeoutInv
<1>5. ASSUME NEW c \in Calls, NEW type \in ReplyTypes, Reply(c, type)
      PROVE  Inv'
  BY <1>5, ReplyInv
<1>6. CASE LoginFail
  BY <1>6, LoginFailInv
<1>7. ASSUME NEW s \in Sockets, LoginOk(s) PROVE Inv'
  BY <1>7, LoginOkInv
<1>8. ASSUME NEW s \in Sockets, Connected(s) PROVE Inv'
  BY <1>8, ConnectedInv
<1>9. ASSUME NEW s \in Sockets, HandshakeTimeout(s) PROVE Inv'
  BY <1>9, HandshakeTimeoutInv
<1>10. ASSUME NEW s \in Sockets, SocketOpen(s) PROVE Inv'
  BY <1>10, SocketOpenInv
<1>11. ASSUME NEW s \in Sockets, PeerClosing(s) PROVE Inv'
  BY <1>11, PeerClosingInv
<1>12. ASSUME NEW s \in Sockets, SocketError(s) PROVE Inv'
  BY <1>12, SocketErrorInv
<1>13. ASSUME NEW s \in Sockets, SocketClosed(s) PROVE Inv'
  BY <1>13, SocketClosedInv
<1>14. CASE Close
  BY <1>14, CloseInv
<1> QED
  BY <1>1, <1>2, <1>3, <1>4, <1>5, <1>6, <1>7, <1>8, <1>9, <1>10, <1>11,
     <1>12, <1>13, <1>14 DEF Next

(* The inductive invariant holds of every behaviour.                       *)
THEOREM Invariance == Spec => []Inv
BY InitInv, StepInv, PTL DEF Spec

(* Every variable of the client keeps its range.                           *)
THEOREM TypeCorrect == Spec => []TypeOK
<1>1. Inv => TypeOK BY DEF Inv
<1> QED BY <1>1, Invariance, PTL

(* No connection leaks, however handshakes, losses and close() interleave. *)
THEOREM NoLeakedConnection == Spec => []LiveSocketIsCurrent
<1>1. Inv => LiveSocketIsCurrent BY DEF Inv
<1> QED BY <1>1, Invariance, PTL

(* A request is only outstanding on a socket that authenticated.           *)
THEOREM RequestsAreAuthenticated == Spec => []PendingIsAuthenticated
<1>1. Inv => PendingIsAuthenticated BY DEF Inv
<1> QED BY <1>1, Invariance, PTL

(* A caller never waits in ensureConnected without a connect() under way.  *)
THEOREM NobodyIsForgotten == Spec => []JoinersHaveAConnect
<1>1. Inv => JoinersHaveAConnect BY DEF Inv
<1> QED BY <1>1, Invariance, PTL

(* close() leaves no request, no handshake and no live socket behind.      *)
THEOREM ClosedIsQuiet == Spec => []ClosedHoldsNothing
<1>1. Inv => ClosedHoldsNothing BY DEF Inv
<1> QED BY <1>1, Invariance, PTL

-----------------------------------------------------------------------------
(* Only the current connection answers: no other step than a reply on the  *)
(* socket that is this.ws gives a caller the answer it waits for.          *)
THEOREM CurrentConnectionAnswers == Spec => OnlyCurrentConnectionAnswers
<1> DEFINE A == \A c \in Calls : call[c] = "pending" /\ call'[c] = "ok" =>
                                   ~closed /\ via[c] = ws
<1>1. ASSUME Inv, Next PROVE A
  <2> SUFFICES ASSUME NEW d \in Calls, call[d] = "pending", call'[d] = "ok"
               PROVE  ~closed /\ via[d] = ws
    BY DEF A
  <2> USE <1>1 DEF Inv, TypeOK, Fail, Send
  <2>1. ASSUME NEW c \in Calls, Request(c) PROVE FALSE
    BY <2>1 DEF Request
  <2>2. ASSUME NEW c \in Calls, Return(c) PROVE FALSE
    BY <2>2 DEF Return
  <2>3. ASSUME NEW c \in Calls, RequestTimeout(c) PROVE FALSE
    BY <2>3 DEF RequestTimeout
  <2>4. ASSUME NEW c \in Calls, NEW type \in ReplyTypes, Reply(c, type)
        PROVE  ~closed /\ via[d] = ws
    BY <2>4 DEF Reply
  <2>5. CASE LoginFail
    BY <2>5 DEF LoginFail
  <2>6. ASSUME NEW s \in Sockets, Connected(s) PROVE FALSE
    BY <2>6 DEF Connected, Joining
  <2>7. ASSUME NEW s \in Sockets,
               LoginOk(s) \/ HandshakeTimeout(s) \/ SocketOpen(s) \/
               PeerClosing(s) \/ SocketError(s) \/ SocketClosed(s)
        PROVE  FALSE
    BY <2>7 DEF LoginOk, HandshakeTimeout, SocketOpen, PeerClosing,
                SocketError, SocketClosed
  <2>8. CASE Close
    BY <2>8 DEF Close
  <2> QED BY <2>1, <2>2, <2>3, <2>4, <2>5, <2>6, <2>7, <2>8 DEF Next
<1>2. Inv /\ [Next]_vars => [A]_vars
  BY <1>1
<1> QED BY <1>2, Invariance, PTL DEF Spec, OnlyCurrentConnectionAnswers

-----------------------------------------------------------------------------
(* The requests of the current connection that a step settles.             *)
Ended == {c \in Calls : call[c] = "pending" /\ via[c] = ws
                        /\ call'[c] # "pending"}

(* A set with one element at most has a cardinality of one at most.        *)
LEMMA AtMostOneElement ==
  ASSUME NEW S, NEW d, S \subseteq {d}
  PROVE  Cardinality(S) <= 1
<1>1. IsFiniteSet({d}) /\ Cardinality({d}) = 1
  BY FS_Singleton
<1> QED BY <1>1, FS_Subset

(* While the connection stays, its requests are settled one at a time.     *)
LEMMA EndedOneByOne ==
  ASSUME Inv, Next, ws # None, ws' = ws
  PROVE  Cardinality(Ended) <= 1
<1> USE DEF Inv, TypeOK, Fail, Ended
<1>1. ASSUME NEW c \in Calls, Request(c) PROVE Ended \subseteq {c}
  BY <1>1 DEF Request, Send
<1>2. ASSUME NEW c \in Calls, Return(c) PROVE Ended \subseteq {c}
  BY <1>2 DEF Return
<1>3. ASSUME NEW c \in Calls, RequestTimeout(c) PROVE Ended \subseteq {c}
  BY <1>3 DEF RequestTimeout
<1>4. ASSUME NEW c \in Calls, NEW type \in ReplyTypes, Reply(c, type)
      PROVE  Ended \subseteq {c}
  BY <1>4 DEF Reply
<1>5. CASE LoginFail
  <2> Ended \subseteq {None} BY <1>5 DEF LoginFail, Joining
  <2> QED BY AtMostOneElement
<1>6. ASSUME NEW s \in Sockets, LoginOk(s) PROVE Ended \subseteq {s}
  BY <1>6 DEF LoginOk
<1>7. ASSUME NEW s \in Sockets, Connected(s) PROVE Ended \subseteq {s}
  BY <1>7 DEF Connected, Send, Joining
<1>8. ASSUME NEW s \in Sockets, HandshakeTimeout(s) PROVE Ended \subseteq {s}
  BY <1>8 DEF HandshakeTimeout, Joining
<1>9. ASSUME NEW s \in Sockets, SocketOpen(s) \/ PeerClosing(s)
      PROVE  Ended \subseteq {s}
  BY <1>9 DEF SocketOpen, PeerClosing
<1>10. ASSUME NEW s \in Sockets, SocketError(s) PROVE Ended \subseteq {s}
  BY <1>10 DEF SocketError, Joining
<1>11. ASSUME NEW s \in Sockets, SocketClosed(s) PROVE Ended \subseteq {s}
  BY <1>11 DEF SocketClosed, Joining, Pending
<1>12. ~Close
  BY DEF Close
<1> QED
  BY <1>1, <1>2, <1>3, <1>4, <1>5, <1>6, <1>7, <1>8, <1>9, <1>10, <1>11,
     <1>12, AtMostOneElement DEF Next

(* The loss of a superseded socket never settles a request of the current  *)
(* one.                                                                    *)
THEOREM LossIsConfined == Spec => LossIsConfinedToTheSocket
<1>1. Inv /\ [Next]_vars =>
        [ws # None /\ ws' = ws => Cardinality(Ended) <= 1]_vars
  BY EndedOneByOne
<1> QED BY <1>1, Invariance, PTL DEF Spec, LossIsConfinedToTheSocket, Ended

-----------------------------------------------------------------------------
(* The client implements the contract of its callers.  All steps that fail *)
(* callers are one Reject of the contract.                                 *)
LEMMA FailIsReject ==
  ASSUME Inv, NEW C \in SUBSET (Joining \cup Pending), Fail(C)
  PROVE  C \in SUBSET Contract!Waiting /\ Seen' = Contract!Rejected(C)
BY DEF Inv, TypeOK, Settled, Fail, Seen, Joining, Pending,
       Contract!Waiting, Contract!Rejected

(* Callers that a handshake lets through keep waiting unless send throws.  *)
LEMMA SendIsReject ==
  ASSUME Inv, NEW s \in Sockets, Send(Joining, s), UNCHANGED closed
  PROVE  Contract!Reject
<1>1. PICK thrown \in SUBSET Joining :
        call' = [c \in Calls |-> IF c \in thrown THEN "failed"
                                 ELSE IF c \in Joining THEN "pending" ELSE call[c]]
  BY DEF Send
<1>2. thrown \in SUBSET Contract!Waiting
  BY DEF Joining, Seen, Contract!Waiting
<1>3. Seen' = Contract!Rejected(thrown)
  BY <1>1 DEF Inv, TypeOK, Settled, Seen, Joining, Contract!Rejected
<1> QED BY <1>2, <1>3 DEF Contract!Reject

(* A request is the contract's Ask: refused at once by a closed client.    *)
LEMMA RequestIsAsk ==
  ASSUME Inv, NEW c \in Calls, Request(c)
  PROVE  Contract!Ask(c)
<1>1. Seen[c] = "idle"
  BY DEF Request, Seen
<1>2. call'[c] \in {"joining", "pending", "failed"} /\ (closed => call'[c] = "failed")
  BY DEF Inv, TypeOK, Request, Send, Fail
<1>3. \A d \in Calls \ {c} : call'[d] = call[d]
  BY DEF Inv, TypeOK, Request, Send, Fail
<1>4. Seen' = [Seen EXCEPT ![c] = IF call'[c] = "failed" THEN "failed" ELSE "waiting"]
  BY <1>2, <1>3 DEF Seen
<1>5. UNCHANGED closed
  BY DEF Request
<1> QED BY <1>1, <1>2, <1>4, <1>5 DEF Contract!Ask

(* A reply answers its caller, rejects it, or is one the client ignores.   *)
LEMMA ReplyIsAnswer ==
  ASSUME Inv, NEW c \in Calls, NEW type \in ReplyTypes, Reply(c, type)
  PROVE  Contract!Answer(c) \/ Contract!Reject \/ UNCHANGED Contract!vars
<1> USE DEF Inv, TypeOK, Reply, Seen
<1>1. CASE type = "module_response"
  BY <1>1 DEF Contract!Answer
<1>2. CASE type = "error"
  <2>1. call' = [call EXCEPT ![c] = "failed"]
    BY <1>2
  <2>2. Fail({c}) /\ {c} \in SUBSET (Joining \cup Pending)
    BY <2>1 DEF Fail, Pending
  <2> QED BY <2>2, FailIsReject DEF Contract!Reject
<1>3. CASE type \notin {"module_response", "error"}
  <2>1. call' = [call EXCEPT ![c] = "orphaned"]
    BY <1>3
  <2> QED BY <2>1 DEF Contract!vars
<1> QED BY <1>1, <1>2, <1>3

(* close() of the client is Close of the contract.                         *)
LEMMA CloseIsClose ==
  ASSUME Inv, Close
  PROVE  Contract!Close
<1>1. PICK C \in SUBSET (Joining \cup Pending) : Fail(C)
  <2>1. CASE ws = None
    BY <2>1 DEF Close
  <2>2. CASE ws # None
    BY <2>2 DEF Close
  <2> QED BY <2>1, <2>2
<1>2. C \in SUBSET Contract!Waiting /\ Seen' = Contract!Rejected(C)
  BY <1>1, FailIsReject
<1> QED BY <1>2 DEF Close, Contract!Close

(* The client refines RequestContract: its callers see at most one answer  *)
(* each, none after close(), and an immediate refusal from then on.        *)
THEOREM Refinement == Spec => RefinesContract
<1>1. Init => Contract!Init
  BY DEF Init, Seen, Contract!Init
<1>2. ASSUME Inv, [Next]_vars PROVE [Contract!Next]_(Contract!vars)
  <2> DEFINE Joined == Joining \cup Pending
  <2>1. ASSUME NEW c \in Calls, Request(c) PROVE Contract!Next
    BY <1>2, <2>1, RequestIsAsk DEF Contract!Next
  <2>2. ASSUME NEW c \in Calls, Return(c) PROVE Contract!Next
    <3>1. Contract!Return(c)
      BY <1>2, <2>2 DEF Inv, TypeOK, Return, Seen, Contract!Return
    <3> QED BY <3>1 DEF Contract!Next
  <2>3. ASSUME NEW C \in SUBSET Joined, Fail(C), UNCHANGED closed
        PROVE  Contract!Next
    BY <1>2, <2>3, FailIsReject DEF Contract!Reject, Contract!Next
  <2>4. ASSUME NEW c \in Calls, RequestTimeout(c) PROVE Contract!Next
    <3>1. {c} \in SUBSET Joined /\ Fail({c}) /\ UNCHANGED closed
      BY <2>4 DEF RequestTimeout, Pending
    <3> QED BY <3>1, <2>3
  <2>5. ASSUME NEW c \in Calls, NEW type \in ReplyTypes, Reply(c, type)
        PROVE  [Contract!Next]_(Contract!vars)
    BY <1>2, <2>5, ReplyIsAnswer DEF Contract!Next
  <2>6. ASSUME UNCHANGED <<closed, call>> PROVE UNCHANGED Contract!vars
    BY <2>6 DEF Seen, Contract!vars
  <2>7. CASE LoginFail
    BY <2>3, <2>7 DEF LoginFail
  <2>8. ASSUME NEW s \in Sockets, LoginOk(s) \/ SocketOpen(s) \/ PeerClosing(s)
        PROVE  UNCHANGED Contract!vars
    BY <2>6, <2>8 DEF LoginOk, SocketOpen, PeerClosing
  <2>9. ASSUME NEW s \in Sockets, Connected(s) PROVE Contract!Next
    <3>1. CASE sock[s] = "open"
      BY <1>2, <2>9, <3>1, SendIsReject DEF Connected, Contract!Next
    <3>2. CASE sock[s] # "open"
      BY <2>3, <2>9, <3>2 DEF Connected
    <3> QED BY <3>1, <3>2
  <2>10. ASSUME NEW s \in Sockets, HandshakeTimeout(s) PROVE Contract!Next
    BY <2>3, <2>10 DEF HandshakeTimeout
  <2>11. ASSUME NEW s \in Sockets, SocketError(s)
         PROVE  [Contract!Next]_(Contract!vars)
    BY <2>3, <2>6, <2>11 DEF SocketError
  <2>12. ASSUME NEW s \in Sockets, SocketClosed(s) PROVE Contract!Next
    BY <2>3, <2>12 DEF SocketClosed
  <2>13. CASE Close
    BY <1>2, <2>13, CloseIsClose DEF Contract!Next
  <2>14. CASE UNCHANGED vars
    BY <2>6, <2>14 DEF vars
  <2> QED
    BY <1>2, <2>1, <2>2, <2>4, <2>5, <2>7, <2>8, <2>9, <2>10, <2>11, <2>12,
       <2>13, <2>14 DEF Next
<1> QED BY <1>1, <1>2, Invariance, PTL DEF Spec, RefinesContract

-----------------------------------------------------------------------------
(* The voice calls.  What a call is.                                       *)
CallRecord == [state : {"none", "connecting", "open", "closed"},
               attached : BOOLEAN, pending : 0..MaxPending,
               nextSeq : 0..MaxSeq + 1, forwarded : 0..MaxSeq + 1]

(* Setting the fields of a call.                                           *)
LEMMA CallUpdate ==
  ASSUME NEW r \in CallRecord
  PROVE  /\ \A x \in {"none", "connecting", "open", "closed"} : [r EXCEPT !.state = x] \in CallRecord
         /\ [r EXCEPT !.attached = TRUE] \in CallRecord
         /\ \A x \in 0..MaxPending : [r EXCEPT !.pending = x] \in CallRecord
         /\ \A x \in 0..MaxSeq + 1 : [r EXCEPT !.nextSeq = x] \in CallRecord
         /\ \A x \in 0..MaxSeq + 1 : [r EXCEPT !.forwarded = x] \in CallRecord
BY DEF CallRecord

LEMMA CallUpdates ==
  ASSUME RoomsAssumption, NEW r \in CallRecord
  PROVE  /\ [r EXCEPT !.state = "closed", !.pending = 0] \in CallRecord
         /\ [r EXCEPT !.attached = TRUE, !.pending = 0] \in CallRecord
         /\ \A x \in 0..MaxSeq + 1 :
              [r EXCEPT !.nextSeq = x, !.forwarded = x] \in CallRecord
<1>0. 0 \in 0..MaxPending
  BY DEF RoomsAssumption, Roomy!TrAssumption
<1>1. ASSUME NEW q \in CallRecord PROVE [q EXCEPT !.pending = 0] \in CallRecord
  BY <1>0, CallUpdate
<1>2. [r EXCEPT !.state = "closed"] \in CallRecord /\ [r EXCEPT !.attached = TRUE] \in CallRecord
  BY CallUpdate
<1>3. ASSUME NEW x \in 0..MaxSeq + 1
      PROVE  [r EXCEPT !.nextSeq = x, !.forwarded = x] \in CallRecord
  <2>1. [r EXCEPT !.nextSeq = x] \in CallRecord BY CallUpdate
  <2> QED BY <2>1, CallUpdate
<1> QED BY <1>1, <1>2, <1>3

(* One call is changed.                                                    *)
LEMMA CallChanged ==
  ASSUME voice \in [Ids -> CallRecord], NEW i \in Ids, NEW c \in CallRecord,
         voice' = [voice EXCEPT ![i] = c]
  PROVE  voice' \in [Ids -> CallRecord] /\ voice'[i] = c /\ \A j \in Ids \ {i} : voice'[j] = voice[j]
OBVIOUS

(* What becomes of the calls when some are disposed of.                    *)
LEMMA DisposeEffect ==
  ASSUME RoomsAssumption, Roomy!TypeOK, NEW D, Roomy!Dispose(D)
  PROVE  /\ voice' \in [Ids -> CallRecord] /\ told' \subseteq Ids
         /\ \A j \in Ids :
              /\ voice'[j].forwarded = voice[j].forwarded /\ voice'[j].nextSeq = voice[j].nextSeq
              /\ voice'[j].state = voice[j].state \/ voice'[j].state = "closed"
              /\ (voice'[j].state = "none") <=> (voice[j].state = "none")
<1> USE DEF Roomy!TypeOK, Roomy!Dispose, Roomy!Disposed, Roomy!Registered
<1>1. \A j \in Ids : voice[j] \in CallRecord
  BY DEF CallRecord
<1>2. \A j \in Ids : \/ voice'[j] = voice[j]
                     \/ /\ voice[j].state \in {"connecting", "open"}
                        /\ voice'[j] = [voice[j] EXCEPT !.state = "closed", !.pending = 0]
  OBVIOUS
<1>3. \A j \in Ids : voice'[j] \in CallRecord
  BY <1>1, <1>2, CallUpdates
<1>4. voice' = [j \in Ids |-> voice'[j]]
  OBVIOUS
<1>5. voice' \in [Ids -> CallRecord]
  BY ONLY <1>3, <1>4
<1>6. \A j \in Ids :
        /\ voice'[j].forwarded = voice[j].forwarded /\ voice'[j].nextSeq = voice[j].nextSeq
        /\ voice'[j].state = voice[j].state \/ voice'[j].state = "closed"
        /\ (voice'[j].state = "none") <=> (voice[j].state = "none")
  BY ONLY <1>1, <1>2 DEF CallRecord
<1> QED BY <1>5, <1>6

(* A start takes one place more, counted by its user and by the calls.     *)
LEMMA OnePlaceMore ==
  ASSUME NEW R, NEW W, NEW f, NEW i, NEW room \in Nat,
         IsFiniteSet(W \cup R), \A a, b \in W : f[a] = f[b] => a = b,
         Cardinality(R) + Cardinality({f[a] : a \in W}) < room
  PROVE  IsFiniteSet(W \cup {i} \cup R) /\ Cardinality(W \cup {i} \cup R) <= room
<1> DEFINE V == {f[a] : a \in W}
           g == [a \in W |-> f[a]]
<1>1. IsFiniteSet(W) /\ IsFiniteSet(R)
  BY FS_Subset, W \subseteq W \cup R, R \subseteq W \cup R
<1>2. g \in Bijection(W, V)
  BY DEF Bijection, Injection, Surjection, IsInjective
<1>3. IsFiniteSet(V) /\ Cardinality(V) = Cardinality(W)
  <2> HIDE DEF g, V
  <2> QED BY <1>1, <1>2, FS_Bijection DEF ExistsBijection
<1>4. /\ Cardinality(W) \in Nat /\ Cardinality(R) \in Nat /\ Cardinality(W \cap R) \in Nat
      /\ Cardinality(W \cup R) = Cardinality(W) + Cardinality(R) - Cardinality(W \cap R)
  BY <1>1, FS_CardinalityType, FS_Union, FS_Intersection
<1>5. Cardinality(W \cup R) < room
  BY <1>3, <1>4
<1>6. W \cup {i} \cup R = (W \cup R) \cup {i}
  OBVIOUS
<1>7. IsFiniteSet(W \cup R) /\ Cardinality(W \cup R) \in Nat
  BY FS_CardinalityType
<1>8. /\ IsFiniteSet((W \cup R) \cup {i})
      /\ \/ Cardinality((W \cup R) \cup {i}) = Cardinality(W \cup R)
         \/ Cardinality((W \cup R) \cup {i}) = Cardinality(W \cup R) + 1
  BY <1>7, FS_AddElement
<1>9. Cardinality((W \cup R) \cup {i}) <= room
  <2> DEFINE n == Cardinality(W \cup R)
  <2>1. n \in Nat /\ n < room BY <1>5, <1>7
  <2>2. n <= room /\ n + 1 <= room
    <3> HIDE DEF n
    <3> QED BY <2>1
  <2> QED BY <1>8, <2>2
<1> QED BY <1>6, <1>8, <1>9

(* The cardinality of the instances is that of the sets.                   *)
LEMMA RoomCardinality ==
  ASSUME NEW S
  PROVE  /\ Roomy!Cardinality(S) = Cardinality(S) /\ Full!Cardinality(S) = Cardinality(S)
         /\ Roomy!IsFiniteSet(S) <=> IsFiniteSet(S)
BY DEF Roomy!Cardinality, Full!Cardinality, Cardinality, Roomy!IsFiniteSet, Full!IsFiniteSet, IsFiniteSet

-----------------------------------------------------------------------------
(* A step that is no start takes no place, and forwards the audio of calls *)
(* in the map only.                                                        *)
Kept ==
  /\ Roomy!Holding' \subseteq Roomy!Holding
  /\ \A j \in Roomy!Holding' : user'[j] = user[j]
  /\ \A j \in Ids : voice'[j].forwarded > voice[j].forwarded => j \in Roomy!Registered

LEMMA AbortKept ==
  ASSUME RoomsAssumption, Roomy!TypeOK, Roomy!CallsFollowStarts, NEW i \in Ids, Roomy!Abort(i)
  PROVE  Roomy!TypeOK' /\ Roomy!CallsFollowStarts' /\ Kept
<1> USE DEF Roomy!Abort, Roomy!Goto, Roomy!Awaits, Roomy!Listened, Roomy!Handed
<1>1. voice' \in [Ids -> CallRecord]
  BY CallUpdates, DisposeEffect DEF Roomy!TypeOK, CallRecord, RoomsAssumption, Roomy!TrAssumption
<1>2. Roomy!TypeOK'
  BY <1>1, DisposeEffect DEF Roomy!TypeOK, CallRecord
<1>3. Roomy!CallsFollowStarts'
  BY DisposeEffect DEF Roomy!TypeOK, Roomy!CallsFollowStarts, Roomy!Registered
<1>4. Kept
  BY DisposeEffect DEF Kept, Roomy!TypeOK, Roomy!CallsFollowStarts, Roomy!Holding, Roomy!Waiting, Roomy!Registered
<1> QED BY <1>2, <1>3, <1>4

LEMMA SessionRefusedKept ==
  ASSUME RoomsAssumption, Roomy!TypeOK, Roomy!CallsFollowStarts, NEW i \in Ids, Roomy!SessionRefused(i)
  PROVE  Roomy!TypeOK' /\ Roomy!CallsFollowStarts' /\ Kept
<1> USE DEF Roomy!SessionRefused, Roomy!Goto, Roomy!Awaits, Roomy!Listened, Roomy!Handed
<1>1. voice' \in [Ids -> CallRecord]
  BY CallUpdates, DisposeEffect DEF Roomy!TypeOK, CallRecord, RoomsAssumption, Roomy!TrAssumption
<1>2. Roomy!TypeOK'
  BY <1>1, DisposeEffect DEF Roomy!TypeOK, CallRecord
<1>3. Roomy!CallsFollowStarts'
  BY DisposeEffect DEF Roomy!TypeOK, Roomy!CallsFollowStarts, Roomy!Registered
<1>4. Kept
  BY DisposeEffect DEF Kept, Roomy!TypeOK, Roomy!CallsFollowStarts, Roomy!Holding, Roomy!Waiting, Roomy!Registered
<1> QED BY <1>2, <1>3, <1>4

LEMMA SessionCreatedKept ==
  ASSUME RoomsAssumption, Roomy!TypeOK, Roomy!CallsFollowStarts, NEW i \in Ids, Roomy!SessionCreated(i)
  PROVE  Roomy!TypeOK' /\ Roomy!CallsFollowStarts' /\ Kept
<1> USE DEF Roomy!SessionCreated, Roomy!Goto, Roomy!Awaits, Roomy!Listened, Roomy!Handed
<1>1. voice' \in [Ids -> CallRecord]
  BY CallUpdates, DisposeEffect DEF Roomy!TypeOK, CallRecord, RoomsAssumption, Roomy!TrAssumption
<1>2. Roomy!TypeOK'
  BY <1>1, DisposeEffect DEF Roomy!TypeOK, CallRecord
<1>3. Roomy!CallsFollowStarts'
  BY DisposeEffect DEF Roomy!TypeOK, Roomy!CallsFollowStarts, Roomy!Registered
<1>4. Kept
  BY DisposeEffect DEF Kept, Roomy!TypeOK, Roomy!CallsFollowStarts, Roomy!Holding, Roomy!Waiting, Roomy!Registered
<1> QED BY <1>2, <1>3, <1>4

LEMMA MaterialAnswerKept ==
  ASSUME RoomsAssumption, Roomy!TypeOK, Roomy!CallsFollowStarts, NEW i \in Ids, Roomy!MaterialAnswer(i)
  PROVE  Roomy!TypeOK' /\ Roomy!CallsFollowStarts' /\ Kept
<1> USE DEF Roomy!MaterialAnswer, Roomy!Goto, Roomy!Awaits, Roomy!Listened, Roomy!Handed
<1>1. voice' \in [Ids -> CallRecord]
  BY CallUpdates, DisposeEffect DEF Roomy!TypeOK, CallRecord, RoomsAssumption, Roomy!TrAssumption
<1>2. Roomy!TypeOK'
  BY <1>1, DisposeEffect DEF Roomy!TypeOK, CallRecord
<1>3. Roomy!CallsFollowStarts'
  BY DisposeEffect DEF Roomy!TypeOK, Roomy!CallsFollowStarts, Roomy!Registered
<1>4. Kept
  BY DisposeEffect DEF Kept, Roomy!TypeOK, Roomy!CallsFollowStarts, Roomy!Holding, Roomy!Waiting, Roomy!Registered
<1> QED BY <1>2, <1>3, <1>4

LEMMA TicketRefusedKept ==
  ASSUME RoomsAssumption, Roomy!TypeOK, Roomy!CallsFollowStarts, NEW i \in Ids, Roomy!TicketRefused(i)
  PROVE  Roomy!TypeOK' /\ Roomy!CallsFollowStarts' /\ Kept
<1> USE DEF Roomy!TicketRefused, Roomy!Goto, Roomy!Awaits, Roomy!Listened, Roomy!Handed
<1>1. voice' \in [Ids -> CallRecord]
  BY CallUpdates, DisposeEffect DEF Roomy!TypeOK, CallRecord, RoomsAssumption, Roomy!TrAssumption
<1>2. Roomy!TypeOK'
  BY <1>1, DisposeEffect DEF Roomy!TypeOK, CallRecord
<1>3. Roomy!CallsFollowStarts'
  BY DisposeEffect DEF Roomy!TypeOK, Roomy!CallsFollowStarts, Roomy!Registered
<1>4. Kept
  BY DisposeEffect DEF Kept, Roomy!TypeOK, Roomy!CallsFollowStarts, Roomy!Holding, Roomy!Waiting, Roomy!Registered
<1> QED BY <1>2, <1>3, <1>4

LEMMA TicketGrantedKept ==
  ASSUME RoomsAssumption, Roomy!TypeOK, Roomy!CallsFollowStarts, NEW i \in Ids, Roomy!TicketGranted(i)
  PROVE  Roomy!TypeOK' /\ Roomy!CallsFollowStarts' /\ Kept
<1> USE DEF Roomy!TicketGranted, Roomy!Goto, Roomy!Awaits, Roomy!Listened, Roomy!Handed
<1>0. voice \in [Ids -> CallRecord] /\ voice[i] \in CallRecord
  BY DEF Roomy!TypeOK, CallRecord
<1> DEFINE c == [voice[i] EXCEPT !.state = "connecting"]
<1>1. /\ c \in CallRecord /\ c.state = "connecting"
      /\ c.forwarded = voice[i].forwarded /\ c.nextSeq = voice[i].nextSeq
  <2>1. c \in CallRecord BY <1>0, CallUpdate, CallUpdates
  <2> QED BY <1>0, <2>1 DEF CallRecord
<1>2. /\ voice' \in [Ids -> CallRecord] /\ \A j \in Ids \ {i} : voice'[j] = voice[j]
      /\ voice'[i].state = "connecting"
      /\ voice'[i].forwarded = voice[i].forwarded /\ voice'[i].nextSeq = voice[i].nextSeq
  <2>1. voice' = [voice EXCEPT ![i] = c] OBVIOUS
  <2> HIDE DEF c
  <2> QED BY <1>0, <1>1, <2>1, CallChanged
<1>3. Roomy!TypeOK'
  BY <1>2 DEF Roomy!TypeOK, CallRecord
<1>4. Roomy!CallsFollowStarts'
  BY <1>2 DEF Roomy!TypeOK, Roomy!CallsFollowStarts
<1>5. Kept
  BY <1>2 DEF Kept, Roomy!TypeOK, Roomy!CallsFollowStarts, Roomy!Holding, Roomy!Waiting, Roomy!Registered
<1> QED BY <1>3, <1>4, <1>5

LEMMA SetupReadyKept ==
  ASSUME RoomsAssumption, Roomy!TypeOK, Roomy!CallsFollowStarts, NEW i \in Ids, Roomy!SetupReady(i)
  PROVE  Roomy!TypeOK' /\ Roomy!CallsFollowStarts' /\ Kept
<1> USE DEF Roomy!SetupReady, Roomy!Goto, Roomy!Awaits, Roomy!Listened, Roomy!Handed
<1>0. voice \in [Ids -> CallRecord] /\ voice[i] \in CallRecord
  BY DEF Roomy!TypeOK, CallRecord
<1> DEFINE c == [voice[i] EXCEPT !.pending = @ + 1]
<1>1. ASSUME voice[i].pending < MaxPending
      PROVE  /\ c \in CallRecord /\ c.state = voice[i].state
             /\ c.forwarded = voice[i].forwarded /\ c.nextSeq = voice[i].nextSeq
  <2>1. voice[i].pending + 1 \in 0..MaxPending
    BY <1>0, <1>1 DEF CallRecord, RoomsAssumption, Roomy!TrAssumption
  <2>2. c \in CallRecord BY <1>0, <2>1, CallUpdate
  <2> QED BY <1>0, <2>2 DEF CallRecord
<1>2. /\ voice' \in [Ids -> CallRecord] /\ told' \subseteq Ids
      /\ \A j \in Ids :
           /\ voice'[j].forwarded = voice[j].forwarded /\ voice'[j].nextSeq = voice[j].nextSeq
           /\ voice'[j].state = voice[j].state \/ voice'[j].state = "closed"
           /\ (voice'[j].state = "none") <=> (voice[j].state = "none")
  <2>1. CASE voice[i].pending < MaxPending /\ voice' = [voice EXCEPT ![i] = c] /\ UNCHANGED told
    <3> HIDE DEF c
    <3> QED BY <1>0, <1>1, <2>1, CallChanged DEF Roomy!TypeOK, CallRecord
  <2>2. CASE Roomy!Dispose({i})
    BY <2>2, DisposeEffect
  <2> QED BY <2>1, <2>2
<1>3. Roomy!TypeOK'
  BY <1>2 DEF Roomy!TypeOK, CallRecord
<1>4. Roomy!CallsFollowStarts'
  BY <1>2 DEF Roomy!TypeOK, Roomy!CallsFollowStarts
<1>5. Kept
  BY <1>2 DEF Kept, Roomy!TypeOK, Roomy!CallsFollowStarts, Roomy!Holding, Roomy!Waiting, Roomy!Registered
<1> QED BY <1>3, <1>4, <1>5

LEMMA SetupRejectedKept ==
  ASSUME RoomsAssumption, Roomy!TypeOK, Roomy!CallsFollowStarts, NEW i \in Ids, Roomy!SetupRejected(i)
  PROVE  Roomy!TypeOK' /\ Roomy!CallsFollowStarts' /\ Kept
<1> USE DEF Roomy!SetupRejected, Roomy!Goto, Roomy!Awaits, Roomy!Listened, Roomy!Handed
<1>1. voice' \in [Ids -> CallRecord]
  BY CallUpdates, DisposeEffect DEF Roomy!TypeOK, CallRecord, RoomsAssumption, Roomy!TrAssumption
<1>2. Roomy!TypeOK'
  BY <1>1, DisposeEffect DEF Roomy!TypeOK, CallRecord
<1>3. Roomy!CallsFollowStarts'
  BY DisposeEffect DEF Roomy!TypeOK, Roomy!CallsFollowStarts, Roomy!Registered
<1>4. Kept
  BY DisposeEffect DEF Kept, Roomy!TypeOK, Roomy!CallsFollowStarts, Roomy!Holding, Roomy!Waiting, Roomy!Registered
<1> QED BY <1>2, <1>3, <1>4

LEMMA CleanupKept ==
  ASSUME RoomsAssumption, Roomy!TypeOK, Roomy!CallsFollowStarts, NEW i \in Ids, Roomy!Cleanup(i)
  PROVE  Roomy!TypeOK' /\ Roomy!CallsFollowStarts' /\ Kept
<1> USE DEF Roomy!Cleanup, Roomy!Goto, Roomy!Awaits, Roomy!Listened, Roomy!Handed
<1>1. voice' \in [Ids -> CallRecord]
  BY CallUpdates, DisposeEffect DEF Roomy!TypeOK, CallRecord, RoomsAssumption, Roomy!TrAssumption
<1>2. Roomy!TypeOK'
  BY <1>1, DisposeEffect DEF Roomy!TypeOK, CallRecord
<1>3. Roomy!CallsFollowStarts'
  BY DisposeEffect DEF Roomy!TypeOK, Roomy!CallsFollowStarts, Roomy!Registered
<1>4. Kept
  BY DisposeEffect DEF Kept, Roomy!TypeOK, Roomy!CallsFollowStarts, Roomy!Holding, Roomy!Waiting, Roomy!Registered
<1> QED BY <1>2, <1>3, <1>4

LEMMA UpstreamOpenKept ==
  ASSUME RoomsAssumption, Roomy!TypeOK, Roomy!CallsFollowStarts, NEW i \in Ids, Roomy!UpstreamOpen(i)
  PROVE  Roomy!TypeOK' /\ Roomy!CallsFollowStarts' /\ Kept
<1> USE DEF Roomy!UpstreamOpen, Roomy!Goto, Roomy!Awaits, Roomy!Listened, Roomy!Handed
<1>0. voice \in [Ids -> CallRecord] /\ voice[i] \in CallRecord
  BY DEF Roomy!TypeOK, CallRecord
<1> DEFINE c == [voice[i] EXCEPT !.state = "open"]
<1>1. /\ c \in CallRecord /\ c.state = "open"
      /\ c.forwarded = voice[i].forwarded /\ c.nextSeq = voice[i].nextSeq
  <2>1. c \in CallRecord BY <1>0, CallUpdate, CallUpdates
  <2> QED BY <1>0, <2>1 DEF CallRecord
<1>2. /\ voice' \in [Ids -> CallRecord] /\ \A j \in Ids \ {i} : voice'[j] = voice[j]
      /\ voice'[i].state = "open"
      /\ voice'[i].forwarded = voice[i].forwarded /\ voice'[i].nextSeq = voice[i].nextSeq
  <2>1. voice' = [voice EXCEPT ![i] = c] OBVIOUS
  <2> HIDE DEF c
  <2> QED BY <1>0, <1>1, <2>1, CallChanged
<1>3. Roomy!TypeOK'
  BY <1>2 DEF Roomy!TypeOK, CallRecord
<1>4. Roomy!CallsFollowStarts'
  BY <1>2 DEF Roomy!TypeOK, Roomy!CallsFollowStarts
<1>5. Kept
  BY <1>2 DEF Kept, Roomy!TypeOK, Roomy!CallsFollowStarts, Roomy!Holding, Roomy!Waiting, Roomy!Registered
<1> QED BY <1>3, <1>4, <1>5

LEMMA UpstreamEventKept ==
  ASSUME RoomsAssumption, Roomy!TypeOK, Roomy!CallsFollowStarts, NEW i \in Ids, Roomy!UpstreamEvent(i)
  PROVE  Roomy!TypeOK' /\ Roomy!CallsFollowStarts' /\ Kept
<1> USE DEF Roomy!UpstreamEvent, Roomy!Goto, Roomy!Awaits, Roomy!Listened, Roomy!Handed
<1>0. voice \in [Ids -> CallRecord] /\ voice[i] \in CallRecord
  BY DEF Roomy!TypeOK, CallRecord
<1> DEFINE c == [voice[i] EXCEPT !.pending = @ + 1]
<1>1. ASSUME voice[i].pending < MaxPending
      PROVE  /\ c \in CallRecord /\ c.state = voice[i].state
             /\ c.forwarded = voice[i].forwarded /\ c.nextSeq = voice[i].nextSeq
  <2>1. voice[i].pending + 1 \in 0..MaxPending
    BY <1>0, <1>1 DEF CallRecord, RoomsAssumption, Roomy!TrAssumption
  <2>2. c \in CallRecord BY <1>0, <2>1, CallUpdate
  <2> QED BY <1>0, <2>2 DEF CallRecord
<1>2. /\ voice' \in [Ids -> CallRecord] /\ told' \subseteq Ids
      /\ \A j \in Ids :
           /\ voice'[j].forwarded = voice[j].forwarded /\ voice'[j].nextSeq = voice[j].nextSeq
           /\ voice'[j].state = voice[j].state \/ voice'[j].state = "closed"
           /\ (voice'[j].state = "none") <=> (voice[j].state = "none")
  <2>1. CASE voice[i].pending < MaxPending /\ voice' = [voice EXCEPT ![i] = c] /\ UNCHANGED told
    <3> HIDE DEF c
    <3> QED BY <1>0, <1>1, <2>1, CallChanged DEF Roomy!TypeOK, CallRecord
  <2>2. CASE Roomy!Dispose({i})
    BY <2>2, DisposeEffect
  <2> QED BY <2>1, <2>2
<1>3. Roomy!TypeOK'
  BY <1>2 DEF Roomy!TypeOK, CallRecord
<1>4. Roomy!CallsFollowStarts'
  BY <1>2 DEF Roomy!TypeOK, Roomy!CallsFollowStarts
<1>5. Kept
  BY <1>2 DEF Kept, Roomy!TypeOK, Roomy!CallsFollowStarts, Roomy!Holding, Roomy!Waiting, Roomy!Registered
<1> QED BY <1>3, <1>4, <1>5

LEMMA UpstreamGoneKept ==
  ASSUME RoomsAssumption, Roomy!TypeOK, Roomy!CallsFollowStarts, NEW i \in Ids, Roomy!UpstreamGone(i)
  PROVE  Roomy!TypeOK' /\ Roomy!CallsFollowStarts' /\ Kept
<1> USE DEF Roomy!UpstreamGone, Roomy!Goto, Roomy!Awaits, Roomy!Listened, Roomy!Handed
<1>1. voice' \in [Ids -> CallRecord]
  BY CallUpdates, DisposeEffect DEF Roomy!TypeOK, CallRecord, RoomsAssumption, Roomy!TrAssumption
<1>2. Roomy!TypeOK'
  BY <1>1, DisposeEffect DEF Roomy!TypeOK, CallRecord
<1>3. Roomy!CallsFollowStarts'
  BY DisposeEffect DEF Roomy!TypeOK, Roomy!CallsFollowStarts, Roomy!Registered
<1>4. Kept
  BY DisposeEffect DEF Kept, Roomy!TypeOK, Roomy!CallsFollowStarts, Roomy!Holding, Roomy!Waiting, Roomy!Registered
<1> QED BY <1>2, <1>3, <1>4

LEMMA AttachKept ==
  ASSUME RoomsAssumption, Roomy!TypeOK, Roomy!CallsFollowStarts, NEW i \in Ids, Roomy!Attach(i)
  PROVE  Roomy!TypeOK' /\ Roomy!CallsFollowStarts' /\ Kept
<1> USE DEF Roomy!Attach, Roomy!Goto, Roomy!Awaits, Roomy!Listened, Roomy!Handed
<1>0. voice \in [Ids -> CallRecord] /\ voice[i] \in CallRecord
  BY DEF Roomy!TypeOK, CallRecord
<1> DEFINE c == [voice[i] EXCEPT !.attached = TRUE, !.pending = 0]
<1>1. /\ c \in CallRecord /\ c.state = voice[i].state
      /\ c.forwarded = voice[i].forwarded /\ c.nextSeq = voice[i].nextSeq
  <2>1. c \in CallRecord BY <1>0, CallUpdate, CallUpdates
  <2> QED BY <1>0, <2>1 DEF CallRecord
<1>2. /\ voice' \in [Ids -> CallRecord] /\ \A j \in Ids \ {i} : voice'[j] = voice[j]
      /\ voice'[i].state = voice[i].state
      /\ voice'[i].forwarded = voice[i].forwarded /\ voice'[i].nextSeq = voice[i].nextSeq
  <2>1. voice' = [voice EXCEPT ![i] = c] OBVIOUS
  <2> HIDE DEF c
  <2> QED BY <1>0, <1>1, <2>1, CallChanged
<1>3. Roomy!TypeOK'
  BY <1>2 DEF Roomy!TypeOK, CallRecord
<1>4. Roomy!CallsFollowStarts'
  BY <1>2 DEF Roomy!TypeOK, Roomy!CallsFollowStarts
<1>5. Kept
  BY <1>2 DEF Kept, Roomy!TypeOK, Roomy!CallsFollowStarts, Roomy!Holding, Roomy!Waiting, Roomy!Registered
<1> QED BY <1>3, <1>4, <1>5

LEMMA BrowserEndsKept ==
  ASSUME RoomsAssumption, Roomy!TypeOK, Roomy!CallsFollowStarts, NEW i \in Ids, Roomy!BrowserEnds(i)
  PROVE  Roomy!TypeOK' /\ Roomy!CallsFollowStarts' /\ Kept
<1> USE DEF Roomy!BrowserEnds, Roomy!Goto, Roomy!Awaits, Roomy!Listened, Roomy!Handed
<1>1. voice' \in [Ids -> CallRecord]
  BY CallUpdates, DisposeEffect DEF Roomy!TypeOK, CallRecord, RoomsAssumption, Roomy!TrAssumption
<1>2. Roomy!TypeOK'
  BY <1>1, DisposeEffect DEF Roomy!TypeOK, CallRecord
<1>3. Roomy!CallsFollowStarts'
  BY DisposeEffect DEF Roomy!TypeOK, Roomy!CallsFollowStarts, Roomy!Registered
<1>4. Kept
  BY DisposeEffect DEF Kept, Roomy!TypeOK, Roomy!CallsFollowStarts, Roomy!Holding, Roomy!Waiting, Roomy!Registered
<1> QED BY <1>2, <1>3, <1>4

LEMMA TimerFiresKept ==
  ASSUME RoomsAssumption, Roomy!TypeOK, Roomy!CallsFollowStarts, NEW i \in Ids, Roomy!TimerFires(i)
  PROVE  Roomy!TypeOK' /\ Roomy!CallsFollowStarts' /\ Kept
<1> USE DEF Roomy!TimerFires, Roomy!Goto, Roomy!Awaits, Roomy!Listened, Roomy!Handed
<1>1. voice' \in [Ids -> CallRecord]
  BY CallUpdates, DisposeEffect DEF Roomy!TypeOK, CallRecord, RoomsAssumption, Roomy!TrAssumption
<1>2. Roomy!TypeOK'
  BY <1>1, DisposeEffect DEF Roomy!TypeOK, CallRecord
<1>3. Roomy!CallsFollowStarts'
  BY DisposeEffect DEF Roomy!TypeOK, Roomy!CallsFollowStarts, Roomy!Registered
<1>4. Kept
  BY DisposeEffect DEF Kept, Roomy!TypeOK, Roomy!CallsFollowStarts, Roomy!Holding, Roomy!Waiting, Roomy!Registered
<1> QED BY <1>2, <1>3, <1>4

(* A frame is posted for a registered call.                                *)
LEMMA PostFrameKept ==
  ASSUME RoomsAssumption, Roomy!TypeOK, Roomy!CallsFollowStarts,
         NEW i \in Ids, NEW n \in 0..MaxSeq, Roomy!PostFrame(i, n)
  PROVE  Roomy!TypeOK' /\ Roomy!CallsFollowStarts' /\ Kept
<1> USE DEF Roomy!PostFrame, Roomy!Handed, Roomy!Registered
<1>1. Roomy!TypeOK' BY DEF Roomy!TypeOK
<1>2. Roomy!CallsFollowStarts' BY DEF Roomy!TypeOK, Roomy!CallsFollowStarts
<1>3. Kept BY DEF Kept, Roomy!TypeOK, Roomy!Holding, Roomy!Waiting
<1> QED BY <1>1, <1>2, <1>3

(* The two counts of the audio advance together, or the call is over.      *)
LEMMA FrameReadKept ==
  ASSUME RoomsAssumption, Roomy!TypeOK, Roomy!CallsFollowStarts,
         NEW i \in Ids, NEW n \in 0..MaxSeq, Roomy!FrameRead(i, n)
  PROVE  Roomy!TypeOK' /\ Roomy!CallsFollowStarts' /\ Kept
<1> USE DEF Roomy!FrameRead
<1>0. /\ voice \in [Ids -> CallRecord] /\ voice[i] \in CallRecord
      /\ voice[i].state # "none" /\ n + 1 \in 0..MaxSeq + 1
  <2>1. voice \in [Ids -> CallRecord] /\ voice[i] \in CallRecord
    BY DEF Roomy!TypeOK, CallRecord
  <2>2. voice[i].state # "none" BY DEF Roomy!CallsFollowStarts
  <2>3. n + 1 \in 0..MaxSeq + 1 BY DEF RoomsAssumption, Roomy!TrAssumption
  <2> QED BY <2>1, <2>2, <2>3
<1>1. /\ voice' \in [Ids -> CallRecord] /\ told' \subseteq Ids
      /\ \A j \in Ids \ {i} : voice'[j] = voice[j]
      /\ voice'[i].state = voice[i].state \/ voice'[i].state = "closed"
      /\ voice'[i].state # "closed" => voice'[i].forwarded = voice'[i].nextSeq
      /\ voice'[i].forwarded > voice[i].forwarded => voice[i].state = "open"
      /\ \A j \in Ids : voice[j].forwarded \in Int
  <2>0. \A j \in Ids : voice[j].forwarded \in Int
    BY DEF Roomy!TypeOK
  <2>1. CASE UNCHANGED <<voice, told>>
    BY <1>0, <2>0, <2>1 DEF Roomy!TypeOK, Roomy!CallsFollowStarts
  <2>2. CASE /\ n = voice[i].nextSeq /\ voice[i].state = "open" /\ UNCHANGED told
             /\ voice' = [voice EXCEPT ![i].nextSeq = @ + 1, ![i].forwarded = @ + 1]
    <3> DEFINE c == [voice[i] EXCEPT !.nextSeq = n + 1, !.forwarded = n + 1]
    <3>1. voice[i].forwarded = n BY <2>2 DEF Roomy!CallsFollowStarts
    <3>2. voice' = [voice EXCEPT ![i] = c] BY <2>2, <3>1, <1>0 DEF CallRecord
    <3>3. c \in CallRecord /\ c.state = "open" /\ c.forwarded = c.nextSeq
      BY <1>0, <2>2, CallUpdates DEF CallRecord
    <3>4. told' \subseteq Ids BY <2>2 DEF Roomy!TypeOK
    <3> HIDE DEF c
    <3> QED BY <1>0, <2>0, <2>2, <3>2, <3>3, <3>4, CallChanged
  <2>3. CASE /\ n = voice[i].nextSeq
             /\ voice' = [Roomy!Disposed({i}) EXCEPT ![i].nextSeq = @ + 1]
             /\ told' = told \cup ({i} \cap Roomy!Registered)
    <3> DEFINE b == Roomy!Disposed({i})[i]
               c == [b EXCEPT !.nextSeq = n + 1]
    <3>1. /\ b \in CallRecord /\ b.state = "closed" /\ b.nextSeq = n
          /\ b.forwarded = voice[i].forwarded
          /\ \A j \in Ids \ {i} : Roomy!Disposed({i})[j] = voice[j]
      <4>1. b = IF voice[i].state \in {"connecting", "open"}
                THEN [voice[i] EXCEPT !.state = "closed", !.pending = 0] ELSE voice[i]
        BY DEF Roomy!Disposed, Roomy!Registered
      <4>2. b \in CallRecord BY <1>0, <4>1, CallUpdates
      <4>3. b.state = "closed" /\ b.nextSeq = n /\ b.forwarded = voice[i].forwarded
        BY <1>0, <2>3, <4>1 DEF CallRecord
      <4>4. \A j \in Ids \ {i} : Roomy!Disposed({i})[j] = voice[j]
        BY DEF Roomy!Disposed
      <4> QED BY <4>2, <4>3, <4>4
    <3>2. voice' = [j \in Ids |-> IF j = i THEN c ELSE voice[j]]
      <4> DEFINE d == Roomy!Disposed({i})
      <4>1. d = [j \in Ids |-> d[j]] BY DEF Roomy!Disposed
      <4>2. voice' = [d EXCEPT ![i].nextSeq = @ + 1] BY <2>3
      <4>3. d[i].nextSeq = n /\ \A j \in Ids \ {i} : d[j] = voice[j] BY <3>1
      <4> HIDE DEF d
      <4>4. voice' = [d EXCEPT ![i] = [d[i] EXCEPT !.nextSeq = n + 1]]
        BY <4>2, <4>3
      <4>5. voice' = [j \in Ids |-> IF j = i THEN [d[i] EXCEPT !.nextSeq = n + 1] ELSE voice[j]]
        BY <4>1, <4>3, <4>4
      <4> QED BY <4>5 DEF d
    <3>3. c \in CallRecord /\ c.state = "closed" /\ c.forwarded = voice[i].forwarded
      <4> HIDE DEF b
      <4> QED BY <1>0, <3>1, CallUpdate DEF CallRecord
    <3>4. told' \subseteq Ids BY <2>3 DEF Roomy!TypeOK
    <3> HIDE DEF c
    <3> QED BY <1>0, <2>0, <3>2, <3>3, <3>4
  <2> QED BY <2>1, <2>2, <2>3
<1>2. Roomy!TypeOK'
  BY <1>1 DEF Roomy!TypeOK, CallRecord
<1>3. Roomy!CallsFollowStarts'
  BY <1>0, <1>1 DEF Roomy!TypeOK, Roomy!CallsFollowStarts
<1>4. Kept
  BY <1>0, <1>1 DEF Kept, Roomy!Holding, Roomy!Waiting, Roomy!Registered
<1> QED BY <1>2, <1>3, <1>4

LEMMA CloseTirociniumCallsKept ==
  ASSUME RoomsAssumption, Roomy!TypeOK, Roomy!CallsFollowStarts, Roomy!CloseTirociniumCalls
  PROVE  Roomy!TypeOK' /\ Roomy!CallsFollowStarts' /\ Kept
<1> USE DisposeEffect DEF Roomy!CloseTirociniumCalls
<1>1. Roomy!TypeOK' BY DEF Roomy!TypeOK, CallRecord
<1>2. Roomy!CallsFollowStarts' BY DEF Roomy!TypeOK, Roomy!CallsFollowStarts
<1>3. Kept BY DEF Kept, Roomy!TypeOK, Roomy!Holding, Roomy!Waiting, Roomy!Registered
<1> QED BY <1>1, <1>2, <1>3

(* A start touches no call.                                                *)
LEMMA StartTyped ==
  ASSUME Roomy!TypeOK, Roomy!CallsFollowStarts, NEW i \in Ids, NEW u \in Users, at[i] = "none",
         at' = [at EXCEPT ![i] = "session"], user' = [user EXCEPT ![i] = u],
         UNCHANGED <<aborted, voice, posts, session, told>>
  PROVE  Roomy!TypeOK' /\ Roomy!CallsFollowStarts'
<1>1. Roomy!TypeOK' BY DEF Roomy!TypeOK, Roomy!Awaits
<1>2. Roomy!CallsFollowStarts' BY DEF Roomy!TypeOK, Roomy!CallsFollowStarts
<1> QED BY <1>1, <1>2

-----------------------------------------------------------------------------
(* But for the tests of a start the steps of the two rooms are the same.   *)
StepsOfCalls ==
  \/ \E i \in Ids :
       \/ Roomy!Abort(i) \/ Roomy!SessionRefused(i) \/ Roomy!SessionCreated(i)
       \/ Roomy!MaterialAnswer(i) \/ Roomy!TicketRefused(i) \/ Roomy!TicketGranted(i)
       \/ Roomy!SetupReady(i) \/ Roomy!SetupRejected(i) \/ Roomy!Cleanup(i)
       \/ Roomy!UpstreamOpen(i) \/ Roomy!UpstreamEvent(i) \/ Roomy!UpstreamGone(i)
       \/ Roomy!Attach(i) \/ Roomy!BrowserEnds(i) \/ Roomy!TimerFires(i)
       \/ \E n \in 0..MaxSeq : Roomy!PostFrame(i, n) \/ Roomy!FrameRead(i, n)
  \/ Roomy!CloseTirociniumCalls

LEMMA StepsOfRoomy ==
  Roomy!Next => StepsOfCalls \/ \E i \in Ids, u \in Users : Roomy!Start(i, u)
BY DEF Roomy!Next, StepsOfCalls

LEMMA StepsOfFull ==
  Full!Next => StepsOfCalls \/ \E i \in Ids, u \in Users : Full!Start(i, u)
<1> USE DEF Full!Goto, Full!Dispose, Full!Disposed, Full!Registered, Full!Listened, Full!Handed,
            Full!Awaits, Roomy!Goto, Roomy!Dispose, Roomy!Disposed, Roomy!Registered,
            Roomy!Listened, Roomy!Handed, Roomy!Awaits
<1>1. ASSUME NEW i \in Ids
      PROVE  /\ Full!Abort(i) => Roomy!Abort(i)
             /\ Full!SessionRefused(i) => Roomy!SessionRefused(i)
             /\ Full!SessionCreated(i) => Roomy!SessionCreated(i)
             /\ Full!MaterialAnswer(i) => Roomy!MaterialAnswer(i)
             /\ Full!TicketRefused(i) => Roomy!TicketRefused(i)
             /\ Full!TicketGranted(i) => Roomy!TicketGranted(i)
             /\ Full!SetupReady(i) => Roomy!SetupReady(i)
             /\ Full!SetupRejected(i) => Roomy!SetupRejected(i)
             /\ Full!Cleanup(i) => Roomy!Cleanup(i)
  BY DEF Full!Abort, Full!SessionRefused, Full!SessionCreated, Full!MaterialAnswer,
         Full!TicketRefused, Full!TicketGranted, Full!SetupReady, Full!SetupRejected, Full!Cleanup,
         Roomy!Abort, Roomy!SessionRefused, Roomy!SessionCreated, Roomy!MaterialAnswer,
         Roomy!TicketRefused, Roomy!TicketGranted, Roomy!SetupReady, Roomy!SetupRejected,
         Roomy!Cleanup
<1>2. ASSUME NEW i \in Ids
      PROVE  /\ Full!UpstreamOpen(i) => Roomy!UpstreamOpen(i)
             /\ Full!UpstreamEvent(i) => Roomy!UpstreamEvent(i)
             /\ Full!UpstreamGone(i) => Roomy!UpstreamGone(i)
             /\ Full!Attach(i) => Roomy!Attach(i)
             /\ Full!BrowserEnds(i) => Roomy!BrowserEnds(i)
             /\ Full!TimerFires(i) => Roomy!TimerFires(i)
  BY DEF Full!UpstreamOpen, Full!UpstreamEvent, Full!UpstreamGone, Full!Attach, Full!BrowserEnds,
         Full!TimerFires, Roomy!UpstreamOpen, Roomy!UpstreamEvent, Roomy!UpstreamGone,
         Roomy!Attach, Roomy!BrowserEnds, Roomy!TimerFires
<1>3. ASSUME NEW i \in Ids, NEW n \in 0..MaxSeq
      PROVE  /\ Full!PostFrame(i, n) => Roomy!PostFrame(i, n)
             /\ Full!FrameRead(i, n) => Roomy!FrameRead(i, n)
  BY DEF Full!PostFrame, Full!FrameRead, Roomy!PostFrame, Roomy!FrameRead
<1>4. Full!CloseTirociniumCalls => Roomy!CloseTirociniumCalls
  BY DEF Full!CloseTirociniumCalls, Roomy!CloseTirociniumCalls
<1> QED
  <2> HIDE DEF Full!Goto, Full!Dispose, Full!Disposed, Full!Registered, Full!Listened, Full!Handed,
            Full!Awaits, Roomy!Goto, Roomy!Dispose, Roomy!Disposed, Roomy!Registered,
            Roomy!Listened, Roomy!Handed, Roomy!Awaits
  <2> QED BY <1>1, <1>2, <1>3, <1>4 DEF Full!Next, StepsOfCalls

(* None of these steps takes a place.                                      *)
LEMMA StepsKept ==
  ASSUME RoomsAssumption, Roomy!TypeOK, Roomy!CallsFollowStarts, StepsOfCalls
  PROVE  Roomy!TypeOK' /\ Roomy!CallsFollowStarts' /\ Kept
BY AbortKept, SessionRefusedKept, SessionCreatedKept, MaterialAnswerKept,
   TicketRefusedKept, TicketGrantedKept, SetupReadyKept, SetupRejectedKept, CleanupKept,
   UpstreamOpenKept, UpstreamEventKept, UpstreamGoneKept, AttachKept, BrowserEndsKept,
   TimerFiresKept, PostFrameKept, FrameReadKept, CloseTirociniumCallsKept
   DEF StepsOfCalls

(* In a room of a given size: the places taken do not exceed it.           *)
Places(room) ==
  /\ IsFiniteSet(Roomy!Holding) /\ Cardinality(Roomy!Holding) <= room
  /\ \A i, j \in Roomy!Holding : user[i] = user[j] => i = j

LEMMA KeptPlaces ==
  ASSUME NEW room \in Nat, Places(room), Kept
  PROVE  Places(room)'
<1>1. IsFiniteSet(Roomy!Holding') /\ Cardinality(Roomy!Holding') <= Cardinality(Roomy!Holding)
  BY FS_Subset DEF Places, Kept
<1>2. Cardinality(Roomy!Holding) \in Nat /\ Cardinality(Roomy!Holding') \in Nat
  BY <1>1, FS_CardinalityType DEF Places
<1>3. Cardinality(Roomy!Holding') <= room
  BY <1>1, <1>2 DEF Places
<1>4. \A i, j \in Roomy!Holding' : user'[i] = user'[j] => i = j
  BY DEF Kept, Places
<1> QED BY <1>1, <1>3, <1>4 DEF Places

(* The tests of a start, which count a start that awaits by its user.      *)
LEMMA StartPlaces ==
  ASSUME NEW room \in Nat, Roomy!TypeOK, Places(room), NEW i \in Ids, NEW u \in Users,
         at' = [at EXCEPT ![i] = "session"], user' = [user EXCEPT ![i] = u], voice' = voice,
         u \notin Roomy!Starting, Roomy!CallsOf(u) = {},
         Cardinality(Roomy!Registered) + Cardinality(Roomy!Starting) < room
  PROVE  Places(room)'
<1>1. /\ Roomy!Registered' = Roomy!Registered
      /\ Roomy!Waiting' = Roomy!Waiting \cup {i}
  BY DEF Roomy!TypeOK, Roomy!Registered, Roomy!Waiting, Roomy!Awaits
<1>2. Roomy!Starting = {user[a] : a \in Roomy!Waiting}
  BY DEF Roomy!Starting, Roomy!Waiting
<1>3. /\ IsFiniteSet(Roomy!Waiting \cup {i} \cup Roomy!Registered)
      /\ Cardinality(Roomy!Waiting \cup {i} \cup Roomy!Registered) <= room
  BY <1>2, OnePlaceMore DEF Places, Roomy!Holding
<1>4. Roomy!Holding' = Roomy!Waiting \cup {i} \cup Roomy!Registered
  BY <1>1 DEF Roomy!Holding
<1>5. \A j \in Roomy!Holding : user[j] # u
  BY DEF Roomy!Holding, Roomy!Starting, Roomy!Waiting, Roomy!CallsOf
<1>6. \A j, k \in Roomy!Holding' : user'[j] = user'[k] => j = k
  <2>1. Roomy!Holding' = Roomy!Holding \cup {i} BY <1>4 DEF Roomy!Holding
  <2>2. \A j \in Roomy!Holding' : j # i => j \in Roomy!Holding /\ user'[j] = user[j]
    BY <2>1 DEF Roomy!TypeOK, Roomy!Holding, Roomy!Waiting, Roomy!Registered
  <2>3. user'[i] = u BY DEF Roomy!TypeOK
  <2> QED BY <1>5, <2>1, <2>2, <2>3 DEF Places
<1> QED BY <1>3, <1>4, <1>6 DEF Places

(* The invariant of the calls in a room of a given size.                   *)
CallsInv(room) == Roomy!TypeOK /\ Roomy!CallsFollowStarts /\ Places(room)

LEMMA CallsInitially ==
  ASSUME NEW room \in Nat, RoomsAssumption, Roomy!Init
  PROVE  CallsInv(room)
<1> USE DEF Roomy!Init, RoomsAssumption, Roomy!TrAssumption
<1>1. Roomy!TypeOK BY DEF Roomy!TypeOK, Roomy!NoCall
<1>2. Roomy!CallsFollowStarts BY DEF Roomy!CallsFollowStarts, Roomy!NoCall
<1>3. Roomy!Holding = {}
  BY DEF Roomy!Holding, Roomy!Waiting, Roomy!Registered, Roomy!Awaits, Roomy!NoCall
<1>4. Places(room) BY <1>3, FS_EmptySet DEF Places
<1> QED BY <1>1, <1>2, <1>4 DEF CallsInv

LEMMA RoomyKeeps ==
  ASSUME RoomsAssumption, CallsInv(Capacity), Roomy!Next
  PROVE  CallsInv(Capacity)'
<1>0. Capacity \in Nat BY DEF RoomsAssumption, Roomy!TrAssumption
<1>1. CASE StepsOfCalls
  BY <1>0, <1>1, StepsKept, KeptPlaces DEF CallsInv
<1>2. ASSUME NEW i \in Ids, NEW u \in Users, Roomy!Start(i, u)
      PROVE  CallsInv(Capacity)'
  BY <1>0, <1>2, StartTyped, StartPlaces, RoomCardinality DEF Roomy!Start, Roomy!MayStart, CallsInv
<1> QED BY <1>1, <1>2, StepsOfRoomy

LEMMA FullKeeps ==
  ASSUME RoomsAssumption, CallsInv(LessCapacity), Full!Next
  PROVE  CallsInv(LessCapacity)'
<1>0. LessCapacity \in Nat BY DEF RoomsAssumption, Full!TrAssumption
<1>1. CASE StepsOfCalls
  BY <1>0, <1>1, StepsKept, KeptPlaces DEF CallsInv
<1>2. ASSUME NEW i \in Ids, NEW u \in Users, Full!Start(i, u)
      PROVE  CallsInv(LessCapacity)'
  <2>1. /\ Full!Registered = Roomy!Registered /\ Full!Starting = Roomy!Starting
        /\ Full!CallsOf(u) = Roomy!CallsOf(u)
    BY DEF Full!Registered, Roomy!Registered, Full!Starting, Roomy!Starting, Full!CallsOf,
           Roomy!CallsOf, Full!Awaits, Roomy!Awaits
  <2> QED BY <1>0, <1>2, <2>1, StartTyped, StartPlaces, RoomCardinality
          DEF Full!Start, Full!MayStart, CallsInv
<1> QED BY <1>1, <1>2, StepsOfFull

(* What the places mean for the users.                                     *)
LEMMA PlacesMean ==
  ASSUME NEW room \in Nat, CallsInv(room)
  PROVE  /\ \A u \in Users : Cardinality(Roomy!CallsOf(u)) <= 1
         /\ Cardinality(Roomy!Registered) \in Nat /\ Cardinality(Roomy!Registered) <= room
<1>1. /\ IsFiniteSet(Roomy!Registered) /\ Cardinality(Roomy!Registered) \in Nat
      /\ Cardinality(Roomy!Registered) <= Cardinality(Roomy!Holding)
      /\ Cardinality(Roomy!Holding) \in Nat
  BY FS_Subset, FS_CardinalityType, Roomy!Registered \subseteq Roomy!Holding
     DEF CallsInv, Places, Roomy!Holding
<1>2. Cardinality(Roomy!Registered) <= room
  BY <1>1 DEF CallsInv, Places
<1>3. ASSUME NEW u \in Users PROVE Cardinality(Roomy!CallsOf(u)) <= 1
  <2>1. \A i, j \in Roomy!CallsOf(u) : i = j
    BY DEF CallsInv, Places, Roomy!CallsOf, Roomy!Holding
  <2>2. CASE Roomy!CallsOf(u) = {} BY <2>2, FS_EmptySet
  <2>3. CASE \E i : i \in Roomy!CallsOf(u)
    <3>1. PICK i : i \in Roomy!CallsOf(u) BY <2>3
    <3>2. Roomy!CallsOf(u) = {i} BY <2>1, <3>1
    <3> QED BY <3>2, FS_Singleton
  <2> QED BY <2>2, <2>3
<1> QED BY <1>1, <1>2, <1>3

-----------------------------------------------------------------------------
(* All parts: each moves its own variables, and at one capacity.           *)
RoomsInv ==
  /\ part # "full" => CallsInv(Capacity)
  /\ part = "full" => CallsInv(LessCapacity)

LEMMA RoomsStep == RoomsInv /\ [StreamsNext]_streamVars => RoomsInv'
<1> SUFFICES ASSUME RoomsInv, [StreamsNext]_streamVars PROVE RoomsInv' OBVIOUS
<1>1. part' = part BY DEF StreamsNext, streamVars
<1>2. ASSUME UNCHANGED callVars, NEW room, CallsInv(room) PROVE CallsInv(room)'
  BY <1>2 DEF callVars, CallsInv, Places, Roomy!TypeOK, Roomy!CallsFollowStarts, Roomy!Holding,
              Roomy!Waiting, Roomy!Registered, Roomy!Awaits
<1>3. CASE UNCHANGED callVars BY <1>1, <1>2, <1>3 DEF RoomsInv
<1>4. CASE part = "roomy" /\ Roomy!Next
  BY <1>1, <1>4, RoomyKeeps, RoomsAssumption DEF RoomsInv
<1>5. CASE part = "full" /\ Full!Next
  BY <1>1, <1>5, FullKeeps, RoomsAssumption DEF RoomsInv
<1> QED BY <1>3, <1>4, <1>5 DEF StreamsNext, streamVars

LEMMA RoomsInvariance == StreamsSpec => []RoomsInv
<1>1. StreamsInit => RoomsInv
  BY CallsInitially, RoomsAssumption DEF StreamsInit, RoomsInv, RoomsAssumption, Roomy!TrAssumption,
     Full!TrAssumption
<1> QED BY <1>1, RoomsStep, PTL DEF StreamsSpec

(* However many starts wait for Tr at the same time, a user has one call   *)
(* and the Hub no more than its capacity, whatever that is.                *)
THEOREM CallsCounted == StreamsSpec => []OneCallPerUserInEachRoom
<1>0. Capacity \in Nat /\ LessCapacity \in Nat /\ LessCapacity <= Capacity
  BY RoomsAssumption DEF RoomsAssumption, Roomy!TrAssumption, Full!TrAssumption
<1>1. ASSUME RoomsInv PROVE OneCallPerUserInEachRoom
  <2>1. /\ \A u \in Users : Cardinality(Roomy!CallsOf(u)) <= 1
        /\ Cardinality(Roomy!Registered) \in Nat /\ Cardinality(Roomy!Registered) <= Capacity
        /\ part = "full" => Cardinality(Roomy!Registered) <= LessCapacity
    BY <1>0, <1>1, PlacesMean DEF RoomsInv
  <2>2. Full!Registered = Roomy!Registered /\ \A u : Full!CallsOf(u) = Roomy!CallsOf(u)
    BY DEF Full!Registered, Roomy!Registered, Full!CallsOf, Roomy!CallsOf
  <2>3. Roomy!OneCallPerUser
    BY <2>1, RoomCardinality DEF Roomy!OneCallPerUser
  <2>4. part = "full" => Full!OneCallPerUser
    BY <2>1, <2>2, RoomCardinality DEF Full!OneCallPerUser
  <2> QED BY <2>3, <2>4 DEF OneCallPerUserInEachRoom
<1> QED BY <1>1, RoomsInvariance, PTL

(* Tr receives the audio of a call without a gap or a repetition, and none *)
(* of a call that was disposed of.                                         *)
THEOREM AudioKept == StreamsSpec => AudioIsOfTheCall
<1>1. ASSUME RoomsInv PROVE Roomy!AudioIsContiguous
  BY <1>1 DEF RoomsInv, CallsInv, Roomy!CallsFollowStarts, Roomy!AudioIsContiguous, Roomy!Registered
<1> DEFINE A == \A i \in Ids :
                  voice'[i].forwarded > voice[i].forwarded => i \in Roomy!Registered
<1>2. ASSUME RoomsInv, StreamsNext PROVE A \/ UNCHANGED Roomy!vars
  <2>1. CASE UNCHANGED callVars BY <2>1 DEF callVars, Roomy!vars
  <2>2. CASE StepsOfCalls
    BY <1>2, <2>2, StepsKept, RoomsAssumption DEF RoomsInv, CallsInv, Kept
  <2>3. CASE \E i \in Ids, u \in Users : Roomy!Start(i, u) \/ Full!Start(i, u)
    <3>1. voice' = voice BY <2>3 DEF Roomy!Start, Full!Start
    <3>2. \A i \in Ids : voice[i].forwarded \in Int
      BY <1>2 DEF RoomsInv, CallsInv, Roomy!TypeOK
    <3> QED BY <3>1, <3>2
  <2> QED BY <1>2, <2>1, <2>2, <2>3, StepsOfRoomy, StepsOfFull DEF StreamsNext
<1>3. RoomsInv /\ [StreamsNext]_streamVars => [A]_(Roomy!vars)
  BY <1>2 DEF streamVars, callVars, Roomy!vars
<1> QED BY <1>1, <1>3, RoomsInvariance, PTL
     DEF StreamsSpec, AudioIsOfTheCall, Roomy!AudioIsOfTheCall, Roomy!NothingAfterDispose

-----------------------------------------------------------------------------
(* The shell.                                                              *)
LEMMA ShellStep ==
  ASSUME Shell!ShellAssumption, Shell!Inv, Shell!Next
  PROVE  /\ Shell!Inv'
         /\ main'.of \in Teams /\ main' # main => main' = selected /\ Shell!Visible
<1> USE DEF Shell!ShellAssumption, Shell!Inv, Shell!TypeOK, Shell!LoadsAreOfClicks,
            Shell!TrackedIsSelected, Shell!Nothing, Shell!MayClick, Shell!Visible
<1>1. CASE Shell!Boot BY <1>1 DEF Shell!Boot
<1>2. CASE Shell!ClickBeside BY <1>2 DEF Shell!ClickBeside
<1>3. CASE Shell!Changed BY <1>3 DEF Shell!Changed
<1>4. CASE Shell!Logout \/ Shell!ShowLogin BY <1>4 DEF Shell!Logout, Shell!ShowLogin
<1>5. ASSUME NEW t \in Tabs, Shell!Activate(t)
      PROVE  /\ Shell!Inv'
             /\ main'.of \in Teams /\ main' # main => main' = selected /\ Shell!Visible
  BY <1>5 DEF Shell!Activate
<1>6. ASSUME NEW team \in Teams, Shell!OpenTeam(team)
      PROVE  /\ Shell!Inv'
             /\ main'.of \in Teams /\ main' # main => main' = selected /\ Shell!Visible
  BY <1>6 DEF Shell!OpenTeam
<1>7. ASSUME NEW load \in loads, Shell!DrawPanel(load)
      PROVE  /\ Shell!Inv'
             /\ main'.of \in Teams /\ main' # main => main' = selected /\ Shell!Visible
  BY <1>7 DEF Shell!DrawPanel
<1>8. ASSUME NEW load \in loads, Shell!DrawTeam(load)
      PROVE  /\ Shell!Inv'
             /\ main'.of \in Teams /\ main' # main => main' = selected /\ Shell!Visible
  BY <1>8 DEF Shell!DrawTeam
<1> QED BY <1>1, <1>2, <1>3, <1>4, <1>5, <1>6, <1>7, <1>8 DEF Shell!Next

(* A team is drawn for the last selection only, and never after the logout;*)
(* the panel that is redrawn on a change is the one selected.              *)
THEOREM TeamsKept == StreamsSpec => LateTeamsAreDiscarded
<1> DEFINE A == main'.of \in Teams /\ main' # main => main' = selected /\ Shell!Visible
<1>1. StreamsInit => Shell!Inv
  BY ShellAssumption DEF Shell!ShellAssumption, StreamsInit, Shell!Init, Shell!Inv, Shell!TypeOK, Shell!LoadsAreOfClicks,
         Shell!TrackedIsSelected, Shell!Nothing
<1>2. ASSUME Shell!Inv, UNCHANGED shellVars PROVE Shell!Inv'
  BY <1>2 DEF shellVars, Shell!Inv, Shell!TypeOK, Shell!LoadsAreOfClicks, Shell!TrackedIsSelected
<1>3. ASSUME Shell!Inv, [StreamsNext]_streamVars PROVE Shell!Inv' /\ [A]_(Shell!vars)
  <2>1. CASE UNCHANGED shellVars BY <1>2, <1>3, <2>1 DEF shellVars, Shell!vars
  <2>2. CASE Shell!Next BY <1>3, <2>2, ShellStep, ShellAssumption
  <2> QED BY <1>3, <2>1, <2>2 DEF StreamsNext, streamVars
<1>4. Shell!Inv => Shell!TrackedIsSelected BY DEF Shell!Inv
<1> QED BY <1>1, <1>3, <1>4, PTL
     DEF StreamsSpec, LateTeamsAreDiscarded, Shell!LateTeamsAreDiscarded, Shell!TrackedIsSelected

-----------------------------------------------------------------------------
(* To the client a step of the streams is one of its own, or none.         *)
LEMMA ClientIsPart == StreamsSpec => Spec
<1>1. StreamsInit => Init BY DEF StreamsInit
<1>2. [StreamsNext]_streamVars => [Next]_vars BY DEF StreamsNext, streamVars, clientVars
<1> QED BY <1>1, <1>2, PTL DEF StreamsSpec, Spec

(* Whatever part is explored, what the run checks of it holds: the client  *)
(* of Cernere, the calls of both rooms, the teams of the shell.            *)
THEOREM StreamsHold ==
  StreamsSpec => /\ [](LiveSocketIsCurrent /\ OneCallPerUserInEachRoom)
                 /\ RefinesContract /\ OnlyCurrentConnectionAnswers
                 /\ LossIsConfinedToTheSocket
                 /\ AudioIsOfTheCall /\ LateTeamsAreDiscarded
BY ClientIsPart, NoLeakedConnection, Refinement, CurrentConnectionAnswers, LossIsConfined,
   CallsCounted, AudioKept, TeamsKept, PTL
=============================================================================
