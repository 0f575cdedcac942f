---------------------------- MODULE CernereClient ----------------------------
(***************************************************************************)
(* plugins/cernere/project-client.ts: one authenticated WebSocket shared   *)
(* by every caller of the Hub process.  A caller first waits for           *)
(* ensureConnected(), which shares one connect() (token login, then the    *)
(* `connected' handshake) among all callers; its request is then entered   *)
(* in the pending map until a reply, its own timer, the loss of the socket *)
(* or close() settles it.                                                  *)
(*                                                                         *)
(* JavaScript runs a handler and the microtasks it resolves without        *)
(* interruption: the callers that wait for connectPromise are resumed in   *)
(* the step that settles the handshake.                                    *)
(***************************************************************************)
EXTENDS Naturals, FiniteSets

CONSTANTS
  Calls,       \* callers of getUserData / setUserData / call
  Sockets,     \* WebSocket objects the process may create (bounds reconnects)
  ReplyTypes,  \* `type' of the replies Cernere sends for a request_id
  None

ASSUME NoneAssumption == None \notin Sockets

VARIABLES
  closed,      \* close() was called
  phase,       \* progress of connect(): connectPromise is set unless "idle"
  ws,          \* this.ws
  sock,        \* readyState of every socket created
  hand,        \* the handshake of a socket: `settled' is hand # "waiting"
  call,        \* where each caller is
  via          \* the socket a request was last sent on

vars == <<closed, phase, ws, sock, hand, call, via>>

Live == {"connecting", "open"}
Active == {"connecting", "open", "closing"}
Settled == {"ok", "failed", "orphaned"}

SocketReady == ws # None /\ sock[ws] = "open"

Joining == {c \in Calls : call[c] = "joining"}
Pending == {c \in Calls : call[c] = "pending"}

Init ==
  /\ closed = FALSE
  /\ phase = "idle"
  /\ ws = None
  /\ sock = [s \in Sockets |-> "unused"]
  /\ hand = [s \in Sockets |-> "none"]
  /\ call = [c \in Calls |-> "idle"]
  /\ via = [c \in Calls |-> None]

-----------------------------------------------------------------------------
(* Settling callers *)

Fail(C) == call' = [c \in Calls |-> IF c \in C THEN "failed" ELSE call[c]]

(* The rest of request() for the callers C: ws.send may throw for some.    *)
Send(C, s) ==
  \E thrown \in SUBSET C :
    /\ call' = [c \in Calls |->
                  IF c \in thrown THEN "failed"
                  ELSE IF c \in C THEN "pending" ELSE call[c]]
    /\ via' = [c \in Calls |-> IF c \in C \ thrown THEN s ELSE via[c]]

-----------------------------------------------------------------------------
(* Callers *)

(* ensureConnected: while connectPromise is set every caller waits for it, *)
(* even if the socket of the handshake is already open.                    *)
MaySend == phase = "idle" /\ SocketReady

RequestAfterClose(c) ==   \* mutant: no test of `closed'
  /\ call[c] = "idle"
  /\ phase' = IF phase = "idle" THEN "login" ELSE phase
  /\ call' = [call EXCEPT ![c] = "joining"]
  /\ UNCHANGED <<closed, ws, sock, hand, via>>

Request(c) ==
  /\ call[c] = "idle"
  /\ \/ /\ closed
        /\ Fail({c})
        /\ UNCHANGED <<phase, via>>
     \/ /\ ~closed /\ MaySend
        /\ Send({c}, ws)
        /\ UNCHANGED phase
     \/ /\ ~closed /\ ~MaySend
        /\ phase' = IF phase = "idle" THEN "login" ELSE phase
        /\ call' = [call EXCEPT ![c] = "joining"]
        /\ UNCHANGED via
  /\ UNCHANGED <<closed, ws, sock, hand>>

(* The caller has its answer and may come back with another request.       *)
Return(c) ==
  /\ call[c] \in {"ok", "failed"}
  /\ call' = [call EXCEPT ![c] = "idle"]
  /\ UNCHANGED <<closed, phase, ws, sock, hand, via>>

RequestTimeoutOfCurrent(c) ==   \* mutant: timers die with the socket
  /\ call[c] = "pending" /\ via[c] = ws
  /\ Fail({c})
  /\ UNCHANGED <<closed, phase, ws, sock, hand, via>>

RequestTimeout(c) ==
  /\ call[c] = "pending"
  /\ Fail({c})
  /\ UNCHANGED <<closed, phase, ws, sock, hand, via>>

-----------------------------------------------------------------------------
(* connect() *)

LoginFail ==
  /\ phase = "login"
  /\ phase' = "idle"
  /\ Fail(Joining)
  /\ UNCHANGED <<closed, ws, sock, hand, via>>

LoginOk(s) ==
  /\ phase = "login"
  /\ ~closed
  /\ sock[s] = "unused"
  /\ phase' = "handshake"
  /\ ws' = s
  /\ sock' = [sock EXCEPT ![s] = "connecting"]
  /\ hand' = [hand EXCEPT ![s] = "waiting"]
  /\ UNCHANGED <<closed, call, via>>

Connected(s) ==
  /\ ~closed /\ ws = s
  /\ sock[s] \in {"open", "closing"}
  /\ hand[s] = "waiting"
  /\ hand' = [hand EXCEPT ![s] = "ok"]
  /\ phase' = "idle"
  /\ IF sock[s] = "open"
     THEN Send(Joining, s)
     ELSE Fail(Joining) /\ UNCHANGED via
  /\ UNCHANGED <<closed, ws, sock>>

(* The connect() of socket s fails if its handshake is still open.         *)
GiveUp(s) ==
  IF hand[s] = "waiting"
  THEN /\ hand' = [hand EXCEPT ![s] = "failed"]
       /\ phase' = "idle"
  ELSE UNCHANGED <<hand, phase>>

HandshakeTimeoutLeaks(s) ==   \* mutant: the socket is not closed
  /\ hand[s] = "waiting"
  /\ GiveUp(s)
  /\ ws' = IF ws = s THEN None ELSE ws
  /\ Fail(Joining)
  /\ UNCHANGED <<closed, sock, via>>

HandshakeTimeout(s) ==
  /\ hand[s] = "waiting"
  /\ GiveUp(s)
  /\ ws' = IF ws = s THEN None ELSE ws
  /\ sock' = [sock EXCEPT ![s] = "closing"]
  /\ Fail(Joining)
  /\ UNCHANGED <<closed, via>>

-----------------------------------------------------------------------------
(* Socket events *)

SocketOpen(s) ==
  /\ sock[s] = "connecting"
  /\ sock' = [sock EXCEPT ![s] = "open"]
  /\ UNCHANGED <<closed, phase, ws, hand, call, via>>

(* The peer or the network starts to close: readyState is no longer OPEN.  *)
PeerClosing(s) ==
  /\ sock[s] = "open"
  /\ sock' = [sock EXCEPT ![s] = "closing"]
  /\ UNCHANGED <<closed, phase, ws, hand, call, via>>

(* A reply on the socket the request went out on; onmessage drops it when  *)
(* the socket is no longer this.ws.                                        *)
ReplyFromAnySocket(c, type) ==   \* mutant: no `this.ws !== ws'
  /\ call[c] = "pending"
  /\ sock[via[c]] \in {"open", "closing"}
  /\ call' = [call EXCEPT ![c] = IF type = "error" THEN "failed" ELSE "ok"]
  /\ UNCHANGED <<closed, phase, ws, sock, hand, via>>

Reply(c, type) ==
  /\ call[c] = "pending"
  /\ sock[via[c]] \in {"open", "closing"}
  /\ ~closed /\ ws = via[c]
  /\ call' = [call EXCEPT ![c] = CASE type = "module_response" -> "ok"
                                   [] type = "error" -> "failed"
                                   [] OTHER -> "orphaned"]
  /\ UNCHANGED <<closed, phase, ws, sock, hand, via>>

SocketError(s) ==
  /\ sock[s] \in Active
  /\ sock' = [sock EXCEPT ![s] = "closing"]
  /\ GiveUp(s)
  /\ IF hand[s] = "waiting"
     THEN ws' = None /\ Fail(Joining)
     ELSE UNCHANGED <<ws, call>>
  /\ UNCHANGED <<closed, via>>

SocketClosedRejectsAll(s) ==   \* mutant: rejectPending whatever the socket
  /\ sock[s] \in Active
  /\ sock' = [sock EXCEPT ![s] = "closed"]
  /\ GiveUp(s)
  /\ ws' = IF ws = s THEN None ELSE ws
  /\ Fail(Pending \cup (IF hand[s] = "waiting" THEN Joining ELSE {}))
  /\ UNCHANGED <<closed, via>>

SocketClosed(s) ==
  /\ sock[s] \in Active
  /\ sock' = [sock EXCEPT ![s] = "closed"]
  /\ GiveUp(s)
  /\ ws' = IF ws = s THEN None ELSE ws
  /\ Fail((IF ws = s THEN Pending ELSE {}) \cup
          (IF hand[s] = "waiting" THEN Joining ELSE {}))
  /\ UNCHANGED <<closed, via>>

(* close(): a login in flight is aborted and rejects its callers later.    *)
Close ==
  /\ ~closed
  /\ closed' = TRUE
  /\ ws' = None
  /\ IF ws = None
     THEN Fail(Pending) /\ UNCHANGED <<sock, hand, phase>>
     ELSE /\ sock' = [sock EXCEPT ![ws] = "closing"]
          /\ GiveUp(ws)
          /\ Fail(Pending \cup (IF hand[ws] = "waiting" THEN Joining ELSE {}))
  /\ UNCHANGED via

-----------------------------------------------------------------------------
Next ==
  \/ \E c \in Calls : Request(c)
  \/ \E c \in Calls : Return(c)
  \/ \E c \in Calls : RequestTimeout(c)
  \/ \E c \in Calls, type \in ReplyTypes : Reply(c, type)
  \/ LoginFail
  \/ \E s \in Sockets : LoginOk(s)
  \/ \E s \in Sockets : Connected(s)
  \/ \E s \in Sockets : HandshakeTimeout(s)
  \/ \E s \in Sockets : SocketOpen(s)
  \/ \E s \in Sockets : PeerClosing(s)
  \/ \E s \in Sockets : SocketError(s)
  \/ \E s \in Sockets : SocketClosed(s)
  \/ Close

(* Only what a timer of the process guarantees: the login is given         *)
(* AbortSignal.timeout, the handshake and each request a setTimeout.       *)
Fairness ==
  /\ WF_vars(LoginFail)
  /\ \A s \in Sockets : WF_vars(HandshakeTimeout(s))
  /\ \A c \in Calls : WF_vars(RequestTimeout(c))

Spec == Init /\ [][Next]_vars /\ Fairness

-----------------------------------------------------------------------------
(* Every variable keeps its range. *)
TypeOK ==
  /\ closed \in BOOLEAN
  /\ phase \in {"idle", "login", "handshake"}
  /\ ws \in Sockets \cup {None}
  /\ sock \in [Sockets -> {"unused", "connecting", "open", "closing", "closed"}]
  /\ hand \in [Sockets -> {"none", "waiting", "ok", "failed"}]
  /\ call \in [Calls -> {"idle", "joining", "pending"} \cup Settled]
  /\ via \in [Calls -> Sockets \cup {None}]

(* No connection leaks: a socket that is connecting or open is the one the *)
(* client still refers to, so at most one is live and close() ends it.     *)
LiveSocketIsCurrent == \A s \in Sockets : sock[s] \in Live => ws = s

(* A request is only outstanding on a socket whose handshake succeeded:    *)
(* ensureConnected never lets a caller through before `connected'.         *)
PendingIsAuthenticated == \A c \in Pending : via[c] # None /\ hand[via[c]] = "ok"

(* A caller that waits in ensureConnected always has a connect() in        *)
(* progress that will resume it: no settling path forgets the joiners.     *)
JoinersHaveAConnect == Joining # {} => phase # "idle"

(* After close() nothing is outstanding but a login being aborted.         *)
ClosedHoldsNothing ==
  closed => /\ ws = None
            /\ Pending = {}
            /\ phase # "handshake"
            /\ \A s \in Sockets : sock[s] \notin Live

-----------------------------------------------------------------------------
(* What makes these inductive.  The one open handshake belongs to the      *)
(* connect() in progress; a socket is live only before its handshake       *)
(* failed; a new login starts only when the current socket is not live.    *)
HandshakeIsCurrent ==
  /\ \A s \in Sockets : hand[s] = "waiting" => ws = s /\ phase = "handshake"
  /\ phase = "handshake" => ws # None /\ hand[ws] = "waiting"

HandshakeMatchesSocket ==
  /\ ws # None => sock[ws] # "unused"
  /\ \A s \in Sockets :
       /\ sock[s] = "unused" <=> hand[s] = "none"
       /\ hand[s] = "waiting" => sock[s] \in Active
       /\ hand[s] = "ok" => sock[s] # "connecting"
       /\ hand[s] = "failed" => sock[s] \in {"closing", "closed"}

LoginHasNoSocket == phase = "login" => ws = None \/ sock[ws] \notin Live

Inv ==
  /\ TypeOK
  /\ LiveSocketIsCurrent
  /\ PendingIsAuthenticated
  /\ JoinersHaveAConnect
  /\ ClosedHoldsNothing
  /\ HandshakeIsCurrent
  /\ HandshakeMatchesSocket
  /\ LoginHasNoSocket

(* A reply is accepted only from the current connection: the answer of a   *)
(* superseded or closed connection never reaches a caller.                 *)
OnlyCurrentConnectionAnswers ==
  [][\A c \in Calls :
       call[c] = "pending" /\ call'[c] = "ok" => ~closed /\ via[c] = ws]_vars

(* While the connection a request went out on stays the current one, the   *)
(* events of other sockets settle nothing: in one step at most one of its  *)
(* requests ends (by its own reply or timer).                              *)
LossIsConfinedToTheSocket ==
  [][ws # None /\ ws' = ws =>
       Cardinality({c \in Calls : call[c] = "pending" /\ via[c] = ws
                                  /\ call'[c] # "pending"}) <= 1]_vars

(* To its callers the client is a RequestContract: answers come at most    *)
(* once and never after close(), and a closed client refuses at once.      *)
Seen == [c \in Calls |-> IF call[c] \in {"joining", "pending", "orphaned"}
                         THEN "waiting" ELSE call[c]]

Contract == INSTANCE RequestContract WITH request <- Seen

RefinesContract == Contract!Init /\ [][Contract!Next]_(Contract!vars)

(* Every caller is answered or rejected, whatever the socket does and      *)
(* whenever the client is closed, as long as Cernere replies with the two  *)
(* types the client knows.                                                 *)
EveryCallSettles ==
  \A c \in Calls :
    call[c] \in {"joining", "pending"} ~> call[c] \in {"ok", "failed"}
=============================================================================
