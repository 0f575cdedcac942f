------------------------------- MODULE TrCalls -------------------------------
(***************************************************************************)
(* plugins/tirocinium/call-routes.ts: voice calls between a browser and    *)
(* Tirocinium (Tr).  POST / creates a Tr session, submits the material,    *)
(* fetches a ticket, registers the call and waits for session_ready; every *)
(* await is a step in which the browser may leave.  A registered call then *)
(* lives until one of its timers, its sockets or its owner disposes of it. *)
(*                                                                         *)
(* An id stands for one start: the Tr session, and later the call, of it.  *)
(***************************************************************************)
EXTENDS Naturals, FiniteSets

CONSTANTS
  Users,
  Ids,         \* starts (bounds their number)
  Capacity,    \* 32 in the code
  MaxPending,  \* events kept for a stream not yet attached: 128 in the code
  MaxSeq,      \* bounds the audio frames a browser sends
  None

TrAssumption ==
  Capacity \in Nat /\ MaxPending \in Nat /\ MaxSeq \in Nat /\ None \notin Ids \cup Users

VARIABLES
  at,        \* where the start of an id is: the await it is in, or how it ended
  user,      \* who started it
  aborted,   \* the browser left that request
  call,      \* the Call object
  posts,     \* frame posts <<id, seq>> whose owner was checked, body being read
  session,   \* ids whose Tr session the Hub knows
  told       \* ids for which /end was sent to Tr

vars == <<at, user, aborted, call, posts, session, told>>

Awaits == {"session", "material", "ticket", "setup", "cleanup"}

NoCall == [state |-> "none", attached |-> FALSE, pending |-> 0,
           nextSeq |-> 0, forwarded |-> 0]

Starting == {user[i] : i \in {j \in Ids : at[j] \in Awaits}}   \* the starting set
Registered == {i \in Ids : call[i].state \in {"connecting", "open"}}   \* the calls map
CallsOf(u) == {i \in Registered : user[i] = u}

(* POST / answered 200 with the call's id: its owner may now use it.       *)
Handed == {i \in Registered : at[i] = "answered"}

TypeOK ==
  /\ at \in [Ids -> Awaits \cup {"none", "answered", "failed"}]
  /\ user \in [Ids -> Users \cup {None}]
  /\ aborted \in [Ids -> BOOLEAN]
  /\ call \in [Ids -> [state : {"none", "connecting", "open", "closed"},
                       attached : BOOLEAN, pending : 0..MaxPending,
                       nextSeq : 0..MaxSeq + 1, forwarded : 0..MaxSeq + 1]]
  /\ posts \subseteq Ids \X (0..MaxSeq)
  /\ session \subseteq Ids
  /\ told \subseteq Ids

Init ==
  /\ at = [i \in Ids |-> "none"]
  /\ user = [i \in Ids |-> None]
  /\ aborted = [i \in Ids |-> FALSE]
  /\ call = [i \in Ids |-> NoCall]
  /\ posts = {}
  /\ session = {}
  /\ told = {}

-----------------------------------------------------------------------------
(* call.dispose() on each of D: out of the map, socket terminated, timers  *)
(* and buffers dropped, /end sent without waiting for its answer.          *)
Disposed(D) ==
  [i \in Ids |-> IF i \in D \cap Registered
                 THEN [call[i] EXCEPT !.state = "closed", !.pending = 0] ELSE call[i]]

DisposeSilently(D) ==   \* mutant: Tr is not told
  /\ call' = Disposed(D)
  /\ UNCHANGED told

Dispose(D) ==
  /\ call' = Disposed(D)
  /\ told' = told \cup (D \cap Registered)

-----------------------------------------------------------------------------
(* POST / *)

(* The tests of a new start.  `starting' holds the users between the tests *)
(* and the end of POST /; a registered call may be counted twice.          *)
MayStartCallsOnly(u) ==   \* mutant: `starting' is not consulted
  /\ CallsOf(u) = {}
  /\ Cardinality(Registered) < Capacity

MayStart(u) ==
  /\ u \notin Starting
  /\ CallsOf(u) = {}
  /\ Cardinality(Registered) + Cardinality(Starting) < Capacity

Start(i, u) ==
  /\ at[i] = "none"
  /\ MayStart(u)
  /\ at' = [at EXCEPT ![i] = "session"]
  /\ user' = [user EXCEPT ![i] = u]
  /\ UNCHANGED <<aborted, call, posts, session, told>>

(* The browser leaves during POST /.  The abort listener of a registered   *)
(* call disposes of it.                                                    *)
Abort(i) ==
  /\ at[i] \in Awaits /\ ~aborted[i]
  /\ aborted' = [aborted EXCEPT ![i] = TRUE]
  /\ Dispose({i})
  /\ UNCHANGED <<at, user, posts, session>>

Goto(i, place) == at' = [at EXCEPT ![i] = place]

(* No usable answer to the creation of the session: POST / returns.        *)
SessionRefused(i) ==
  /\ at[i] = "session"
  /\ Goto(i, "failed")
  /\ UNCHANGED <<user, aborted, call, posts, session, told>>

SessionCreated(i) ==
  /\ at[i] = "session"
  /\ session' = session \cup {i}
  /\ \E next \in {"material", "ticket"} : Goto(i, IF aborted[i] THEN "cleanup" ELSE next)
  /\ UNCHANGED <<user, aborted, call, posts, told>>

MaterialAnswer(i) ==
  /\ at[i] = "material"
  /\ \E ok \in BOOLEAN : Goto(i, IF ok /\ ~aborted[i] THEN "ticket" ELSE "cleanup")
  /\ UNCHANGED <<user, aborted, call, posts, session, told>>

TicketRefused(i) ==
  /\ at[i] = "ticket"
  /\ Goto(i, "cleanup")
  /\ UNCHANGED <<user, aborted, call, posts, session, told>>

(* The call is registered, its abort listener added and the request looked *)
(* at once more; an aborted one throws with the call still in the map.     *)
TicketGranted(i) ==
  /\ at[i] = "ticket"
  /\ call' = [call EXCEPT ![i].state = "connecting"]
  /\ Goto(i, IF aborted[i] THEN "cleanup" ELSE "setup")
  /\ UNCHANGED <<user, aborted, posts, session, told>>

(* session_ready answers POST / and is an event of the stream itself.      *)
SetupReady(i) ==
  /\ at[i] = "setup" /\ call[i].state = "open"
  /\ Goto(i, "answered")
  /\ IF call[i].pending < MaxPending
     THEN call' = [call EXCEPT ![i].pending = @ + 1] /\ UNCHANGED told
     ELSE Dispose({i})
  /\ UNCHANGED <<user, aborted, posts, session>>

(* The setup timer, or the `close' event of a disposed call.               *)
SetupRejected(i) ==
  /\ at[i] = "setup"
  /\ Goto(i, "cleanup")
  /\ Dispose({i})
  /\ UNCHANGED <<user, aborted, posts, session>>

(* catch and finally: the socket is terminated, Tr told, the user freed.   *)
Cleanup(i) ==
  /\ at[i] = "cleanup"
  /\ told' = told \cup {i}
  /\ Goto(i, "failed")
  /\ UNCHANGED <<user, aborted, call, posts, session>>

-----------------------------------------------------------------------------
(* The upstream socket; it is listened to from "setup" on.                 *)

Listened(i) == at[i] \in {"setup", "answered"}

UpstreamOpen(i) ==
  /\ call[i].state = "connecting" /\ Listened(i)
  /\ call' = [call EXCEPT ![i].state = "open"]
  /\ UNCHANGED <<at, user, aborted, posts, session, told>>

(* An event from Tr is buffered, streamed, or one too many.                *)
UpstreamEvent(i) ==
  /\ call[i].state = "open" /\ Listened(i)
  /\ \/ /\ ~call[i].attached /\ call[i].pending < MaxPending
        /\ call' = [call EXCEPT ![i].pending = @ + 1]
        /\ UNCHANGED told
     \/ /\ call[i].attached \/ call[i].pending = MaxPending
        /\ Dispose({i})
  /\ UNCHANGED <<at, user, aborted, posts, session>>

UpstreamGone(i) ==
  /\ i \in Registered /\ Listened(i)
  /\ Dispose({i})
  /\ UNCHANGED <<at, user, aborted, posts, session>>

-----------------------------------------------------------------------------
(* The browser, once POST / gave it the id *)

Attach(i) ==
  /\ i \in Handed /\ ~call[i].attached
  /\ call' = [call EXCEPT ![i].attached = TRUE, ![i].pending = 0]
  /\ UNCHANGED <<at, user, aborted, posts, session, told>>

(* DELETE, the rate limit, or the end of the stream it reads.              *)
BrowserEnds(i) ==
  /\ i \in Handed
  /\ Dispose({i})
  /\ UNCHANGED <<at, user, aborted, posts, session>>

PostFrame(i, n) ==
  /\ i \in Handed
  /\ posts' = posts \cup {<<i, n>>}
  /\ UNCHANGED <<at, user, aborted, call, session, told>>

FrameReadUnordered(i, n) ==   \* mutant: the sequence number is not compared
  /\ <<i, n>> \in posts
  /\ posts' = posts \ {<<i, n>>}
  /\ IF call[i].state = "open"
     THEN call' = [call EXCEPT ![i].nextSeq = n + 1, ![i].forwarded = @ + (IF @ = n THEN 1 ELSE 0)]
     ELSE UNCHANGED call
  /\ UNCHANGED <<at, user, aborted, session, told>>

FrameReadUnchecked(i, n) ==   \* mutant: readyState is not looked at
  /\ <<i, n>> \in posts
  /\ posts' = posts \ {<<i, n>>}
  /\ IF n = call[i].nextSeq
     THEN call' = [call EXCEPT ![i].nextSeq = @ + 1, ![i].forwarded = @ + 1]
     ELSE UNCHANGED call
  /\ UNCHANGED <<at, user, aborted, session, told>>

(* The body is read; the call may have been disposed of meanwhile.  The    *)
(* number advances before the socket is looked at.  A body that is too     *)
(* long, late or invalid is refused and changes nothing.                   *)
FrameRead(i, n) ==
  /\ <<i, n>> \in posts
  /\ posts' = posts \ {<<i, n>>}
  /\ \/ UNCHANGED <<call, told>>
     \/ /\ n = call[i].nextSeq /\ call[i].state = "open"
        /\ call' = [call EXCEPT ![i].nextSeq = @ + 1, ![i].forwarded = @ + 1]
        /\ UNCHANGED told
     \/ /\ n = call[i].nextSeq
        /\ call' = [Disposed({i}) EXCEPT ![i].nextSeq = @ + 1]
        /\ told' = told \cup ({i} \cap Registered)
  /\ UNCHANGED <<at, user, aborted, session>>

-----------------------------------------------------------------------------
(* The call's own timer: 20 s, or 35 min once a stream is attached.        *)
TimerFires(i) ==
  /\ i \in Registered
  /\ Dispose({i})
  /\ UNCHANGED <<at, user, aborted, posts, session>>

CloseTirociniumCalls ==
  /\ Dispose(Registered)
  /\ UNCHANGED <<at, user, aborted, posts, session>>

Next ==
  \/ \E i \in Ids :
       \/ \E u \in Users : Start(i, u)
       \/ Abort(i)
       \/ SessionRefused(i)
       \/ SessionCreated(i)
       \/ MaterialAnswer(i)
       \/ TicketRefused(i)
       \/ TicketGranted(i)
       \/ SetupReady(i)
       \/ SetupRejected(i)
       \/ Cleanup(i)
       \/ UpstreamOpen(i)
       \/ UpstreamEvent(i)
       \/ UpstreamGone(i)
       \/ Attach(i)
       \/ BrowserEnds(i)
       \/ \E n \in 0..MaxSeq : PostFrame(i, n) \/ FrameRead(i, n)
       \/ TimerFires(i)
  \/ CloseTirociniumCalls

(* Every await of POST / has a timeout, and every call a timer.            *)
Fairness ==
  \A i \in Ids :
    /\ WF_vars(SessionRefused(i))
    /\ WF_vars(MaterialAnswer(i))
    /\ WF_vars(TicketRefused(i))
    /\ WF_vars(SetupRejected(i))
    /\ WF_vars(Cleanup(i))
    /\ WF_vars(TimerFires(i))

Spec == Init /\ [][Next]_vars /\ Fairness

-----------------------------------------------------------------------------
(* A user has one call, and the Hub no more than its capacity, whatever    *)
(* starts are waiting for Tr at the same time.                             *)
OneCallPerUser ==
  /\ \A u \in Users : Cardinality(CallsOf(u)) <= 1
  /\ Cardinality(Registered) <= Capacity

(* Tr receives the audio of a call without a gap or a repetition, although *)
(* the posts of its frames are read concurrently; nothing is forwarded for *)
(* a call once it was disposed of.                                         *)
AudioIsContiguous ==
  \A i \in Registered : call[i].forwarded = call[i].nextSeq

NothingAfterDispose ==
  [][\A i \in Ids :
       call'[i].forwarded > call[i].forwarded => i \in Registered]_vars

AudioIsOfTheCall == []AudioIsContiguous /\ NothingAfterDispose

(* A call is released and Tr told of its end even if nobody but the timers *)
(* does anything.                                                          *)
CallsAreReleased ==
  /\ \A i \in Ids : i \in Registered ~> i \notin Registered
  /\ \A i \in Ids : i \in session ~> i \in told

(* What makes these inductive.  Every start that awaits, and every call in *)
(* the map, holds one place, and no user holds two.                        *)
Waiting == {i \in Ids : at[i] \in Awaits}
Holding == Waiting \cup Registered

PlacesAreCounted ==
  /\ IsFiniteSet(Holding) /\ Cardinality(Holding) <= Capacity
  /\ \A i, j \in Holding : user[i] = user[j] => i = j

(* A call is registered after its ticket, frames are posted for registered *)
(* calls, and the two counts of its audio differ on a disposed call only.  *)
CallsFollowStarts ==
  \A i \in Ids :
    /\ at[i] \in {"none", "session", "material", "ticket"} => call[i].state = "none"
    /\ (\E n \in 0..MaxSeq : <<i, n>> \in posts) => call[i].state # "none"
    /\ call[i].state # "closed" => call[i].forwarded = call[i].nextSeq

Inv == TypeOK /\ PlacesAreCounted /\ CallsFollowStarts

(* spec/feature/tirocinium-call.md:14-15: a stream abort or the browser's  *)
(* navigation releases the call and its Tr slot.  A start that gave up     *)
(* has no call left in the map.                                            *)
GivenUpStartHoldsNoCall ==
  \A i \in Registered : at[i] \notin {"cleanup", "failed"}
=============================================================================
