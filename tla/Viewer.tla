------------------------------- MODULE Viewer -------------------------------
(* The page of a viewer (plugins/odeum/viewer-ui.ts, viewer-connection.ts,  *)
(* good-batcher.ts, reaction-composer.ts, viewer-protocol.ts): one          *)
(* connection to the relay after another, each with a chain of messages     *)
(* that are handled one at a time and may await.  What the page offers -    *)
(* goods, posts, the poll - belongs to the connection it was built with.    *)
EXTENDS Naturals, Sequences, FiniteSets

CONSTANTS
  MaxConnects,  \* bound: connections of one page
  MaxPresses,   \* bound: goods pressed
  MaxPosts,     \* bound: posts typed, and boxes ticked for them
  MaxBatch,     \* MAX_GOOD_PER_MESSAGE
  MaxInbox,     \* bound: messages waiting in a chain
  Polls

ViewerAssumption ==
  /\ {MaxConnects, MaxPresses, MaxPosts, MaxInbox} \subseteq Nat
  /\ MaxBatch \in Nat \ {0} /\ 0 \notin Polls

VARIABLES
  view,        \* "asking" for a ticket, "refused", "built" or "left"
  built,       \* connections built so far
  connection,  \* the one of the page, 0 if null
  link,        \* OdeumViewerConnection, each with its socket and peer
  composer,    \* the fields of the page are enabled
  draft,       \* a text is typed, and the box "show it to all" ticked
  poll,        \* renderPoll: the poll shown, and whether it is answered
  batcher,     \* the batcher of the page: of which connection, what waits
  decay,       \* the interval of the meter runs
  count        \* what was pressed and sent, ticked and shown to all

vars == <<view, built, connection, link, composer, draft, poll, batcher, decay, count>>

Connections == 1..MaxConnects

(* Messages of the relay, as parseServerMessage lets them through.          *)
Messages ==
  [type : {"welcome", "offer", "candidate"}, poll : {0}, ready : {FALSE}]
    \cup [type : {"presence"}, poll : {0}, ready : BOOLEAN]
    \cup [type : {"poll.open", "poll.closed"}, poll : Polls, ready : {FALSE}]

NoLink == [socket |-> "none", closed |-> FALSE, ready |-> FALSE, peer |-> "none",
           at |-> "idle", inbox |-> <<>>]
NoBatcher == [of |-> 0, pending |-> 0, timer |-> FALSE]
NoDraft == [typed |-> FALSE, ticked |-> FALSE]
NoPoll == [id |-> 0, open |-> FALSE]

Init ==
  /\ view = "asking" /\ built = 0 /\ connection = 0
  /\ link = [c \in Connections |-> NoLink]
  /\ composer = FALSE /\ draft = NoDraft /\ poll = NoPoll
  /\ batcher = NoBatcher /\ decay = FALSE
  /\ count = [pressed |-> 0, sent |-> 0, typed |-> 0, ticked |-> 0, shown |-> 0]

(* close(): what still waits in the chain will find the connection closed.  *)
Close(l) ==
  [l EXCEPT !.closed = TRUE, !.ready = FALSE, !.peer = "none", !.inbox = <<>>,
            !.socket = IF @ \in {"connecting", "open"} THEN "closing" ELSE @]

(* send: true if the message went out.                                      *)
Sends(c) == c # 0 /\ ~link[c].closed /\ link[c].socket = "open"

TeardownPageOnly ==   \* mutant: the connection stays
  /\ connection' = 0
  /\ link' = link
  /\ batcher' = NoBatcher /\ decay' = FALSE

Teardown ==
  /\ connection' = 0
  /\ link' = IF connection = 0 THEN link ELSE [link EXCEPT ![connection] = Close(@)]
  /\ batcher' = NoBatcher /\ decay' = FALSE

FinishSilently(c, l) ==   \* mutant: the page is not told
  /\ link' = [link EXCEPT ![c] = IF l.closed THEN l ELSE Close(l)]
  /\ UNCHANGED <<composer, batcher>>

(* finish(), and onClose of the page: the goods not sent yet are dropped.   *)
Finish(c, l) ==
  IF l.closed
  THEN link' = [link EXCEPT ![c] = l] /\ UNCHANGED <<composer, batcher>>
  ELSE /\ link' = [link EXCEPT ![c] = Close(l)]
       /\ composer' = FALSE
       /\ batcher' = NoBatcher

-----------------------------------------------------------------------------
(* connect(): the answer of the ticket.  A page left meanwhile stays left.  *)
Ticket ==
  /\ view = "asking"
  /\ \/ view' = "refused" /\ UNCHANGED <<built, connection, link, composer, draft, poll, batcher, decay>>
     \/ /\ built < MaxConnects
        /\ view' = "built" /\ built' = built + 1 /\ connection' = built'
        /\ link' = [link EXCEPT ![built'].socket = "connecting"]
        /\ composer' = FALSE /\ draft' = NoDraft /\ poll' = NoPoll
        /\ batcher' = [NoBatcher EXCEPT !.of = built']
        /\ decay' = TRUE
  /\ UNCHANGED count

(* The button that onClose offers.                                          *)
Retry ==
  /\ view = "built" /\ link[connection].closed
  /\ view' = "asking"
  /\ Teardown
  /\ UNCHANGED <<built, composer, draft, poll, count>>

(* dispose(): by the button, or by the panel that shows the viewer.         *)
Leave ==
  /\ view # "left" /\ view' = "left"
  /\ Teardown
  /\ UNCHANGED <<built, composer, draft, poll, count>>

-----------------------------------------------------------------------------
SocketOpens(c) ==
  /\ link[c].socket = "connecting"
  /\ link' = [link EXCEPT ![c].socket = "open"]
  /\ UNCHANGED <<view, built, connection, composer, draft, poll, batcher, decay, count>>

(* onclose or onerror; or the peer connection fails.                        *)
SocketEnds(c) ==
  /\ link[c].socket \in {"connecting", "open", "closing"}
  /\ Finish(c, [link[c] EXCEPT !.socket = "closed"])
  /\ UNCHANGED <<view, built, connection, draft, poll, decay, count>>

PeerFails(c) ==
  /\ link[c].peer # "none"
  /\ Finish(c, link[c])
  /\ UNCHANGED <<view, built, connection, draft, poll, decay, count>>

Arrives(c, m) ==
  /\ link[c].socket = "open" /\ Len(link[c].inbox) < MaxInbox
  /\ link' = [link EXCEPT ![c].inbox = Append(@, m)]
  /\ UNCHANGED <<view, built, connection, composer, draft, poll, batcher, decay, count>>

(* receive, up to its end or its first await; then onMessage of the page.   *)
Receive(c) ==
  LET l == [link[c] EXCEPT !.inbox = Tail(@)]
      m == Head(link[c].inbox) IN
  /\ link[c].at = "idle" /\ link[c].inbox # <<>>
  /\ CASE m.type = "presence" ->
            /\ link' = [link EXCEPT ![c] = [l EXCEPT !.ready = m.ready]]
            /\ composer' = m.ready /\ UNCHANGED <<poll, batcher>>
       [] m.type = "welcome" ->
            /\ link' = [link EXCEPT ![c] = [l EXCEPT !.peer = "new"]]
            /\ UNCHANGED <<composer, poll, batcher>>
       [] m.type = "offer" ->
            /\ IF l.peer = "none" THEN Finish(c, l)
               ELSE /\ link' = [link EXCEPT ![c] = [l EXCEPT !.at = "describing"]]
                    /\ UNCHANGED <<composer, batcher>>
            /\ UNCHANGED poll
       [] m.type = "candidate" ->   \* added, kept for later, refused, or too many
            /\ \/ link' = [link EXCEPT ![c] = l] /\ UNCHANGED <<composer, batcher>>
               \/ Finish(c, l)
            /\ UNCHANGED poll
       [] m.type = "poll.open" ->
            /\ poll' = [id |-> m.poll, open |-> TRUE]
            /\ link' = [link EXCEPT ![c] = l] /\ UNCHANGED <<composer, batcher>>
       [] m.type = "poll.closed" ->
            /\ poll' = IF poll.id = m.poll THEN [poll EXCEPT !.open = FALSE] ELSE poll
            /\ link' = [link EXCEPT ![c] = l] /\ UNCHANGED <<composer, batcher>>
  /\ UNCHANGED <<view, built, connection, draft, decay, count>>

(* applyDescription: an await after the other, each of which may fail.      *)
Describe(c) ==
  /\ link[c].at \in {"describing", "answering"}
  /\ \/ /\ link' = [link EXCEPT ![c].at =
                      IF @ = "describing" /\ ~link[c].closed THEN "answering" ELSE "idle"]
        /\ UNCHANGED <<composer, batcher>>
     \/ Finish(c, [link[c] EXCEPT !.at = "idle"])
  /\ UNCHANGED <<view, built, connection, draft, poll, decay, count>>

-----------------------------------------------------------------------------
Press ==
  /\ view = "built" /\ batcher.of # 0 /\ count.pressed < MaxPresses
  /\ batcher' = [batcher EXCEPT !.pending = @ + 1, !.timer = TRUE]
  /\ count' = [count EXCEPT !.pressed = @ + 1]
  /\ UNCHANGED <<view, built, connection, link, composer, draft, poll, decay>>

FlushWhole ==   \* mutant: what is left over is counted again
  /\ batcher.timer
  /\ batcher' = [batcher EXCEPT !.timer = FALSE]
  /\ count' = [count EXCEPT !.sent = IF Sends(batcher.of) THEN @ + batcher.pending ELSE @]
  /\ UNCHANGED <<view, built, connection, link, composer, draft, poll, decay>>

(* A batch to a socket that is not open yet is lost.                        *)
Flush ==
  LET n == IF batcher.pending < MaxBatch THEN batcher.pending ELSE MaxBatch IN
  /\ batcher.timer
  /\ batcher' = [batcher EXCEPT !.pending = @ - n, !.timer = batcher.pending > n]
  /\ count' = [count EXCEPT !.sent = IF Sends(batcher.of) THEN @ + n ELSE @]
  /\ UNCHANGED <<view, built, connection, link, composer, draft, poll, decay>>

(* The viewer types into the fields, and ticks or clears the box.           *)
Type ==
  /\ view = "built" /\ composer /\ ~draft.typed /\ count.typed < MaxPosts
  /\ draft' = [draft EXCEPT !.typed = TRUE]
  /\ count' = [count EXCEPT !.typed = @ + 1]
  /\ UNCHANGED <<view, built, connection, link, composer, poll, batcher, decay>>

Tick ==
  /\ view = "built" /\ composer /\ count.ticked < MaxPosts
  /\ draft' = [draft EXCEPT !.ticked = ~@]
  /\ count' = [count EXCEPT !.ticked = IF draft.ticked THEN @ ELSE @ + 1]
  /\ UNCHANGED <<view, built, connection, link, composer, poll, batcher, decay>>

SubmitSticky ==   \* mutant: the box stays ticked
  /\ view = "built" /\ composer /\ draft.typed
  /\ IF link[connection].ready /\ Sends(connection)
     THEN /\ draft' = [draft EXCEPT !.typed = FALSE]
          /\ count' = [count EXCEPT !.shown = IF draft.ticked THEN @ + 1 ELSE @]
     ELSE UNCHANGED <<draft, count>>
  /\ UNCHANGED <<view, built, connection, link, composer, poll, batcher, decay>>

(* postForm.onsubmit: a text that was not sent stays, with its box.         *)
Submit ==
  /\ view = "built" /\ composer /\ draft.typed
  /\ IF link[connection].ready /\ Sends(connection)
     THEN /\ draft' = NoDraft
          /\ count' = [count EXCEPT !.shown = IF draft.ticked THEN @ + 1 ELSE @]
     ELSE UNCHANGED <<draft, count>>
  /\ UNCHANGED <<view, built, connection, link, composer, poll, batcher, decay>>

Next ==
  \/ Ticket \/ Retry \/ Leave \/ Press \/ Flush \/ Type \/ Tick \/ Submit
  \/ \E c \in Connections :
       \/ SocketOpens(c) \/ SocketEnds(c) \/ PeerFails(c) \/ Receive(c) \/ Describe(c)
       \/ \E m \in Messages : Arrives(c, m)

Spec == Init /\ [][Next]_vars

TypeOK ==
  /\ view \in {"asking", "refused", "built", "left"}
  /\ built \in 0..MaxConnects /\ connection \in 0..MaxConnects
  /\ link \in [Connections ->
       [socket : {"none", "connecting", "open", "closing", "closed"}, closed : BOOLEAN,
        ready : BOOLEAN, peer : {"none", "new"}, at : {"idle", "describing", "answering"},
        inbox : Seq(Messages)]]
  /\ composer \in BOOLEAN /\ draft \in [typed : BOOLEAN, ticked : BOOLEAN]
  /\ poll \in [id : Polls \cup {0}, open : BOOLEAN]
  /\ batcher \in [of : 0..MaxConnects, pending : 0..MaxPresses, timer : BOOLEAN]
  /\ decay \in BOOLEAN
  /\ count \in [pressed : 0..MaxPresses, sent : Nat, typed : 0..MaxPosts,
                ticked : 0..MaxPosts, shown : Nat]

(* Whatever is closed, lost or repeated while something is awaited: only    *)
(* the connection of the page is open, a page left or without a connection  *)
(* keeps no timer, goods wait for the connection they were pressed on, the  *)
(* fields of the page are enabled while - and only while - that connection  *)
(* says that posts are taken (viewer-ui.ts:203,246).                        *)
OneConnectionFeedsThePage ==
  /\ \A c \in Connections : link[c].socket \in {"connecting", "open"} => c = connection
  /\ view # "built" => connection = 0 /\ ~decay /\ ~batcher.timer
  /\ batcher.of # 0 => batcher.of = connection /\ ~link[connection].closed
  /\ view = "built" => composer = link[connection].ready

(* No good is sent twice, and every post shown to all had its own consent:  *)
(* "consent is per post, not a sticky publication preference"               *)
(* (plugins/odeum/reaction-composer.ts:65).                                 *)
SentOnceAndAsMeant ==
  /\ count.sent + batcher.pending <= count.pressed
  /\ count.shown <= count.ticked

ViewerIsFaithful == OneConnectionFeedsThePage /\ SentOnceAndAsMeant
=============================================================================
