--------------------------- MODULE RequestContract ---------------------------
(***************************************************************************)
(* What the Hub's shared Cernere client promises to a caller, with no      *)
(* sockets in sight: a request is answered at most once, only while the    *)
(* client is open; any number of requests may be rejected together; once   *)
(* the client is closed a new request is refused on the spot.              *)
(***************************************************************************)
CONSTANT Calls

VARIABLES closed, request

vars == <<closed, request>>

Waiting == {c \in Calls : request[c] = "waiting"}

Rejected(C) == [c \in Calls |-> IF c \in C THEN "failed" ELSE request[c]]

Init == closed = FALSE /\ request = [c \in Calls |-> "idle"]

Ask(c) ==
  /\ request[c] = "idle"
  /\ \E answer \in {"waiting", "failed"} :
       /\ closed => answer = "failed"
       /\ request' = [request EXCEPT ![c] = answer]
  /\ UNCHANGED closed

Answer(c) ==
  /\ ~closed
  /\ request[c] = "waiting"
  /\ request' = [request EXCEPT ![c] = "ok"]
  /\ UNCHANGED closed

Reject ==
  /\ \E C \in SUBSET Waiting : request' = Rejected(C)
  /\ UNCHANGED closed

Return(c) ==
  /\ request[c] \in {"ok", "failed"}
  /\ request' = [request EXCEPT ![c] = "idle"]
  /\ UNCHANGED closed

Close ==
  /\ ~closed
  /\ closed' = TRUE
  /\ \E C \in SUBSET Waiting : request' = Rejected(C)

Next ==
  \/ \E c \in Calls : Ask(c) \/ Answer(c) \/ Return(c)
  \/ Reject
  \/ Close

Spec == Init /\ [][Next]_vars
=============================================================================
