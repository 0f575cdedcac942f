------------------------------ MODULE Presence ------------------------------
(***************************************************************************)
(* plugins/cernere/presence-schema.ts and the requests of plugins/consult  *)
(* and plugins/dashboard that read or write presence in Cernere: one       *)
(* declaration of the columns per client, started at setup, shared by the  *)
(* requests that wait for it, forgotten when it fails and then tried again *)
(* by the next operation.  A request makes one or two calls and declares   *)
(* before each.                                                            *)
(***************************************************************************)
EXTENDS Naturals, FiniteSets

CONSTANTS
  Readers,   \* requests of one call: GET /availability, available-members, ...
  Writers    \* requests that ask who or whether, then write

Askers == Readers \cup Writers

VARIABLES
  declaration,   \* declarations.get(client)
  setupSettled,  \* presenceSchemaReady has settled, either way
  request,       \* each request: where it is, calls left, answer
  failed         \* requests under way when something of theirs failed

vars == <<declaration, setupSettled, request, failed>>

Calls(r) == IF r \in Writers THEN 2 ELSE 1

Init ==
  /\ declaration = "pending" /\ setupSettled = FALSE
  /\ request = [r \in Askers |-> [at |-> "idle", left |-> Calls(r), answer |-> "none"]]
  /\ failed = {}

At(where) == {r \in Askers : request[r].at = where}

Answered(r, answer) == [request[r] EXCEPT !.at = "answered", !.answer = answer]

-----------------------------------------------------------------------------
Begin(r) ==
  /\ request[r].at = "idle"
  /\ request' = [request EXCEPT ![r].at = IF setupSettled THEN "declare" ELSE "setup"]
  /\ UNCHANGED <<declaration, setupSettled, failed>>

RememberedFailure(r) ==   \* mutant: the rejected promise is handed out again
  /\ declaration = "none"
  /\ request' = [request EXCEPT ![r] = Answered(r, "unavailable")]
  /\ UNCHANGED declaration

(* declarePresenceSchema of a request: no promise yet, so it asks Cernere. *)
Redeclare(r) ==
  /\ declaration = "none"
  /\ declaration' = "pending"
  /\ request' = [request EXCEPT ![r].at = "declaring"]

Declare(r) ==
  /\ request[r].at \in {"declare"} \cup (IF setupSettled THEN {"setup"} ELSE {})
  /\ \/ Redeclare(r)
     \/ /\ declaration = "pending"
        /\ request' = [request EXCEPT ![r].at = "declaring"]
        /\ UNCHANGED declaration
     \/ /\ declaration = "ok"
        /\ request' = [request EXCEPT ![r].at = "calling"]
        /\ UNCHANGED declaration
  /\ UNCHANGED <<setupSettled, failed>>

(* update_schema is answered; all who share the promise go on or fail.     *)
Declared ==
  /\ declaration = "pending" /\ declaration' = "ok" /\ setupSettled' = TRUE
  /\ request' = [r \in Askers |->
                   IF r \in At("declaring") THEN [request[r] EXCEPT !.at = "calling"]
                   ELSE request[r]]
  /\ UNCHANGED failed

DeclarationFails ==
  /\ declaration = "pending" /\ declaration' = "none" /\ setupSettled' = TRUE
  /\ request' = [r \in Askers |->
                   IF r \in At("declaring") THEN Answered(r, "unavailable") ELSE request[r]]
  /\ failed' = failed \cup At("declaring")

(* The call itself: a refusal (no permission, unknown Discord id) ends the *)
(* request, a failure is 503.                                              *)
Call(r) ==
  /\ request[r].at = "calling"
  /\ \/ /\ request' = [request EXCEPT ![r] =
                         IF request[r].left = 1 THEN Answered(r, "ok")
                         ELSE [request[r] EXCEPT !.at = "declare", !.left = @ - 1]]
        /\ UNCHANGED failed
     \/ /\ request[r].left = 2
        /\ request' = [request EXCEPT ![r] = Answered(r, "refused")]
        /\ UNCHANGED failed
     \/ /\ request' = [request EXCEPT ![r] = Answered(r, "unavailable")]
        /\ failed' = failed \cup {r}
  /\ UNCHANGED <<declaration, setupSettled>>

Next ==
  \/ \E r \in Askers : Begin(r) \/ Declare(r) \/ Call(r)
  \/ Declared \/ DeclarationFails

Spec == Init /\ [][Next]_vars

-----------------------------------------------------------------------------
TypeOK ==
  /\ declaration \in {"none", "pending", "ok"}
  /\ setupSettled \in BOOLEAN
  /\ request \in [Askers -> [at : {"idle", "setup", "declare", "declaring", "calling", "answered"},
                               left : 1..2,
                               answer : {"none", "ok", "refused", "unavailable"}]]
  /\ failed \subseteq Askers

(* A 503 is never the echo of an earlier failure: whoever gets one waited  *)
(* for a declaration or made a call that failed meanwhile.  And no data    *)
(* call is under way on a client whose columns are not declared.           *)
FailuresAreOwn ==
  \A r \in Askers :
    /\ request[r].answer = "unavailable" => r \in failed
    /\ request[r].at = "calling" => declaration = "ok"
=============================================================================
