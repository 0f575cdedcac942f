----------------------------- MODULE OdeumLedger -----------------------------
(***************************************************************************)
(* What the ledger of presentations promises (plugins/odeum/               *)
(* session-store.ts, the tables of plugins/data.ts): a session begins live *)
(* at a place with a presenter, ends once, and never comes back; a place   *)
(* is an event, or the user of a stream that has no event.                 *)
(***************************************************************************)
CONSTANTS
  Sessions,   \* ids (bounds the number of sessions)
  Users,
  Places,
  None

ASSUME LedgerAssumption == None \notin Users \cup Places

VARIABLES
  status,     \* of each id: unused, live, ended
  place,      \* event_id, or the presenter of a direct session
  presenter

ledger == <<status, place, presenter>>

Live(p) == {s \in Sessions : status[s] = "live" /\ place[s] = p}

LedgerTypeOK ==
  /\ status \in [Sessions -> {"unused", "live", "ended"}]
  /\ place \in [Sessions -> Places \cup {None}]
  /\ presenter \in [Sessions -> Users \cup {None}]

LedgerInit ==
  /\ status = [s \in Sessions |-> "unused"]
  /\ place = [s \in Sessions |-> None]
  /\ presenter = [s \in Sessions |-> None]

Inserted(s, p, u) ==
  /\ status[s] = "unused"
  /\ status' = [status EXCEPT ![s] = "live"]
  /\ place' = [place EXCEPT ![s] = p]
  /\ presenter' = [presenter EXCEPT ![s] = u]

Begun(s, p, u) == Live(p) = {} /\ Inserted(s, p, u)

Ended(s) ==
  /\ status[s] = "live"
  /\ status' = [status EXCEPT ![s] = "ended"]
  /\ UNCHANGED <<place, presenter>>

LedgerNext ==
  \/ \E s \in Sessions, p \in Places, u \in Users : Begun(s, p, u)
  \/ \E s \in Sessions : Ended(s)

LedgerSpec == LedgerInit /\ [][LedgerNext]_ledger

(* A place has at most one live session: the partial unique indexes of     *)
(* plugins/data.ts, which startOdeumSession and startDirectSession rely on.*)
OneLivePerPlace ==
  \A s, t \in Sessions :
    status[s] = "live" /\ status[t] = "live" /\ place[s] = place[t] => s = t
=============================================================================
