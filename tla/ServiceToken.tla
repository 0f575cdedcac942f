---------------------------- MODULE ServiceToken ----------------------------
(***************************************************************************)
(* plugins/cernere-service-token.ts: the token the bot and the progress    *)
(* connector send with.  Concurrent callers share one issue; a token is    *)
(* cached until a margin before its end, a failure for a backoff.  The     *)
(* life of a token begins at Cernere, the cache reckons from the arrival   *)
(* of the answer.                                                          *)
(***************************************************************************)
EXTENDS Integers, FiniteSets

CONSTANTS
  Callers,
  Lives,     \* expiresIn values Cernere answers with
  Margin,    \* REFRESH_MARGIN_MS
  Backoff,   \* FAILURE_BACKOFF_MS
  Timeout,   \* ISSUE_TIMEOUT_MS
  MaxNow     \* bound of the clock

TokenAssumption ==
  /\ Lives \subseteq Nat \ {0} /\ {Margin, Backoff, Timeout, MaxNow} \subseteq Nat
  /\ Timeout < Margin

VARIABLES
  now,
  cached,    \* cached token: its deadline and when Cernere ends it; none at 0
  failure,   \* until when a failure is remembered
  issue,     \* inFlight: begun when, issued when and for how long by Cernere
  caller     \* what each caller waits for or got

vars == <<now, cached, failure, issue, caller>>

NoToken == [deadline |-> 0, ends |-> 0]
NoIssue == [begun |-> -1, at |-> -1, life |-> 0]
Asked == issue # NoIssue

Init ==
  /\ now = 0 /\ cached = NoToken /\ failure = 0 /\ issue = NoIssue
  /\ caller = [c \in Callers |-> [at |-> "idle", ends |-> 0, cache |-> FALSE]]

Waiting == {c \in Callers : caller[c].at = "waiting"}
Got(ends, fromCache) == [at |-> "token", ends |-> ends, cache |-> fromCache]

-----------------------------------------------------------------------------
GetStaleToken(c) ==   \* mutant: the deadline is not looked at
  /\ caller[c].at # "waiting"
  /\ IF cached # NoToken
       THEN caller' = [caller EXCEPT ![c] = Got(cached.ends, TRUE)] /\ UNCHANGED issue
       ELSE /\ caller' = [caller EXCEPT ![c].at = "waiting"]
            /\ issue' = IF Asked THEN issue ELSE [NoIssue EXCEPT !.begun = now]
  /\ UNCHANGED <<now, cached, failure>>

GetToken(c) ==
  /\ caller[c].at # "waiting"
  /\ CASE cached.deadline > now ->
            caller' = [caller EXCEPT ![c] = Got(cached.ends, TRUE)] /\ UNCHANGED issue
       [] cached.deadline <= now /\ failure > now ->
            caller' = [caller EXCEPT ![c].at = "failed"] /\ UNCHANGED issue
       [] OTHER ->
            /\ caller' = [caller EXCEPT ![c].at = "waiting"]
            /\ issue' = IF Asked THEN issue ELSE [NoIssue EXCEPT !.begun = now]
  /\ UNCHANGED <<now, cached, failure>>

(* Cernere issues a token; its answer is under way.                        *)
CernereIssues ==
  /\ Asked /\ issue.at = -1
  /\ \E life \in Lives : issue' = [issue EXCEPT !.at = now, !.life = life]
  /\ UNCHANGED <<now, cached, failure, caller>>

IssueOk ==
  /\ Asked /\ issue.at # -1
  /\ cached' = [deadline |-> now + issue.life - Margin, ends |-> issue.at + issue.life]
  /\ failure' = 0 /\ issue' = NoIssue
  /\ caller' = [c \in Callers |->
                  IF c \in Waiting THEN Got(issue.at + issue.life, FALSE) ELSE caller[c]]
  /\ UNCHANGED now

(* A refusal, a malformed answer, the network or the timeout.              *)
IssueFails ==
  /\ Asked
  /\ cached' = NoToken /\ failure' = now + Backoff /\ issue' = NoIssue
  /\ caller' = [c \in Callers |->
                  IF c \in Waiting THEN [caller[c] EXCEPT !.at = "failed"] ELSE caller[c]]
  /\ UNCHANGED now

(* Time passes; an issue does not outlive its timeout, and a caller that   *)
(* has its token sends with it at once.                                    *)
Tick ==
  /\ now < MaxNow
  /\ Asked => now < issue.begun + Timeout
  /\ now' = now + 1
  /\ caller' = [c \in Callers |->
                  IF c \in Waiting THEN caller[c]
                  ELSE [at |-> "idle", ends |-> 0, cache |-> FALSE]]
  /\ UNCHANGED <<cached, failure, issue>>

Next ==
  \/ \E c \in Callers : GetToken(c)
  \/ CernereIssues \/ IssueOk \/ IssueFails
  \/ Tick

Spec == Init /\ [][Next]_vars

-----------------------------------------------------------------------------
TypeOK ==
  /\ now \in 0..MaxNow /\ failure \in Nat
  /\ cached \in [deadline : Int, ends : Nat]
  /\ issue \in [begun : Int, at : Int, life : Nat]
  /\ caller \in [Callers -> [at : {"idle", "waiting", "token", "failed"},
                             ends : Nat, cache : BOOLEAN]]

(* A token handed out of the cache is alive at Cernere for what remains of *)
(* the margin after the slowest answer, although the cache reckons its     *)
(* life from the arrival of that answer: whoever sends with it is admitted.*)
HandedTokenIsLive ==
  \A c \in Callers :
    caller[c].at = "token" /\ caller[c].cache => caller[c].ends > now + Margin - Timeout
=============================================================================
