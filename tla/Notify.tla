------------------------------- MODULE Notify -------------------------------
(***************************************************************************)
(* The notification bot (bot/notify/, bot/channels.ts, bot/forum.ts): a    *)
(* timer starts a tick that walks eight sources in a fixed order, loads    *)
(* the unsent rows of each from the shared stores, posts them to Discord   *)
(* one by one and records the outcome.  Discord may deliver a message and  *)
(* lose the answer; the process may stop anywhere, its stores survive.     *)
(*                                                                         *)
(* A row is pending until it is recorded as done.  Admissions are claimed  *)
(* (sending) before the post and never posted again; the other kinds are   *)
(* posted again until an answer arrives, except events and jobs, which are *)
(* recorded whatever the answer (bot/notify/scheduler.ts:43-62).           *)
(***************************************************************************)
EXTENDS Naturals, Sequences, FiniteSets

CONSTANTS
  Items,       \* rows the Hub may enqueue
  Kind,        \* the source of each row
  Batch,       \* LIMIT of the limited queries (5 or 10 in the code)
  MaxCrashes,  \* bounds the stops of the bot process
  Ticks,       \* runTick calls that could be in progress at once
  None

(* The order of runTick; sources that never have a row are not visited.    *)
Order == <<"admission", "daily", "event", "job",
           "release", "review", "consult", "forum">>
Kinds == {Order[n] : n \in 1..8}
Stages == SelectSeq(Order, LAMBDA kind : \E i \in Items : Kind[i] = kind)
Last == Len(Stages)

NotifyAssumption ==
  /\ Kind \in [Items -> Kinds]
  /\ Batch \in Nat \ {0}
  /\ MaxCrashes \in Nat
  /\ None \notin Items

VARIABLES
  ledger,     \* state of every row in SQLite / PostgreSQL
  queue,      \* the order in which the rows were created, 0 before
  delivered,  \* messages on Discord for each row: 0, 1 or 2 (several)
  run,        \* the ticks: stage (0: none), rows left of its batch, row in flight
  up,         \* the bot process runs
  crashes

vars == <<ledger, queue, delivered, run, up, crashes>>

Idle == [stage |-> 0, batch |-> {}, sending |-> None]

(* The outer try of runTick ends the tick; these two stages have their own.*)
Isolated == {"admission", "daily"}
(* Recorded as notified even when postToChannel returned null.             *)
BestEffort == {"event", "job"}
(* Claimed before the post.                                                *)
AtMostOnce == {"admission"}
Acked == Kinds \ (BestEffort \cup AtMostOnce)
(* The row no longer satisfies the source's query: a deadline passes, a    *)
(* job is closed, an event deleted, an admission decided; the day is over, *)
(* a consult is resolved, a thread of the forum deleted.  A release or a   *)
(* review waits until it is posted.                                        *)
Withdrawable == Kinds \ {"release", "review"}
Limited == {"admission", "release", "review", "forum"}

More(n) == IF n = 0 THEN 1 ELSE 2

TypeOK ==
  /\ ledger \in [Items -> {"absent", "pending", "sending", "done", "gone"}]
  /\ queue \in [Items -> 0..Cardinality(Items)]
  /\ delivered \in [Items -> 0..2]
  /\ run \in [Ticks -> [stage : 0..Last, batch : SUBSET Items, sending : Items \cup {None}]]
  /\ up \in BOOLEAN
  /\ crashes \in 0..MaxCrashes

Init ==
  /\ ledger = [i \in Items |-> "absent"]
  /\ queue = [i \in Items |-> 0]
  /\ delivered = [i \in Items |-> 0]
  /\ run = [t \in Ticks |-> Idle]
  /\ up = TRUE
  /\ crashes = 0

-----------------------------------------------------------------------------
(* The Hub *)

Publish(i) ==
  /\ ledger[i] = "absent"
  /\ ledger' = [ledger EXCEPT ![i] = "pending"]
  /\ queue' = [queue EXCEPT ![i] = Cardinality({j \in Items : queue[j] # 0}) + 1]
  /\ UNCHANGED <<delivered, run, up, crashes>>

Withdraw(i) ==
  /\ Kind[i] \in Withdrawable
  /\ ledger[i] = "pending"
  /\ ledger' = [ledger EXCEPT ![i] = "gone"]
  /\ UNCHANGED <<queue, delivered, run, up, crashes>>

-----------------------------------------------------------------------------
(* The tick *)

(* The rows a source's query returns: the oldest that are not sent.        *)
Rows(kind) ==
  LET unsent == {i \in Items : Kind[i] = kind /\ ledger[i] = "pending"} IN
  {i \in unsent : kind \in Limited => Cardinality({j \in unsent : queue[j] < queue[i]}) < Batch}

Enter(stage) == [stage |-> stage, batch |-> Rows(Stages[stage]), sending |-> None]

StartTickOverlapping(t) ==   \* mutant: no tickInFlight
  /\ up
  /\ run[t].stage = 0
  /\ run' = [run EXCEPT ![t] = Enter(1)]
  /\ UNCHANGED <<ledger, queue, delivered, up, crashes>>

StartTick(t) ==
  /\ up
  /\ \A u \in Ticks : run[u].stage = 0
  /\ run' = [run EXCEPT ![t] = Enter(1)]
  /\ UNCHANGED <<ledger, queue, delivered, up, crashes>>

AtRest(t) == up /\ run[t].stage # 0 /\ run[t].sending = None

AdvanceReturns(t) ==   \* mutant: a source with nothing left ends the tick
  /\ AtRest(t) /\ run[t].batch = {}
  /\ run' = [run EXCEPT ![t] = Idle]
  /\ UNCHANGED <<ledger, queue, delivered, up, crashes>>

Advance(t) ==
  /\ AtRest(t) /\ run[t].batch = {}
  /\ run' = [run EXCEPT ![t] = IF @.stage = Last THEN Idle ELSE Enter(@.stage + 1)]
  /\ UNCHANGED <<ledger, queue, delivered, up, crashes>>

(* A throw in stage s, as caught by the code.                              *)
Thrown(s) == IF Stages[s.stage] \in Isolated
             THEN [s EXCEPT !.batch = {}, !.sending = None] ELSE Idle

(* A store, the Hub's sync route, the channel or the forum is unavailable. *)
StageFails(t) ==
  /\ AtRest(t)
  /\ run' = [run EXCEPT ![t] = Thrown(@)]
  /\ UNCHANGED <<ledger, queue, delivered, up, crashes>>

Oldest(t, i) == i \in run[t].batch /\ \A j \in run[t].batch : queue[i] <= queue[j]

PostUnclaimed(t, i) ==   \* mutant: `sending' is not recorded before the post
  /\ AtRest(t) /\ Oldest(t, i)
  /\ run' = [run EXCEPT ![t].batch = @ \ {i}, ![t].sending = i]
  /\ UNCHANGED <<ledger, queue, delivered, up, crashes>>

(* The next row is posted.  An admission is claimed first, and skipped if  *)
(* the claim changes no row.                                               *)
Post(t, i) ==
  /\ AtRest(t) /\ Oldest(t, i)
  /\ IF Kind[i] \in AtMostOnce
     THEN /\ ledger' = [ledger EXCEPT ![i] = IF @ = "pending" THEN "sending" ELSE @]
          /\ run' = [run EXCEPT ![t].batch = @ \ {i},
                                ![t].sending = IF ledger[i] = "pending" THEN i ELSE None]
     ELSE /\ UNCHANGED ledger
          /\ run' = [run EXCEPT ![t].batch = @ \ {i}, ![t].sending = i]
  /\ UNCHANGED <<queue, delivered, up, crashes>>

Record(i) ==
  ledger' = [ledger EXCEPT ![i] = IF @ \in {"pending", "sending"} THEN "done" ELSE @]

(* Discord answers with a message id.  Recording an event is a write to    *)
(* PostgreSQL that may itself fail.                                        *)
Answered(t, i) ==
  /\ up /\ run[t].sending = i
  /\ delivered' = [delivered EXCEPT ![i] = More(@)]
  /\ Record(i)
  /\ run' = [run EXCEPT ![t].sending = None]
  /\ UNCHANGED <<queue, up, crashes>>

RecordFails(t, i) ==
  /\ up /\ run[t].sending = i
  /\ delivered' = [delivered EXCEPT ![i] = More(@)]
  /\ run' = [run EXCEPT ![t] = Thrown(@)]
  /\ UNCHANGED <<ledger, queue, up, crashes>>

UnansweredRecorded(t, i) ==   \* mutant: a null message id is recorded too
  /\ up /\ run[t].sending = i
  /\ delivered' \in {delivered, [delivered EXCEPT ![i] = More(@)]}
  /\ run' = [run EXCEPT ![t].sending = None]
  /\ Record(i)
  /\ UNCHANGED <<queue, up, crashes>>

(* The post fails or its answer is lost.  postToChannel returns null and   *)
(* the consult loop catches; the throw of an admission ends its batch and  *)
(* leaves the row held in sending.                                         *)
Unanswered(t, i) ==
  /\ up /\ run[t].sending = i
  /\ delivered' \in {delivered, [delivered EXCEPT ![i] = More(@)]}
  /\ run' = [run EXCEPT ![t] = IF Kind[i] \in AtMostOnce THEN Thrown(@)
                               ELSE [@ EXCEPT !.sending = None]]
  /\ IF Kind[i] \in BestEffort THEN Record(i) ELSE UNCHANGED ledger
  /\ UNCHANGED <<queue, up, crashes>>

-----------------------------------------------------------------------------
(* The process stops: a crash, or a shutdown that closes the stores under  *)
(* the tick.  Discord may or may not have received the row in flight.      *)
Stop ==
  /\ up /\ crashes < MaxCrashes
  /\ up' = FALSE
  /\ crashes' = crashes + 1
  /\ \E got \in SUBSET {i \in Items : \E t \in Ticks : run[t].sending = i} :
       delivered' = [i \in Items |-> IF i \in got THEN More(delivered[i]) ELSE delivered[i]]
  /\ run' = [t \in Ticks |-> Idle]
  /\ UNCHANGED <<ledger, queue>>

Restart ==
  /\ ~up
  /\ up' = TRUE
  /\ UNCHANGED <<ledger, queue, delivered, run, crashes>>

Next ==
  \/ \E i \in Items : Publish(i) \/ Withdraw(i)
  \/ \E t \in Ticks : StartTick(t)
  \/ \E t \in Ticks : Advance(t)
  \/ \E t \in Ticks : StageFails(t)
  \/ \E t \in Ticks, i \in Items : Post(t, i)
  \/ \E t \in Ticks, i \in Items : Answered(t, i)
  \/ \E t \in Ticks, i \in Items : RecordFails(t, i)
  \/ \E t \in Ticks, i \in Items : Unanswered(t, i)
  \/ Stop
  \/ Restart

(* The interval timer keeps starting ticks and the process is restarted;   *)
(* an outage of a store or of Discord ends (the strong fairness).          *)
Fairness ==
  /\ WF_vars(\E t \in Ticks : StartTick(t))
  /\ \A n \in 1..Last : SF_vars(\E t \in Ticks : run[t].stage = n /\ Advance(t))
  /\ \A i \in Items : SF_vars(\E t \in Ticks : Post(t, i))
  /\ \A i \in Items : SF_vars(\E t \in Ticks : Answered(t, i))
  /\ WF_vars(Restart)

Spec == Init /\ [][Next]_vars /\ Fairness

-----------------------------------------------------------------------------
(* An admission is announced at most once, whatever answer is lost and     *)
(* wherever the process stops (bot/notify/admissions.ts:6-7).              *)
AdmissionsAtMostOnce ==
  \A i \in Items : Kind[i] \in AtMostOnce => delivered[i] <= 1

(* A notice of an acknowledged kind is recorded only if Discord has it: no *)
(* review, release, consult, thread or daily message is lost in silence.   *)
RecordedIsDelivered ==
  \A i \in Items : Kind[i] \in Acked /\ ledger[i] = "done" => delivered[i] >= 1

(* Both: what the ledger says of a notice and what Discord has agree.      *)
DeliveriesMatchTheLedger == AdmissionsAtMostOnce /\ RecordedIsDelivered

(* The bot never starts a post for a row already recorded, although it     *)
(* works on the batch it loaded earlier: ticks do not overlap.             *)
NoPostAfterRecord ==
  [][\A t \in Ticks, i \in Items :
       run'[t].sending = i /\ run[t].sending # i => ledger[i] # "done"]_vars

(* Before, during and after a tick the ledger tells what was delivered.    *)
LedgerIsKept == []DeliveriesMatchTheLedger /\ NoPostAfterRecord

(* Every notice of an acknowledged kind is eventually posted and recorded, *)
(* however the sources before it in the tick and the rows before it in its *)
(* batch fare, once outages end - unless it is one of those that may be    *)
(* withdrawn, and is: a release or a review always arrives.                *)
EveryNoticeArrives ==
  \A i \in Items : Kind[i] \in Acked =>
    (ledger[i] = "pending" ~> \/ ledger[i] = "done" /\ delivered[i] >= 1
                              \/ ledger[i] = "gone" /\ Kind[i] \in Withdrawable)

(* DESIGN.md:96 says the ledger is updated after a successful delivery; of *)
(* event and job reminders the code records failed posts as well.          *)
ReminderRecordedIsDelivered ==
  \A i \in Items : Kind[i] \in BestEffort /\ ledger[i] = "done" => delivered[i] >= 1
=============================================================================
