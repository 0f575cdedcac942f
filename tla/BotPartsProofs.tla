---------------------------- MODULE BotPartsProofs ----------------------------
EXTENDS MCBotParts, FiniteSetTheorems, WellFoundedInduction, TLAPS

-----------------------------------------------------------------------------
(* Owners of job postings (JobOwner).                                      *)

(* The audit table, and that a rollback names a row before it.             *)
JobInv ==
  /\ TypeOK
  /\ HistoryIsWhole /\ RollbacksFollow
  /\ \A k \in DOMAIN audit : audit[k].undoes < k

JobRow == [owner : Owners, revision : Nat, poster : Users \cup {Discord}, open : BOOLEAN]

AuditRow == [operation : Operations, job : Jobs, before : Owners, after : Owners,
             revision : Nat, undoes : Nat]

LEMMA JobInvParts ==
  ASSUME JobInv
  PROVE  /\ job \in [Jobs -> {None} \cup JobRow] /\ audit \in Seq(AuditRow)
         /\ DOMAIN audit = 1..Len(audit) /\ Len(audit) \in Nat
         /\ \A i \in DOMAIN audit : audit[i] \in AuditRow
<1>1. job \in [Jobs -> {None} \cup JobRow] /\ audit \in Seq(AuditRow)
  BY DEF JobInv, TypeOK, JobRow, AuditRow
<1> HIDE DEF AuditRow, JobRow
<1> QED BY <1>1

LEMMA JobRowIsNoNull == None \notin JobRow
  BY JobOwnerAssumption DEF JobRow, Owners

LEMMA JobBegins == Init => JobInv
<1> SUFFICES ASSUME Init
             PROVE  JobInv
  OBVIOUS
<1>1. ASSUME NEW j \in Jobs, job[j] # None
      PROVE  job[j] \in JobRow /\ job[j].revision = 0
  <2>1. job[j] \in [owner : {None}, revision : {0}, poster : Users \cup {Discord}, open : {TRUE}]
    BY <1>1 DEF Init
  <2>2. /\ job[j] = [owner |-> job[j].owner, revision |-> job[j].revision,
                     poster |-> job[j].poster, open |-> job[j].open]
        /\ job[j].owner = None /\ job[j].revision = 0
        /\ job[j].poster \in Users \cup {Discord} /\ job[j].open \in BOOLEAN
    BY <2>1
  <2>3. job[j].owner \in Owners /\ job[j].revision \in Nat
    BY <2>2 DEF Owners
  <2> QED BY <2>2, <2>3 DEF JobRow
<1>2. audit = <<>> /\ DOMAIN audit = {} /\ audit \in Seq(AuditRow)
  BY DEF Init
<1>3. job \in [Jobs -> {None} \cup JobRow]
  BY <1>1 DEF Init
<1>4. HistoryIsWhole
  BY <1>1, <1>2 DEF HistoryIsWhole
<1> QED BY <1>2, <1>3, <1>4 DEF JobInv, TypeOK, JobRow, AuditRow, RollbacksFollow

(* A job is posted, or its row keeps owner and revision.                   *)
LEMMA JobKept ==
  ASSUME JobInv, UNCHANGED audit, NEW j \in Jobs, NEW new \in JobRow,
         job' = [job EXCEPT ![j] = new],
         \/ job[j] = None /\ new.revision = 0
         \/ job[j] # None /\ new.revision = job[j].revision /\ new.owner = job[j].owner
  PROVE  JobInv'
<1>1. /\ job' \in [Jobs -> {None} \cup JobRow] /\ job'[j] = new /\ new # None
      /\ \A k \in Jobs : k # j => job'[k] = job[k]
  BY JobInvParts, JobRowIsNoNull
<1>2. TypeOK'
  BY <1>1, JobInvParts DEF TypeOK, JobRow, AuditRow
<1>3. HistoryIsWhole'
  <2>1. ASSUME NEW k \in Jobs, job'[k] # None, NEW r \in 0..(job'[k].revision - 1)
        PROVE  \E i \in DOMAIN audit : audit[i].job = k /\ audit[i].revision = r
    <3>1. job[k] # None /\ job'[k].revision = job[k].revision
      BY <1>1, <2>1 DEF JobRow
    <3> QED BY <2>1, <3>1 DEF JobInv, HistoryIsWhole
  <2>2. ASSUME NEW i \in DOMAIN audit
        PROVE  LET k == audit[i].job IN
               /\ job'[k] # None /\ audit[i].revision < job'[k].revision
               /\ audit[i].revision + 1 = job'[k].revision => audit[i].after = job'[k].owner
               /\ \A n \in DOMAIN audit : audit[n].job = k =>
                    /\ i < n => audit[i].revision < audit[n].revision
                    /\ audit[n].revision = audit[i].revision + 1 =>
                         audit[n].before = audit[i].after
    <3>1. audit[i].job \in Jobs /\ job[audit[i].job] # None
      BY <2>2, JobInvParts DEF JobInv, HistoryIsWhole, AuditRow
    <3>2. /\ job'[audit[i].job] # None
          /\ job'[audit[i].job].revision = job[audit[i].job].revision
          /\ job'[audit[i].job].owner = job[audit[i].job].owner
      BY <1>1, <3>1
    <3> QED BY <2>2, <3>2 DEF JobInv, HistoryIsWhole
  <2> QED BY <2>1, <2>2 DEF HistoryIsWhole
<1>4. RollbacksFollow' /\ \A k \in DOMAIN audit' : audit'[k].undoes < k
  BY DEF JobInv, RollbacksFollow
<1> QED BY <1>2, <1>3, <1>4 DEF JobInv

(* The row of an assignment is the newest, and continues the one before.   *)
LEMMA OwnerChanges ==
  ASSUME JobInv, NEW j \in Jobs, NEW op \in Operations, NEW expected \in Owners,
         NEW revision \in Nat, NEW owner \in Owners, NEW undoes \in Nat,
         ChangeOwner(j, op, expected, revision, owner, undoes),
         undoes # 0 => /\ undoes \in DOMAIN audit /\ audit[undoes].job = j
                       /\ revision = audit[undoes].revision + 1
                       /\ owner = audit[undoes].before
  PROVE  JobInv'
<1> DEFINE n == Len(audit)
           new == [operation |-> op, job |-> j, before |-> expected, after |-> owner,
                   revision |-> revision, undoes |-> undoes]
<1>1. /\ job[j] \in JobRow /\ job[j] # None /\ n \in Nat /\ DOMAIN audit = 1..n
      /\ job[j].owner = expected /\ job[j].revision = revision
  BY JobInvParts DEF ChangeOwner
<1>2. /\ job'[j] = [job[j] EXCEPT !.owner = owner, !.revision = revision + 1]
      /\ job'[j] \in JobRow /\ job'[j] # None
      /\ job'[j].owner = owner /\ job'[j].revision = revision + 1
      /\ \A k \in Jobs : k # j => job'[k] = job[k]
      /\ job' \in [Jobs -> {None} \cup JobRow]
  BY <1>1, JobInvParts, JobRowIsNoNull DEF ChangeOwner, JobRow
<1>3. /\ audit' \in Seq(AuditRow) /\ Len(audit') = n + 1 /\ DOMAIN audit' = 1..(n + 1)
      /\ audit'[n + 1] = new /\ \A i \in 1..n : audit'[i] = audit[i]
  BY JobInvParts DEF ChangeOwner, AuditRow
<1>4. ASSUME NEW i \in 1..n
      PROVE  /\ audit[i] \in AuditRow /\ job[audit[i].job] # None
             /\ audit[i].revision < job[audit[i].job].revision
             /\ audit[i].revision + 1 = job[audit[i].job].revision =>
                  audit[i].after = job[audit[i].job].owner
             /\ audit[i].undoes < i
  BY <1>1, <1>4, JobInvParts DEF JobInv, HistoryIsWhole
<1> HIDE DEF n
<1>5. /\ new.job = j /\ new.before = expected /\ new.after = owner
      /\ new.revision = revision /\ new.undoes = undoes
  OBVIOUS
<1> HIDE DEF new
<1>6. TypeOK'
  BY <1>2, <1>3 DEF TypeOK, JobRow, AuditRow
<1>7. ASSUME NEW k \in Jobs, job'[k] # None, NEW r \in 0..(job'[k].revision - 1)
      PROVE  \E i \in DOMAIN audit' : audit'[i].job = k /\ audit'[i].revision = r
  <2>1. CASE k = j /\ r = revision
    BY <1>1, <1>3, <1>5, <2>1
  <2>2. CASE ~(k = j /\ r = revision)
    <3>1. job[k] # None /\ r \in 0..(job[k].revision - 1)
      <4>1. CASE k = j
        <5>1. job'[k].revision = revision + 1
          BY <1>2, <4>1
        <5>2. r # revision
          BY <2>2, <4>1
        <5>3. r \in 0..revision
          BY <5>1
        <5> QED BY <1>1, <4>1, <5>2, <5>3
      <4>2. CASE k # j
        BY <1>2, <1>7, <4>2
      <4> QED BY <4>1, <4>2
    <3>2. PICK i \in DOMAIN audit : audit[i].job = k /\ audit[i].revision = r
      BY <3>1 DEF JobInv, HistoryIsWhole
    <3> QED BY <1>1, <1>3, <3>2
  <2> QED BY <2>1, <2>2
<1>8. ASSUME NEW i \in 1..(n + 1)
      PROVE  /\ job'[audit'[i].job] # None
             /\ audit'[i].revision < job'[audit'[i].job].revision
             /\ audit'[i].revision + 1 = job'[audit'[i].job].revision =>
                  audit'[i].after = job'[audit'[i].job].owner
  <2>1. CASE i = n + 1
    <3>1. audit'[i].job = j /\ audit'[i].revision = revision /\ audit'[i].after = owner
      BY <1>3, <1>5, <2>1
    <3>2. job'[j] # None /\ job'[j].owner = owner /\ job'[j].revision = revision + 1
      BY <1>2
    <3>3. revision < revision + 1
      OBVIOUS
    <3> QED BY <3>1, <3>2, <3>3
  <2>2. CASE i \in 1..n /\ audit[i].job = j
    <3>1. audit'[i] = audit[i] /\ audit[i].revision < revision /\ audit[i].revision \in Nat
      BY <1>1, <1>3, <1>4, <2>2 DEF AuditRow
    <3>2. audit[i].revision < revision + 1 /\ audit[i].revision + 1 # revision + 1
      BY <3>1
    <3> QED BY <1>2, <2>2, <3>1, <3>2
  <2>3. CASE i \in 1..n /\ audit[i].job # j
    <3>1. audit'[i] = audit[i] /\ job'[audit[i].job] = job[audit[i].job]
      BY <1>2, <1>3, <1>4, <2>3 DEF AuditRow
    <3> QED BY <1>4, <2>3, <3>1
  <2> QED BY <1>1, <1>8, <2>1, <2>2, <2>3
<1>9. ASSUME NEW i \in 1..(n + 1), NEW k \in 1..(n + 1), audit'[k].job = audit'[i].job
      PROVE  /\ i < k => audit'[i].revision < audit'[k].revision
             /\ audit'[k].revision = audit'[i].revision + 1 =>
                  audit'[k].before = audit'[i].after
  <2>1. CASE i \in 1..n /\ k \in 1..n
    <3>1. /\ audit'[i] = audit[i] /\ audit'[k] = audit[k]
          /\ i \in DOMAIN audit /\ k \in DOMAIN audit
      BY <1>1, <1>3, <2>1
    <3> QED BY <1>9, <3>1 DEF JobInv, HistoryIsWhole
  <2>2. CASE i \in 1..n /\ k = n + 1
    <3>1. audit'[i] = audit[i] /\ audit[i].job = j
      BY <1>3, <1>5, <1>9, <2>2
    <3> QED BY <1>1, <1>3, <1>4, <1>5, <2>2, <3>1
  <2>3. CASE i = n + 1 /\ k \in 1..n
    <3>1. audit'[k] = audit[k] /\ audit[k].job = j /\ ~(i < k)
      BY <1>1, <1>3, <1>5, <1>9, <2>3
    <3>2. audit[k].revision < revision /\ audit[k].revision \in Nat
      BY <1>1, <1>4, <2>3, <3>1 DEF AuditRow
    <3>3. audit'[i].revision = revision
      BY <1>3, <1>5, <2>3
    <3> QED BY <3>1, <3>2, <3>3
  <2>4. CASE i = n + 1 /\ k = n + 1
    <3>1. audit'[i].revision = revision /\ audit'[k].revision = revision
      BY <1>3, <1>5, <2>4
    <3> QED BY <2>4, <3>1, <1>1
  <2> QED BY <1>1, <1>9, <2>1, <2>2, <2>3, <2>4
<1>10. HistoryIsWhole'
  BY <1>3, <1>7, <1>8, <1>9 DEF HistoryIsWhole
<1>11. ASSUME NEW k \in 1..(n + 1)
       PROVE  audit'[k].undoes < k
  <2>1. CASE k \in 1..n
    BY <1>3, <1>4, <2>1
  <2>2. CASE k = n + 1
    BY <1>1, <1>3, <1>5, <2>2
  <2> QED BY <1>1, <1>11, <2>1, <2>2
<1>12. ASSUME NEW i \in 1..(n + 1), NEW k \in 1..(n + 1), audit'[k].undoes = i
       PROVE  /\ audit'[k].job = audit'[i].job
              /\ audit'[k].revision = audit'[i].revision + 1
              /\ audit'[k].after = audit'[i].before
  <2>1. i < k
    BY <1>11, <1>12
  <2>2. CASE k \in 1..n
    <3>1. i \in 1..n /\ audit'[i] = audit[i] /\ audit'[k] = audit[k]
      BY <1>1, <1>3, <2>1, <2>2
    <3> QED BY <1>1, <1>12, <2>2, <3>1 DEF JobInv, RollbacksFollow
  <2>3. CASE k = n + 1
    <3>1. i \in 1..n /\ audit'[i] = audit[i] /\ undoes = i
      BY <1>1, <1>3, <1>5, <1>12, <2>1, <2>3
    <3> QED BY <1>1, <1>3, <1>5, <2>3, <3>1
  <2> QED BY <1>1, <1>12, <2>2, <2>3
<1> QED BY <1>3, <1>6, <1>10, <1>11, <1>12 DEF JobInv, RollbacksFollow

LEMMA JobStep == JobInv /\ [Next]_jobVars => JobInv'
<1> SUFFICES ASSUME JobInv, [Next]_jobVars
             PROVE  JobInv'
  OBVIOUS
<1>p. JobInv
  OBVIOUS
<1>1. ASSUME NEW j \in Jobs, NEW u \in Users, Post(j, u)
      PROVE  JobInv'
  BY <1>1, JobKept DEF Post, JobRow, Owners
<1>2. ASSUME NEW j \in Jobs, PostFromDiscord(j)
      PROVE  JobInv'
  BY <1>2, JobKept DEF PostFromDiscord, JobRow, Owners
<1>3. ASSUME NEW j \in Jobs, NEW op \in Operations, NEW expected \in Owners,
             NEW revision \in 0..MaxAudit, NEW owner \in Users, NEW kind \in Kinds,
             Migrate(j, op, expected, revision, owner, kind)
      PROVE  JobInv'
  <2>1. ChangeOwner(j, op, expected, revision, owner, 0) /\ revision \in Nat /\ owner \in Owners
    BY <1>3 DEF Migrate, Owners
  <2> QED BY <2>1, OwnerChanges
<1>4. ASSUME NEW i \in 1..MaxAudit, NEW op \in Operations, Rollback(i, op)
      PROVE  JobInv'
  <2>1. i \in DOMAIN audit /\ audit[i] \in AuditRow /\ i \in Nat /\ i # 0
    BY <1>4, JobInvParts DEF Rollback
  <2>2. /\ audit[i].job \in Jobs /\ audit[i].after \in Owners /\ audit[i].before \in Owners
        /\ audit[i].revision + 1 \in Nat
    BY <2>1 DEF AuditRow
  <2>3. ChangeOwner(audit[i].job, op, audit[i].after, audit[i].revision + 1, audit[i].before, i)
    BY <1>4 DEF Rollback
  <2> QED BY <2>1, <2>2, <2>3, OwnerChanges
<1>5. ASSUME NEW j \in Jobs, job[j] # None, job' = [job EXCEPT ![j].open = FALSE],
             UNCHANGED audit
      PROVE  JobInv'
  <2> DEFINE new == [job[j] EXCEPT !.open = FALSE]
  <2>1. job[j] \in JobRow
    BY <1>5, JobInvParts
  <2>2. new \in JobRow /\ new.revision = job[j].revision /\ new.owner = job[j].owner
    BY <2>1 DEF JobRow
  <2>3. job' = [job EXCEPT ![j] = new]
    BY <1>5
  <2> HIDE DEF new
  <2> QED BY <1>5, <2>2, <2>3, JobKept
<1>6. CASE UNCHANGED jobVars
  BY <1>6 DEF jobVars, vars, JobInv, TypeOK, HistoryIsWhole, RollbacksFollow
<1> QED BY <1>1, <1>2, <1>3, <1>4, <1>5, <1>6 DEF Next, Close, CloseFromDiscord

(* The audit table is the whole history of every owner of a posting, and a *)
(* rollback restores what the row it undoes replaced                        *)
(* (plugins/jobs/owner-migration.ts).                                       *)
THEOREM OwnersAudited == Spec => []OwnersAreAudited
<1>1. JobInv => OwnersAreAudited
  BY DEF JobInv, OwnersAreAudited
<1> QED BY <1>1, JobBegins, JobStep, PTL DEF Spec, jobVars

-----------------------------------------------------------------------------
(* Notices (Notify).                                                       *)

(* What a tick has before it: there is one, it stops with the bot, and     *)
(* nothing it is still to post, or is posting, has been recorded.          *)
RunsAreSound ==
  /\ \A t, u \in Ticks : run[t].stage # 0 /\ run[u].stage # 0 => t = u
  /\ \A t \in Ticks :
       /\ run[t].stage = 0 => run[t] = Notify!Idle
       /\ ~up => run[t].stage = 0
       /\ \A i \in run[t].batch : ledger[i] \in {"pending", "sending", "gone"}
       /\ run[t].sending \notin run[t].batch

(* An admission is in flight only while its row is held, and was not sent  *)
(* before.                                                                 *)
AdmissionsAreHeld ==
  \A i \in Items : Kind[i] \in Notify!AtMostOnce =>
    /\ ledger[i] \in {"absent", "pending"} => delivered[i] = 0
    /\ \A t \in Ticks : run[t].sending = i => ledger[i] = "sending" /\ delivered[i] = 0

TickState == [stage : Nat, batch : SUBSET Items, sending : Items \cup {None}]

NotifyInv ==
  /\ ledger \in [Items -> {"absent", "pending", "sending", "done", "gone"}]
  /\ delivered \in [Items -> 0..2]
  /\ run \in [Ticks -> TickState]
  /\ up \in BOOLEAN
  /\ RunsAreSound /\ AdmissionsAreHeld
  /\ Notify!DeliveriesMatchTheLedger

(* A claim that is held, a notice that is recorded.                        *)
HeldOrSent(i, state, count) ==
  /\ Kind[i] \in Notify!AtMostOnce =>
       count <= 1 /\ (state \in {"absent", "pending"} => count = 0)
  /\ Kind[i] \in Notify!Acked /\ state = "done" => count >= 1

LEMMA NotifyInvParts ==
  ASSUME NotifyInv
  PROVE  /\ ledger \in [Items -> {"absent", "pending", "sending", "done", "gone"}]
         /\ delivered \in [Items -> 0..2] /\ run \in [Ticks -> TickState] /\ up \in BOOLEAN
         /\ None \notin Items
         /\ \A t \in Ticks : /\ run[t].stage \in Nat /\ run[t].batch \subseteq Items
                             /\ run[t].sending \in Items \cup {None}
                             /\ run[t].stage = 0 => run[t] = Notify!Idle
         /\ \A i \in Items : HeldOrSent(i, ledger[i], delivered[i])
<1>1. /\ ledger \in [Items -> {"absent", "pending", "sending", "done", "gone"}]
      /\ delivered \in [Items -> 0..2] /\ run \in [Ticks -> TickState] /\ up \in BOOLEAN
      /\ None \notin Items
  BY NoticesAssumption DEF NotifyInv, Notify!NotifyAssumption
<1>2. \A t \in Ticks : /\ run[t].stage \in Nat /\ run[t].batch \subseteq Items
                       /\ run[t].sending \in Items \cup {None}
                       /\ run[t].stage = 0 => run[t] = Notify!Idle
  BY <1>1 DEF NotifyInv, RunsAreSound, TickState
<1>3. \A i \in Items : HeldOrSent(i, ledger[i], delivered[i])
  BY DEF NotifyInv, HeldOrSent, AdmissionsAreHeld, Notify!DeliveriesMatchTheLedger,
     Notify!AdmissionsAtMostOnce, Notify!RecordedIsDelivered
<1> QED BY <1>1, <1>2, <1>3

LEMMA IdleIsState == Notify!Idle \in TickState /\ Notify!Idle.stage = 0
                     /\ Notify!Idle.batch = {} /\ Notify!Idle.sending = None
  BY DEF Notify!Idle, TickState

(* One tick goes on, the others have not begun.                            *)
LEMMA NotifyTicks ==
  ASSUME NotifyInv, NEW t \in Ticks, NEW new \in TickState, up, up' = up,
         \A u \in Ticks : u # t => run[u].stage = 0,
         run' = [run EXCEPT ![t] = new],
         new.stage = 0 => new = Notify!Idle,
         new.sending \notin new.batch,
         ledger' \in [Items -> {"absent", "pending", "sending", "done", "gone"}],
         delivered' \in [Items -> 0..2],
         \A i \in new.batch : ledger'[i] \in {"pending", "sending", "gone"},
         \A i \in Items : HeldOrSent(i, ledger'[i], delivered'[i]),
         \A i \in Items : Kind[i] \in Notify!AtMostOnce /\ new.sending = i =>
                            ledger'[i] = "sending" /\ delivered'[i] = 0
  PROVE  NotifyInv'
<1>1. /\ run' \in [Ticks -> TickState] /\ run'[t] = new
      /\ \A u \in Ticks : u # t => run'[u] = Notify!Idle
  BY NotifyInvParts
<1>2. RunsAreSound'
  <2>1. ASSUME NEW u \in Ticks
        PROVE  /\ run'[u].stage = 0 => run'[u] = Notify!Idle
               /\ ~up' => run'[u].stage = 0
               /\ \A i \in run'[u].batch : ledger'[i] \in {"pending", "sending", "gone"}
               /\ run'[u].sending \notin run'[u].batch
    <3>1. CASE u = t
      BY <1>1, <3>1
    <3>2. CASE u # t
      BY <1>1, <3>2, IdleIsState
    <3> QED BY <3>1, <3>2
  <2>2. ASSUME NEW u \in Ticks, NEW v \in Ticks, run'[u].stage # 0, run'[v].stage # 0
        PROVE  u = v
    BY <1>1, <2>2, IdleIsState
  <2> QED BY <2>1, <2>2 DEF RunsAreSound
<1>3. AdmissionsAreHeld'
  <2> SUFFICES ASSUME NEW i \in Items, Kind[i] \in Notify!AtMostOnce
               PROVE  /\ ledger'[i] \in {"absent", "pending"} => delivered'[i] = 0
                      /\ \A u \in Ticks : run'[u].sending = i =>
                           ledger'[i] = "sending" /\ delivered'[i] = 0
    BY DEF AdmissionsAreHeld
  <2>1. ASSUME NEW u \in Ticks, run'[u].sending = i
        PROVE  u = t
    BY <1>1, <2>1, IdleIsState, NotifyInvParts
  <2> QED BY <1>1, <2>1 DEF HeldOrSent
<1>4. Notify!DeliveriesMatchTheLedger'
  BY DEF HeldOrSent, Notify!DeliveriesMatchTheLedger,
     Notify!AdmissionsAtMostOnce, Notify!RecordedIsDelivered
<1> QED BY <1>1, <1>2, <1>3, <1>4, NotifyInvParts DEF NotifyInv

(* Another row appears or is withdrawn while the ticks stay as they are.   *)
LEMMA NotifyRows ==
  ASSUME NotifyInv, UNCHANGED <<delivered, run>>,
         up' = up \/ (up' = TRUE /\ \A t \in Ticks : run[t].stage = 0),
         ledger' \in [Items -> {"absent", "pending", "sending", "done", "gone"}],
         \A i \in Items : \/ ledger'[i] = ledger[i]
                          \/ ledger[i] = "absent" /\ ledger'[i] = "pending"
                          \/ ledger[i] = "pending" /\ ledger'[i] = "gone"
  PROVE  NotifyInv'
<1>1. RunsAreSound'
  <2>1. ASSUME NEW t \in Ticks, NEW i \in run[t].batch
        PROVE  ledger'[i] \in {"pending", "sending", "gone"}
    <3>1. i \in Items /\ ledger[i] \in {"pending", "sending", "gone"}
      BY <2>1, NotifyInvParts DEF NotifyInv, RunsAreSound
    <3> QED BY <3>1
  <2>2. \A t \in Ticks : ~up' => run[t].stage = 0
    BY DEF NotifyInv, RunsAreSound
  <2> QED BY <2>1, <2>2 DEF NotifyInv, RunsAreSound
<1>2. AdmissionsAreHeld'
  BY NotifyInvParts DEF NotifyInv, AdmissionsAreHeld
<1>3. Notify!DeliveriesMatchTheLedger'
  BY NotifyInvParts DEF HeldOrSent, Notify!DeliveriesMatchTheLedger,
     Notify!AdmissionsAtMostOnce, Notify!RecordedIsDelivered
<1> QED BY <1>1, <1>2, <1>3, NotifyInvParts DEF NotifyInv

LEMMA NotifyBegins == Notify!Init => NotifyInv
<1> SUFFICES ASSUME Notify!Init
             PROVE  NotifyInv
  OBVIOUS
<1>1. /\ \A t \in Ticks : run[t] = Notify!Idle
      /\ run \in [Ticks -> TickState] /\ up \in BOOLEAN /\ None \notin Items
  BY IdleIsState, NoticesAssumption DEF Notify!Init, Notify!NotifyAssumption
<1>2. /\ ledger \in [Items -> {"absent", "pending", "sending", "done", "gone"}]
      /\ delivered \in [Items -> 0..2]
      /\ \A i \in Items : ledger[i] = "absent" /\ delivered[i] = 0
  BY DEF Notify!Init
<1>3. RunsAreSound
  BY <1>1, IdleIsState DEF RunsAreSound
<1>4. AdmissionsAreHeld
  BY <1>1, <1>2, IdleIsState DEF AdmissionsAreHeld
<1>5. Notify!DeliveriesMatchTheLedger
  BY <1>2 DEF Notify!DeliveriesMatchTheLedger, Notify!AdmissionsAtMostOnce,
     Notify!RecordedIsDelivered
<1> QED BY <1>1, <1>2, <1>3, <1>4, <1>5 DEF NotifyInv

(* A source is entered with rows that are pending.                         *)
LEMMA EnterIsState ==
  ASSUME NEW n \in Nat \ {0}
  PROVE  /\ Notify!Enter(n) \in TickState /\ Notify!Enter(n).stage # 0
         /\ Notify!Enter(n).sending = None
         /\ \A i \in Notify!Enter(n).batch : i \in Items /\ ledger[i] = "pending"
  BY DEF Notify!Enter, Notify!Rows, TickState

(* A throw ends the batch, and the tick unless the source is isolated.     *)
LEMMA ThrownIsState ==
  ASSUME NEW s \in TickState
  PROVE  /\ Notify!Thrown(s) \in TickState /\ Notify!Thrown(s).batch = {}
         /\ Notify!Thrown(s).sending = None
         /\ Notify!Thrown(s) = Notify!Idle \/ Notify!Thrown(s).stage = s.stage
  BY IdleIsState DEF Notify!Thrown, TickState

(* Who is at work is alone.                                                *)
LEMMA TickIsAlone ==
  ASSUME NotifyInv, NEW t \in Ticks,
         run[t].stage # 0 \/ run[t].sending # None
  PROVE  /\ run[t].stage # 0 /\ run[t] \in TickState /\ run[t].stage \in Nat
         /\ run[t].sending \notin run[t].batch /\ run[t].batch \subseteq Items
         /\ \A u \in Ticks : u # t => run[u].stage = 0
         /\ \A i \in run[t].batch : ledger[i] \in {"pending", "sending", "gone"}
         /\ \A i \in Items : Kind[i] \in Notify!AtMostOnce /\ run[t].sending = i =>
                            ledger[i] = "sending" /\ delivered[i] = 0
<1>1. run[t].stage # 0
  BY NotifyInvParts, IdleIsState
<1> QED BY <1>1, NotifyInvParts DEF NotifyInv, RunsAreSound, AdmissionsAreHeld

(* The steps of a tick that leave rows and messages alone.                 *)
LEMMA NotifyWalks ==
  ASSUME NotifyInv, NEW t \in Ticks,
         Notify!StartTick(t) \/ Notify!Advance(t) \/ Notify!StageFails(t)
  PROVE  NotifyInv'
<1> USE NotifyInvParts
<1>1. CASE Notify!StartTick(t)
  <2> DEFINE new == Notify!Enter(1)
  <2>1. /\ up /\ up' = up /\ ledger' = ledger /\ delivered' = delivered
        /\ \A u \in Ticks : run[u].stage = 0
        /\ run' = [run EXCEPT ![t] = new]
    BY <1>1 DEF Notify!StartTick
  <2>2. /\ new \in TickState /\ new.stage # 0 /\ new.sending \notin new.batch
        /\ new.sending \notin Items
        /\ \A i \in new.batch : ledger[i] \in {"pending", "sending", "gone"}
    BY EnterIsState
  <2> HIDE DEF new
  <2> QED BY <2>1, <2>2, NotifyTicks
<1>2. CASE Notify!Advance(t)
  <2> DEFINE new == IF run[t].stage = Notify!Last THEN Notify!Idle
                    ELSE Notify!Enter(run[t].stage + 1)
  <2>1. /\ up /\ up' = up /\ ledger' = ledger /\ delivered' = delivered
        /\ run[t].stage # 0 /\ run' = [run EXCEPT ![t] = new]
    BY <1>2 DEF Notify!Advance, Notify!AtRest
  <2>2. run[t].stage + 1 \in Nat \ {0}
    BY <2>1
  <2>3. /\ new \in TickState /\ (new.stage = 0 => new = Notify!Idle)
        /\ new.sending \notin new.batch /\ new.sending \notin Items
        /\ \A i \in new.batch : ledger[i] \in {"pending", "sending", "gone"}
    BY <2>2, EnterIsState, IdleIsState
  <2> HIDE DEF new
  <2>4. \A u \in Ticks : u # t => run[u].stage = 0
    BY <2>1, TickIsAlone
  <2> QED BY <2>1, <2>3, <2>4, NotifyTicks
<1>3. CASE Notify!StageFails(t)
  <2> DEFINE new == Notify!Thrown(run[t])
  <2>1. /\ up /\ up' = up /\ ledger' = ledger /\ delivered' = delivered
        /\ run[t].stage # 0 /\ run' = [run EXCEPT ![t] = new]
    BY <1>3 DEF Notify!StageFails, Notify!AtRest
  <2>2. /\ new \in TickState /\ (new.stage = 0 => new = Notify!Idle)
        /\ new.sending = None /\ new.batch = {}
    BY <2>1, ThrownIsState, IdleIsState
  <2> HIDE DEF new
  <2> QED BY <2>1, <2>2, NotifyTicks, TickIsAlone
<1> QED BY <1>1, <1>2, <1>3

(* A row is claimed and posted.                                            *)
LEMMA NotifyPosts ==
  ASSUME NotifyInv, NEW t \in Ticks, NEW i \in Items, Notify!Post(t, i)
  PROVE  /\ NotifyInv'
         /\ \A u \in Ticks, j \in Items :
              run'[u].sending = j /\ run[u].sending # j => ledger[j] # "done"
<1> USE NotifyInvParts
<1>1. /\ up /\ up' = up /\ delivered' = delivered /\ run[t].stage # 0
      /\ i \in run[t].batch
  BY DEF Notify!Post, Notify!AtRest, Notify!Oldest
<1>2. /\ run[t] \in TickState /\ \A u \in Ticks : u # t => run[u].stage = 0
      /\ \A j \in run[t].batch : ledger[j] \in {"pending", "sending", "gone"}
  BY <1>1, TickIsAlone
<1>3. ASSUME NEW item \in {i, None}, run' = [run EXCEPT ![t].batch = @ \ {i}, ![t].sending = item],
             ledger' \in [Items -> {"absent", "pending", "sending", "done", "gone"}],
             \A j \in Items : \/ ledger'[j] = ledger[j]
                              \/ ledger[j] = "pending" /\ ledger'[j] = "sending",
             Kind[i] \in Notify!AtMostOnce /\ item = i => ledger'[i] = "sending" /\ delivered[i] = 0
      PROVE  /\ NotifyInv'
             /\ \A u \in Ticks, j \in Items :
                  run'[u].sending = j /\ run[u].sending # j => ledger[j] # "done"
  <2> DEFINE new == [run[t] EXCEPT !.batch = run[t].batch \ {i}, !.sending = item]
  <2>1. /\ run' = [run EXCEPT ![t] = new] /\ run'[t] = new
        /\ \A u \in Ticks : u # t => run'[u] = run[u]
    BY <1>3
  <2>2. /\ new \in TickState /\ new.stage = run[t].stage /\ new.batch = run[t].batch \ {i}
        /\ new.sending = item
    BY <1>2, <1>3 DEF TickState
  <2> HIDE DEF new
  <2>3. new.sending \notin new.batch
    BY <1>3, <2>2
  <2>4. \A j \in new.batch : ledger'[j] \in {"pending", "sending", "gone"}
    <3> SUFFICES ASSUME NEW j \in new.batch
                 PROVE  ledger'[j] \in {"pending", "sending", "gone"}
      OBVIOUS
    <3>1. j \in Items /\ ledger[j] \in {"pending", "sending", "gone"}
      BY <1>2, <2>2
    <3> QED BY <1>3, <3>1
  <2>5. \A j \in Items : HeldOrSent(j, ledger'[j], delivered'[j])
    BY <1>1, <1>3 DEF HeldOrSent
  <2>6. NotifyInv'
    <3>1. \A j \in Items : Kind[j] \in Notify!AtMostOnce /\ new.sending = j =>
                           ledger'[j] = "sending" /\ delivered'[j] = 0
      BY <1>1, <1>3, <2>2
    <3>2. new.stage # 0 /\ delivered' \in [Items -> 0..2]
      BY <1>1, <2>2
    <3>3. /\ new \in TickState /\ (new.stage = 0 => new = Notify!Idle)
          /\ up /\ up' = up
          /\ \A u \in Ticks : u # t => run[u].stage = 0
          /\ run' = [run EXCEPT ![t] = new]
      BY <1>1, <1>2, <2>1, <2>2, <3>2
    <3>4. ledger' \in [Items -> {"absent", "pending", "sending", "done", "gone"}]
          /\ delivered' \in [Items -> 0..2]
      BY <1>3, <3>2
    <3> QED BY ONLY NotifyInv, <2>3, <2>4, <2>5, <3>1, <3>3, <3>4, NotifyTicks
  <2>7. ASSUME NEW u \in Ticks, NEW j \in Items, run'[u].sending = j, run[u].sending # j
        PROVE  ledger[j] # "done"
    <3>1. u = t /\ j = i
      BY <1>3, <2>1, <2>2, <2>7
    <3> QED BY <1>1, <1>2, <3>1
  <2> QED BY <2>6, <2>7
<1>4. CASE Kind[i] \in Notify!AtMostOnce
  <2> DEFINE item == IF ledger[i] = "pending" THEN i ELSE None
  <2>1. /\ run' = [run EXCEPT ![t].batch = @ \ {i}, ![t].sending = item]
        /\ ledger' = [ledger EXCEPT ![i] = IF ledger[i] = "pending" THEN "sending" ELSE ledger[i]]
    BY <1>4 DEF Notify!Post
  <2>2. /\ ledger' \in [Items -> {"absent", "pending", "sending", "done", "gone"}]
        /\ \A j \in Items : \/ ledger'[j] = ledger[j]
                            \/ ledger[j] = "pending" /\ ledger'[j] = "sending"
        /\ ledger[i] = "pending" => ledger'[i] = "sending"
    BY <2>1
  <2>3. item \in {i, None} /\ (item = i => ledger[i] = "pending")
    OBVIOUS
  <2>4. item = i => ledger'[i] = "sending" /\ delivered[i] = 0
    BY <1>4, <2>2, <2>3 DEF HeldOrSent
  <2> HIDE DEF item
  <2> QED BY <1>3, <2>1, <2>2, <2>3, <2>4
<1>5. CASE Kind[i] \notin Notify!AtMostOnce
  <2>1. run' = [run EXCEPT ![t].batch = @ \ {i}, ![t].sending = i] /\ ledger' = ledger
    BY <1>5 DEF Notify!Post
  <2> QED BY <1>3, <1>5, <2>1
<1> QED BY <1>4, <1>5

(* An answer, or none: the row in flight is let go.                        *)
LEMMA NotifySettles ==
  ASSUME NotifyInv, NEW t \in Ticks, NEW i \in Items,
         \/ Notify!Answered(t, i) \/ Notify!RecordFails(t, i) \/ Notify!Unanswered(t, i)
  PROVE  NotifyInv' /\ run'[t].sending = None /\ \A u \in Ticks : u # t => run'[u] = run[u]
<1> USE NotifyInvParts
<1>1. up /\ up' = up /\ run[t].sending = i
  BY DEF Notify!Answered, Notify!RecordFails, Notify!Unanswered
<1>2. /\ run[t] \in TickState /\ run[t].stage # 0
      /\ \A u \in Ticks : u # t => run[u].stage = 0
      /\ \A j \in run[t].batch : ledger[j] \in {"pending", "sending", "gone"} /\ j # i /\ j \in Items
      /\ Kind[i] \in Notify!AtMostOnce => ledger[i] = "sending" /\ delivered[i] = 0
  BY <1>1, TickIsAlone
<1>3. PICK new \in {[run[t] EXCEPT !.sending = None], Notify!Thrown(run[t])} :
        run' = [run EXCEPT ![t] = new]
  BY DEF Notify!Answered, Notify!RecordFails, Notify!Unanswered
<1>4. /\ new \in TickState /\ new.sending = None /\ new.batch \subseteq run[t].batch
      /\ new.stage = 0 => new = Notify!Idle
  <2>1. CASE new = [run[t] EXCEPT !.sending = None]
    BY <1>2, <2>1 DEF TickState
  <2>2. CASE new = Notify!Thrown(run[t])
    BY <1>2, <2>2, ThrownIsState, IdleIsState
  <2> QED BY <1>3, <2>1, <2>2
<1>5. /\ run'[t] = new /\ \A u \in Ticks : u # t => run'[u] = run[u]
  BY <1>3
<1>6. PICK count \in {delivered[i], Notify!More(delivered[i])} :
        delivered' = [delivered EXCEPT ![i] = count]
  BY DEF Notify!Answered, Notify!RecordFails, Notify!Unanswered
<1>7. /\ count \in 0..2 /\ count >= delivered[i]
      /\ delivered[i] = 0 => count \in {0, 1}
      /\ delivered' \in [Items -> 0..2] /\ delivered'[i] = count
      /\ \A j \in Items : j # i => delivered'[j] = delivered[j]
  <2>1. delivered[i] \in 0..2
    OBVIOUS
  <2>2. count \in 0..2 /\ count >= delivered[i] /\ (delivered[i] = 0 => count \in {0, 1})
    BY <1>6, <2>1 DEF Notify!More
  <2> QED BY <1>6, <2>2
<1>8. PICK state \in {"absent", "pending", "sending", "done", "gone"} :
        /\ ledger' = [ledger EXCEPT ![i] = state]
        /\ \/ state = ledger[i]
           \/ state = "done" /\ (Kind[i] \in Notify!Acked => count >= 1)
  <2>1. CASE ledger' = ledger
    <3>1. ledger' = [ledger EXCEPT ![i] = ledger[i]] /\ ledger[i] \in {"absent", "pending", "sending", "done", "gone"}
      BY <2>1
    <3> QED BY <3>1
  <2>2. CASE Notify!Record(i) /\ ledger' # ledger
    <3> DEFINE s == IF ledger[i] \in {"pending", "sending"} THEN "done" ELSE ledger[i]
    <3>1. ledger' = [ledger EXCEPT ![i] = s] /\ s \in {"absent", "pending", "sending", "done", "gone"}
      BY <2>2 DEF Notify!Record
    <3>2. Kind[i] \in Notify!Acked => count >= 1
      <4>1. CASE Notify!Answered(t, i)
        <5>1. delivered'[i] = Notify!More(delivered[i]) /\ Notify!More(delivered[i]) \in {1, 2}
          BY <4>1 DEF Notify!Answered, Notify!More
        <5> QED BY <1>7, <5>1
      <4>2. CASE Notify!RecordFails(t, i)
        <5>1. delivered'[i] = Notify!More(delivered[i]) /\ Notify!More(delivered[i]) \in {1, 2}
          BY <4>2 DEF Notify!RecordFails, Notify!More
        <5> QED BY <1>7, <5>1
      <4>3. CASE Notify!Unanswered(t, i)
        <5>1. Kind[i] \in Notify!BestEffort
          BY <2>2, <4>3 DEF Notify!Unanswered
        <5> QED BY <5>1 DEF Notify!Acked
      <4> QED BY <4>1, <4>2, <4>3
    <3>3. s = ledger[i] \/ s = "done"
      OBVIOUS
    <3> HIDE DEF s
    <3> QED BY <3>1, <3>2, <3>3
  <2> QED BY <2>1, <2>2 DEF Notify!Answered, Notify!RecordFails, Notify!Unanswered
<1>9. /\ ledger' \in [Items -> {"absent", "pending", "sending", "done", "gone"}]
      /\ ledger'[i] = state /\ \A j \in Items : j # i => ledger'[j] = ledger[j]
  BY <1>8
<1>10. ASSUME NEW j \in Items
       PROVE  HeldOrSent(j, ledger'[j], delivered'[j])
  <2>1. CASE j = i
    <3>1. Kind[i] \in Notify!AtMostOnce => count \in {0, 1} /\ state \in {"sending", "done"}
      BY <1>2, <1>7, <1>8
    <3>2. Kind[i] \in Notify!Acked /\ state = "done" => count >= 1
      BY <1>7, <1>8 DEF HeldOrSent
    <3> QED BY <1>7, <1>9, <2>1, <3>1, <3>2 DEF HeldOrSent
  <2>2. CASE j # i
    BY <1>7, <1>9, <2>2
  <2> QED BY <2>1, <2>2
<1>11. \A j \in new.batch : ledger'[j] \in {"pending", "sending", "gone"}
  BY <1>2, <1>4, <1>9
<1>12. NotifyInv'
  <2>1. new.sending \notin Items /\ new.sending \notin new.batch
    BY <1>2, <1>4
  <2>2. run' = [run EXCEPT ![t] = new]
    BY <1>3
  <2>3. ledger' \in [Items -> {"absent", "pending", "sending", "done", "gone"}]
        /\ delivered' \in [Items -> 0..2]
    BY <1>7, <1>9
  <2>4. /\ \A j \in new.batch : ledger'[j] \in {"pending", "sending", "gone"}
        /\ \A j \in Items : Kind[j] \in Notify!AtMostOnce /\ new.sending = j =>
                            ledger'[j] = "sending" /\ delivered'[j] = 0
    BY <1>11, <2>1
  <2>5. \A j \in Items : HeldOrSent(j, ledger'[j], delivered'[j])
    BY <1>10
  <2>6. /\ new \in TickState /\ (new.stage = 0 => new = Notify!Idle)
        /\ up /\ up' = up
        /\ \A u \in Ticks : u # t => run[u].stage = 0
    BY <1>1, <1>2, <1>4
  <2> QED BY ONLY NotifyInv, <2>1, <2>2, <2>3, <2>4, <2>5, <2>6, NotifyTicks
<1> QED BY <1>4, <1>5, <1>12

(* The bot stops: what was in flight may have been delivered.              *)
LEMMA NotifyStops ==
  ASSUME NotifyInv, Notify!Stop
  PROVE  NotifyInv' /\ \A u \in Ticks : run'[u].sending = None
<1> USE NotifyInvParts
<1>1. PICK got \in SUBSET {i \in Items : \E t \in Ticks : run[t].sending = i} :
        delivered' = [i \in Items |-> IF i \in got THEN Notify!More(delivered[i]) ELSE delivered[i]]
  BY DEF Notify!Stop
<1>2. up' = FALSE /\ run' = [t \in Ticks |-> Notify!Idle] /\ ledger' = ledger
  BY DEF Notify!Stop
<1>3. ASSUME NEW i \in Items
      PROVE  /\ delivered'[i] \in 0..2 /\ delivered'[i] >= delivered[i]
             /\ Kind[i] \in Notify!AtMostOnce =>
                  \/ delivered'[i] = delivered[i]
                  \/ delivered'[i] = 1 /\ ledger[i] = "sending"
  <2>1. delivered[i] \in 0..2
    OBVIOUS
  <2>2. CASE i \in got
    <3>1. PICK t \in Ticks : run[t].sending = i
      BY <1>1, <2>2
    <3>2. delivered'[i] = Notify!More(delivered[i])
      BY <1>1, <2>2
    <3>3. Kind[i] \in Notify!AtMostOnce => ledger[i] = "sending" /\ delivered[i] = 0
      BY <3>1 DEF NotifyInv, AdmissionsAreHeld
    <3> QED BY <2>1, <3>2, <3>3 DEF Notify!More
  <2>3. CASE i \notin got
    BY <1>1, <2>1, <2>3
  <2> QED BY <2>2, <2>3
<1>4. delivered' \in [Items -> 0..2]
  BY <1>1, <1>3
<1>5. \A t \in Ticks : run'[t] = Notify!Idle
  BY <1>2
<1>6. RunsAreSound' /\ run' \in [Ticks -> TickState]
  BY <1>2, <1>5, IdleIsState DEF RunsAreSound
<1>7. AdmissionsAreHeld'
  BY <1>2, <1>3, <1>5, IdleIsState DEF NotifyInv, AdmissionsAreHeld
<1>8. Notify!DeliveriesMatchTheLedger'
  <2>1. ASSUME NEW i \in Items
        PROVE  HeldOrSent(i, ledger'[i], delivered'[i])
    <3>1. HeldOrSent(i, ledger[i], delivered[i]) /\ delivered[i] \in 0..2
      OBVIOUS
    <3> QED BY <1>2, <1>3, <3>1 DEF HeldOrSent
  <2> QED BY <2>1 DEF HeldOrSent, Notify!DeliveriesMatchTheLedger,
             Notify!AdmissionsAtMostOnce, Notify!RecordedIsDelivered
<1> QED BY <1>2, <1>4, <1>5, <1>6, <1>7, <1>8, IdleIsState DEF NotifyInv

(* What a step of the bot or of the Hub keeps, and what it may begin.      *)
PostedBefore ==
  \A t \in Ticks, i \in Items :
    run'[t].sending = i /\ run[t].sending # i => ledger[i] # "done"

LEMMA NotifyStep == NotifyInv /\ [Notify!Next]_notifyVars => NotifyInv' /\ [PostedBefore]_notifyVars
<1> SUFFICES ASSUME NotifyInv, [Notify!Next]_notifyVars
             PROVE  NotifyInv' /\ [PostedBefore]_notifyVars
  OBVIOUS
<1> USE NotifyInvParts
<1>1. ASSUME NEW i \in Items, Notify!Publish(i) \/ Notify!Withdraw(i)
      PROVE  NotifyInv' /\ PostedBefore
  <2>1. /\ UNCHANGED <<delivered, run>> /\ up' = up
        /\ ledger' \in [Items -> {"absent", "pending", "sending", "done", "gone"}]
        /\ \A j \in Items : \/ ledger'[j] = ledger[j]
                            \/ ledger[j] = "absent" /\ ledger'[j] = "pending"
                            \/ ledger[j] = "pending" /\ ledger'[j] = "gone"
    BY <1>1 DEF Notify!Publish, Notify!Withdraw
  <2> QED BY <2>1, NotifyRows DEF PostedBefore
<1>2. ASSUME NEW t \in Ticks, Notify!StartTick(t) \/ Notify!Advance(t) \/ Notify!StageFails(t)
      PROVE  NotifyInv' /\ PostedBefore
  <2>1. PICK new : run' = [run EXCEPT ![t] = new] /\ new.sending = None
    <3>1. CASE Notify!StartTick(t)
      <4>1. Notify!Enter(1).sending = None
        BY EnterIsState
      <4> QED BY <3>1, <4>1 DEF Notify!StartTick
    <3>2. CASE Notify!StageFails(t)
      BY <3>2, ThrownIsState DEF Notify!StageFails
    <3>3. CASE Notify!Advance(t)
      <4>1. run[t].stage + 1 \in Nat \ {0}
        OBVIOUS
      <4> QED BY <3>3, <4>1, EnterIsState, IdleIsState DEF Notify!Advance
    <3> QED BY <1>2, <3>1, <3>2, <3>3
  <2>2. PostedBefore
    BY <2>1 DEF PostedBefore
  <2> QED BY <1>2, <2>2, NotifyWalks
<1>3. ASSUME NEW t \in Ticks, NEW i \in Items, Notify!Post(t, i)
      PROVE  NotifyInv' /\ PostedBefore
  BY <1>3, NotifyPosts DEF PostedBefore
<1>4. ASSUME NEW t \in Ticks, NEW i \in Items,
             Notify!Answered(t, i) \/ Notify!RecordFails(t, i) \/ Notify!Unanswered(t, i)
      PROVE  NotifyInv' /\ PostedBefore
  BY <1>4, NotifySettles DEF PostedBefore
<1>5. CASE Notify!Stop
  BY <1>5, NotifyStops DEF PostedBefore
<1>6. CASE Notify!Restart
  <2>1. \A t \in Ticks : run[t].stage = 0
    BY <1>6 DEF NotifyInv, RunsAreSound, Notify!Restart
  <2>2. UNCHANGED <<ledger, delivered, run>> /\ up' = TRUE
    BY <1>6 DEF Notify!Restart
  <2> QED BY <2>1, <2>2, NotifyRows DEF PostedBefore
<1>7. CASE UNCHANGED notifyVars
  <2>1. UNCHANGED <<ledger, delivered, run, up>>
    BY <1>7 DEF notifyVars
  <2> QED BY <1>7, <2>1, NotifyRows
<1> QED BY <1>1, <1>2, <1>3, <1>4, <1>5, <1>6, <1>7 DEF Notify!Next

LEMMA LedgerFollows == Notify!Init /\ [][Notify!Next]_(Notify!vars) => LedgerIsKept
<1>1. NotifyInv => Notify!DeliveriesMatchTheLedger
  BY DEF NotifyInv
<1>2. [PostedBefore]_notifyVars =>
        [\A t \in Ticks, i \in Items :
           run'[t].sending = i /\ run[t].sending # i => ledger[i] # "done"]_(Notify!vars)
  BY DEF PostedBefore, notifyVars, Notify!vars
<1>3. [Notify!Next]_(Notify!vars) => [Notify!Next]_notifyVars
  BY DEF notifyVars, Notify!vars
<1> QED BY <1>1, <1>2, <1>3, NotifyBegins, NotifyStep, PTL
        DEF LedgerIsKept, Notify!LedgerIsKept, Notify!NoPostAfterRecord

(* Whatever answer is lost and wherever the bot stops, an admission is     *)
(* announced at most once, no acknowledged notice is recorded that Discord *)
(* does not have, and nothing is posted that is recorded: with any number  *)
(* of rows, and whatever order and limit the queries have (bot/notify).    *)
THEOREM LedgerKept == Notify!Spec => LedgerIsKept
BY LedgerFollows, PTL DEF Notify!Spec

-----------------------------------------------------------------------------
(* Members (Roster).                                                       *)

RosterInv == Roster!TypeOK /\ Roster!RosterIsCurrent

RosterRow == [user : Linked \cup {None}, named : BOOLEAN, handle : Handles \cup {None},
              discord : Handles \cup {None}]

LEMMA RosterInvParts ==
  ASSUME RosterInv
  PROVE  /\ member \in [Members -> {None, Deleted} \cup RosterRow]
         /\ tick \subseteq [id : Members, handle : Handles] /\ stopped \in BOOLEAN
         /\ None \notin RosterRow /\ Deleted \notin RosterRow /\ None # Deleted
         /\ None \notin Handles /\ None \notin Linked
         /\ \A m \in Roster!Listed : m \in Members /\ member[m] \in RosterRow
         /\ \A m \in Members : member[m] \in RosterRow => m \in Roster!Listed
<1>1. None \notin RosterRow /\ Deleted \notin RosterRow /\ None # Deleted
      /\ None \notin Handles /\ None \notin Linked
  BY MembersAssumption DEF Roster!RosterAssumption, RosterRow
<1>2. /\ member \in [Members -> {None, Deleted} \cup RosterRow]
      /\ tick \subseteq [id : Members, handle : Handles] /\ stopped \in BOOLEAN
  BY DEF RosterInv, Roster!TypeOK, Roster!Logins, RosterRow
<1> HIDE DEF RosterRow
<1> QED BY <1>1, <1>2 DEF Roster!Listed

(* One row is written: what it says is its own and nobody else's.          *)
LEMMA RosterWrites ==
  ASSUME RosterInv, NEW m \in Members, NEW new \in RosterRow,
         member' = [member EXCEPT ![m] = new],
         new.discord # None => new.discord = new.handle,
         new.user # None => ~new.named,
         \A n \in Roster!Listed \ {m} :
           /\ new.discord # None => member[n].discord # new.discord
           /\ new.user # None => member[n].user # new.user,
         tick' \subseteq tick, stopped' \in BOOLEAN
  PROVE  RosterInv'
<1> USE RosterInvParts
<1>1. /\ member'[m] = new /\ \A n \in Members : n # m => member'[n] = member[n]
      /\ member' \in [Members -> {None, Deleted} \cup RosterRow]
  OBVIOUS
<1>2. \A n \in Roster!Listed' : n \in Members /\ (n # m => n \in Roster!Listed)
  BY <1>1 DEF Roster!Listed
<1>3. Roster!TypeOK'
  BY <1>1 DEF Roster!TypeOK, Roster!Logins, RosterRow
<1>4. ASSUME NEW n \in Roster!Listed'
      PROVE  /\ member'[n].discord # None => member'[n].discord = member'[n].handle
             /\ member'[n].user # None => ~member'[n].named
             /\ \A k \in Roster!Listed' \ {n} :
                  /\ member'[n].discord # None => member'[k].discord # member'[n].discord
                  /\ member'[n].user # None => member'[k].user # member'[n].user
  <2>1. CASE n = m
    BY <1>1, <1>2, <2>1
  <2>2. CASE n # m
    <3>1. member'[n] = member[n] /\ n \in Roster!Listed \ {m}
      BY <1>1, <1>2, <1>4, <2>2
    <3>2. ASSUME NEW k \in Roster!Listed' \ {n}
          PROVE  /\ member[n].discord # None => member'[k].discord # member[n].discord
                 /\ member[n].user # None => member'[k].user # member[n].user
      <4>1. CASE k = m
        BY <1>1, <3>1, <4>1
      <4>2. CASE k # m
        BY <1>1, <1>2, <3>1, <3>2, <4>2 DEF RosterInv, Roster!RosterIsCurrent
      <4> QED BY <4>1, <4>2
    <3>3. /\ member[n].discord # None => member[n].discord = member[n].handle
          /\ member[n].user # None => ~member[n].named
      BY <3>1 DEF RosterInv, Roster!RosterIsCurrent
    <3> QED BY <3>1, <3>2, <3>3
  <2> QED BY <2>1, <2>2
<1>5. Roster!RosterIsCurrent'
  BY <1>4 DEF Roster!RosterIsCurrent
<1> QED BY <1>3, <1>5 DEF RosterInv

(* What is left of the tick is of no matter to the rows.                   *)
LEMMA RosterTicks ==
  ASSUME RosterInv, member' = member, tick' \subseteq [id : Members, handle : Handles],
         stopped' \in BOOLEAN
  PROVE  RosterInv'
BY DEF RosterInv, Roster!TypeOK, Roster!RosterIsCurrent, Roster!Listed, Roster!Logins

LEMMA RosterBegins == Roster!Init => RosterInv
BY MembersAssumption DEF Roster!Init, RosterInv, Roster!TypeOK, Roster!RosterIsCurrent,
   Roster!Listed, Roster!RosterAssumption, Roster!Logins

LEMMA RosterStep == RosterInv /\ [Roster!Next]_rosterVars => RosterInv'
<1> SUFFICES ASSUME RosterInv, [Roster!Next]_rosterVars
             PROVE  RosterInv'
  OBVIOUS
<1> USE RosterInvParts
<1>r. \A m \in Roster!Listed : /\ member[m].discord # None => member[m].discord = member[m].handle
                               /\ member[m].user # None => ~member[m].named
                               /\ \A n \in Roster!Listed \ {m} :
                                    /\ member[m].discord # None =>
                                         member[n].discord # member[m].discord
                                    /\ member[m].user # None => member[n].user # member[m].user
  BY DEF RosterInv, Roster!RosterIsCurrent
<1>1. ASSUME NEW m \in Members, NEW h \in Roster!Logins, Roster!Create(m, h)
      PROVE  RosterInv'
  <2> DEFINE new == [user |-> None, named |-> TRUE, handle |-> h, discord |-> None]
  <2>1. /\ new \in RosterRow /\ new.discord = None /\ new.user = None
        /\ member' = [member EXCEPT ![m] = new] /\ tick' = tick /\ stopped' = stopped
    BY <1>1 DEF Roster!Create, RosterRow, Roster!Logins
  <2> HIDE DEF new
  <2> QED BY <2>1, RosterWrites
<1>2. ASSUME NEW m \in Members, NEW h \in Roster!Logins, Roster!ChangeHandle(m, h)
      PROVE  RosterInv'
  <2> DEFINE id == IF member[m].handle = h THEN member[m].discord ELSE None
             new == [member[m] EXCEPT !.handle = h, !.discord = id]
  <2>1. m \in Roster!Listed /\ member[m] \in RosterRow
    BY <1>2 DEF Roster!ChangeHandle
  <2>2. /\ new \in RosterRow /\ new.discord = id /\ new.handle = h
        /\ new.user = member[m].user /\ new.named = member[m].named
    BY <2>1 DEF RosterRow, Roster!Logins
  <2>3. member' = [member EXCEPT ![m] = new] /\ tick' = tick /\ stopped' = stopped
    BY <1>2, <2>1 DEF Roster!ChangeHandle
  <2>4. id # None => id = member[m].discord /\ member[m].handle = h
    OBVIOUS
  <2> HIDE DEF new, id
  <2>5. new.user # None => ~new.named
    BY <1>r, <2>1, <2>2
  <2>6. new.discord # None => new.discord = new.handle
    BY <1>r, <2>1, <2>2, <2>4
  <2>7. \A n \in Roster!Listed \ {m} :
           /\ new.discord # None => member[n].discord # new.discord
           /\ new.user # None => member[n].user # new.user
    BY <1>r, <2>1, <2>2, <2>4
  <2> QED BY <2>2, <2>3, <2>5, <2>6, <2>7, RosterWrites
<1>3. ASSUME NEW m \in Members, Roster!Rename(m)
      PROVE  RosterInv'
  <2> DEFINE new == [member[m] EXCEPT !.named = (member[m].user = None)]
  <2>1. m \in Roster!Listed /\ member[m] \in RosterRow
    BY <1>3 DEF Roster!Rename
  <2>2. /\ new \in RosterRow /\ new.discord = member[m].discord
        /\ new.handle = member[m].handle /\ new.user = member[m].user
        /\ new.user # None => ~new.named
    BY <2>1 DEF RosterRow
  <2>3. member' = [member EXCEPT ![m] = new] /\ tick' = tick /\ stopped' = stopped
    BY <1>3, <2>1 DEF Roster!Rename
  <2> HIDE DEF new
  <2>4. \A n \in Roster!Listed \ {m} :
           /\ new.discord # None => member[n].discord # new.discord
           /\ new.user # None => member[n].user # new.user
    BY <1>r, <2>1, <2>2
  <2>5. new.discord # None => new.discord = new.handle
    BY <1>r, <2>1, <2>2
  <2> QED BY <2>2, <2>3, <2>4, <2>5, RosterWrites
<1>4. ASSUME NEW m \in Members, Roster!Delete(m)
      PROVE  RosterInv'
  <2>1. /\ member' \in [Members -> {None, Deleted} \cup RosterRow]
        /\ \A n \in Roster!Listed' : n \in Roster!Listed /\ member'[n] = member[n]
    BY <1>4 DEF Roster!Delete, Roster!Listed
  <2>2. tick' = tick /\ stopped' = stopped
    BY <1>4 DEF Roster!Delete
  <2>3. Roster!TypeOK'
    BY <2>1, <2>2 DEF Roster!TypeOK, RosterRow, Roster!Logins
  <2>4. Roster!RosterIsCurrent'
    BY <1>r, <2>1 DEF Roster!RosterIsCurrent
  <2> QED BY <2>3, <2>4 DEF RosterInv
<1>5. ASSUME NEW m \in Members, NEW u \in Linked, Roster!Link(m, u)
      PROVE  RosterInv'
  <2> DEFINE new == [member[m] EXCEPT !.user = u, !.named = FALSE]
  <2>1. m \in Roster!Listed /\ member[m] \in RosterRow
        /\ \A n \in Roster!Listed : member[n].user # u
    BY <1>5 DEF Roster!Link
  <2>2. /\ new \in RosterRow /\ new.discord = member[m].discord
        /\ new.handle = member[m].handle /\ new.user = u /\ ~new.named
    BY <2>1 DEF RosterRow
  <2>3. member' = [member EXCEPT ![m] = new] /\ tick' = tick /\ stopped' = stopped
    BY <1>5, <2>1 DEF Roster!Link
  <2> HIDE DEF new
  <2>4. \A n \in Roster!Listed \ {m} :
           /\ new.discord # None => member[n].discord # new.discord
           /\ new.user # None => member[n].user # new.user
    BY <1>r, <2>1, <2>2
  <2>5. new.discord # None => new.discord = new.handle
    BY <1>r, <2>1, <2>2
  <2> QED BY <2>2, <2>3, <2>4, <2>5, RosterWrites
<1>6. ASSUME Roster!Tick
      PROVE  RosterInv'
  <2>1. ASSUME NEW m \in Roster!NeedingResolution
        PROVE  m \in Members /\ member[m].handle \in Handles
    BY DEF Roster!NeedingResolution, RosterRow
  <2>2. tick' \subseteq [id : Members, handle : Handles] /\ member' = member /\ stopped' = stopped
    BY <1>6, <2>1 DEF Roster!Tick
  <2> QED BY <2>2, RosterTicks
<1>7. ASSUME NEW row \in tick, Roster!Found(row)
      PROVE  RosterInv'
  <2>1. tick' \subseteq tick /\ stopped' = stopped
    BY <1>7 DEF Roster!Found
  <2>2. CASE member' = member
    BY <2>1, <2>2, RosterTicks
  <2>3. CASE member' # member
    <3> DEFINE m == row.id
               new == [member[m] EXCEPT !.discord = row.handle]
    <3>1. /\ m \in Roster!Listed /\ member[m].discord = None /\ member[m].handle = row.handle
          /\ \A n \in Roster!Listed : member[n].discord # row.handle
          /\ member' = [member EXCEPT ![m].discord = row.handle]
      BY <1>7, <2>3 DEF Roster!Found, Roster!Write
    <3>2. m \in Members /\ row.handle \in Handles /\ member[m] \in RosterRow
      BY <3>1
    <3>3. /\ new \in RosterRow /\ new.discord = row.handle /\ new.handle = row.handle
          /\ new.user = member[m].user /\ new.named = member[m].named
      BY <3>1, <3>2 DEF RosterRow
    <3>4. member' = [member EXCEPT ![m] = new]
      BY <3>1, <3>2
    <3> HIDE DEF new, m
    <3>5. \A n \in Roster!Listed \ {m} :
             /\ new.discord # None => member[n].discord # new.discord
             /\ new.user # None => member[n].user # new.user
      BY <1>r, <3>1, <3>3
    <3>6. new.user # None => ~new.named
      BY <1>r, <3>1, <3>3
    <3>7. new \in RosterRow /\ (new.discord # None => new.discord = new.handle)
      BY <3>3
    <3>8. m \in Members /\ stopped' \in BOOLEAN
      BY <2>1, <3>2
    <3> QED BY ONLY RosterInv, <2>1, <3>4, <3>5, <3>6, <3>7, <3>8, RosterWrites
  <2> QED BY <2>2, <2>3
<1>8. ASSUME NEW row \in tick, Roster!NotFound(row)
      PROVE  RosterInv'
  BY <1>8, RosterTicks DEF Roster!NotFound
<1>9. CASE Roster!Stop
  BY <1>9, RosterTicks DEF Roster!Stop
<1>10. CASE UNCHANGED rosterVars
  BY <1>10, RosterTicks DEF rosterVars
<1> QED BY <1>1, <1>2, <1>3, <1>4, <1>5, <1>6, <1>7, <1>8, <1>9, <1>10 DEF Roster!Next

(* Whatever happens to a row between its read and the write of its id, an  *)
(* id is that of the row's login and of no other row, a user is linked     *)
(* once, and no name of a linked member is kept (plugins/members,          *)
(* bot/member-resolver.ts).                                                *)
THEOREM RosterCurrent == Roster!Spec => []RosterIsCurrent
<1>1. RosterInv => RosterIsCurrent
  BY DEF RosterInv, RosterIsCurrent
<1> QED BY <1>1, RosterBegins, RosterStep, PTL DEF Roster!Spec, rosterVars, Roster!vars

-----------------------------------------------------------------------------
(* Spotlights and quests (Daily).                                          *)

(* The processes that are about to insert a project as their candidate.    *)
Proposing(p) == {who \in Processes : asking[who].candidate = p}

(* A project chosen is not more often shown than any other; what is chosen *)
(* since and not inserted yet is at most one choice of every process.      *)
ChoicesAreEven ==
  \A p, q \in always :
    Daily!Times(p) - Daily!Times(q) + Cardinality(Proposing(p)) <= Cardinality(Processes)

DailyInv ==
  /\ active \subseteq Projects /\ always \subseteq active
  /\ content \in [Days -> Projects \cup {Daily!NoProject, None}]
  /\ asking \in [Processes -> [day : Days, candidate : Projects \cup {Daily!NoProject}]
                                \cup {Daily!Idle}]
  /\ DOMAIN answers = Days
  /\ \A d \in Days : /\ answers[d] \subseteq {content[d]}
                     /\ content[d] = None => answers[d] = {}
  /\ ChoicesAreEven

Asked == [day : Days, candidate : Projects \cup {Daily!NoProject}]

LEMMA DailyInvParts ==
  ASSUME DailyInv
  PROVE  /\ active \subseteq Projects /\ always \subseteq active
         /\ content \in [Days -> Projects \cup {Daily!NoProject, None}]
         /\ asking \in [Processes -> Asked \cup {Daily!Idle}]
         /\ DOMAIN answers = Days
         /\ IsFiniteSet(Days) /\ IsFiniteSet(Processes)
         /\ Daily!NoProject \notin Projects /\ None \notin Projects \cup {Daily!NoProject}
  BY SpotlightsAssumption DEF DailyInv, Daily!DailyAssumption, Asked, Daily!IsFiniteSet,
     IsFiniteSet

(* Days and processes are counted.                                         *)
LEMMA TimesIsCount ==
  \A p : Daily!Times(p) = Cardinality({d \in Days : content[d] = p})
  BY DEF Daily!Times, Daily!Chosen, Daily!Cardinality, Cardinality, Daily!IsFiniteSet, IsFiniteSet

LEMMA CountsAreFinite ==
  ASSUME IsFiniteSet(Days), IsFiniteSet(Processes), NEW p
  PROVE  /\ Daily!Times(p) \in Nat /\ Cardinality(Proposing(p)) \in Nat
         /\ IsFiniteSet(Proposing(p)) /\ Cardinality(Processes) \in Nat
         /\ Cardinality(Proposing(p)) <= Cardinality(Processes)
<1>1. {d \in Days : content[d] = p} \in SUBSET Days /\ Proposing(p) \in SUBSET Processes
  BY DEF Proposing
<1> QED BY <1>1, TimesIsCount, FS_Subset, FS_CardinalityType

(* A step that chooses nothing new leaves the choices even.                *)
LEMMA EvenIsKept ==
  ASSUME DailyInv, content' = content, always' \subseteq always,
         \A p \in always' : Proposing(p)' \subseteq Proposing(p)
  PROVE  ChoicesAreEven'
<1> SUFFICES ASSUME NEW p \in always', NEW q \in always'
             PROVE  Daily!Times(p)' - Daily!Times(q)' + Cardinality(Proposing(p)')
                      <= Cardinality(Processes)
  BY DEF ChoicesAreEven
<1>1. Daily!Times(p)' = Daily!Times(p) /\ Daily!Times(q)' = Daily!Times(q)
  BY DEF Daily!Times, Daily!Chosen
<1>2. IsFiniteSet(Days) /\ IsFiniteSet(Processes)
  BY DailyInvParts
<1>3. /\ Daily!Times(p) \in Nat /\ Daily!Times(q) \in Nat /\ IsFiniteSet(Proposing(p))
      /\ Cardinality(Proposing(p)) \in Nat /\ Cardinality(Processes) \in Nat
  BY <1>2, CountsAreFinite
<1>4. Cardinality(Proposing(p)') <= Cardinality(Proposing(p)) /\ Cardinality(Proposing(p)') \in Nat
  BY <1>3, FS_Subset, FS_CardinalityType
<1>5. Daily!Times(p) - Daily!Times(q) + Cardinality(Proposing(p)) <= Cardinality(Processes)
  BY DEF DailyInv, ChoicesAreEven
<1> QED BY <1>1, <1>3, <1>4, <1>5

LEMMA DailyBegins == Daily!Init => DailyInv
<1> SUFFICES ASSUME Daily!Init
             PROVE  DailyInv
  OBVIOUS
<1>a. /\ IsFiniteSet(Days) /\ IsFiniteSet(Processes)
      /\ Daily!NoProject \notin Projects /\ None \notin Projects \cup {Daily!NoProject}
  BY SpotlightsAssumption DEF Daily!DailyAssumption, Daily!IsFiniteSet, IsFiniteSet
<1>1. ASSUME NEW p \in Projects
      PROVE  Daily!Times(p) = 0 /\ Cardinality(Proposing(p)) = 0
  <2>1. {d \in Days : content[d] = p} = {} /\ Proposing(p) = {}
    BY <1>a DEF Daily!Init, Proposing, Daily!Idle
  <2> QED BY <2>1, TimesIsCount, FS_EmptySet
<1>2. Cardinality(Processes) \in Nat
  BY <1>a, FS_CardinalityType
<1>3. active \subseteq Projects /\ always = active
  BY DEF Daily!Init
<1>4. ChoicesAreEven
  BY <1>1, <1>2, <1>3 DEF ChoicesAreEven
<1> QED BY <1>3, <1>4 DEF Daily!Init, DailyInv

(* A candidate was shown no more often than any project that is active.    *)
LEMMA DailySelects ==
  ASSUME DailyInv, NEW who \in Processes, NEW d \in Days, Daily!Select(who, d)
  PROVE  DailyInv'
<1>1. PICK c \in Daily!Candidates : asking' = [asking EXCEPT ![who] = [day |-> d, candidate |-> c]]
  BY DEF Daily!Select
<1>2. /\ asking[who] = Daily!Idle
      /\ UNCHANGED <<active, content, answers, always>>
  BY DEF Daily!Select
<1>3. c \in Projects \cup {Daily!NoProject}
      /\ (active # {} => c \in active /\ \A q \in active : Daily!Before(c, q))
  BY DailyInvParts DEF Daily!Candidates
<1>4. /\ asking' \in [Processes -> Asked \cup {Daily!Idle}]
      /\ \A w \in Processes : w # who => asking'[w] = asking[w]
      /\ asking'[who].candidate = c
  BY <1>1, <1>3, DailyInvParts DEF Asked
<1>5. ChoicesAreEven'
  <2> SUFFICES ASSUME NEW p \in always', NEW q \in always'
               PROVE  Daily!Times(p)' - Daily!Times(q)' + Cardinality(Proposing(p)')
                        <= Cardinality(Processes)
    BY DEF ChoicesAreEven
  <2>1. Daily!Times(p)' = Daily!Times(p) /\ Daily!Times(q)' = Daily!Times(q)
        /\ p \in always /\ q \in always /\ p \in active /\ q \in active
    BY <1>2, DailyInvParts DEF Daily!Times, Daily!Chosen
  <2>2. /\ Daily!Times(p) \in Nat /\ Daily!Times(q) \in Nat /\ IsFiniteSet(Proposing(p))
        /\ Cardinality(Proposing(p)) \in Nat /\ Cardinality(Processes) \in Nat
        /\ IsFiniteSet(Processes)
    BY DailyInvParts, CountsAreFinite
  <2>3. Proposing(p)' \in SUBSET Processes
    BY DEF Proposing
  <2>4. Cardinality(Proposing(p)') \in Nat /\ Cardinality(Proposing(p)') <= Cardinality(Processes)
    BY <2>2, <2>3, FS_Subset, FS_CardinalityType
  <2>5. CASE p = c
    <3>1. Daily!Times(p) <= Daily!Times(q)
      BY <1>3, <2>1, <2>2, <2>5 DEF Daily!Before
    <3> QED BY <2>1, <2>2, <2>4, <3>1
  <2>6. CASE p # c
    <3>1. Proposing(p)' \subseteq Proposing(p)
      BY <1>4, <2>6 DEF Proposing
    <3>2. Cardinality(Proposing(p)') <= Cardinality(Proposing(p))
      BY <2>2, <3>1, FS_Subset
    <3>3. Daily!Times(p) - Daily!Times(q) + Cardinality(Proposing(p)) <= Cardinality(Processes)
      BY <2>1 DEF DailyInv, ChoicesAreEven
    <3> QED BY <2>1, <2>2, <2>4, <3>2, <3>3
  <2> QED BY <2>5, <2>6
<1> QED BY <1>2, <1>4, <1>5 DEF DailyInv, Asked

(* The row of a day is written once, whoever comes first, and answered.    *)
LEMMA DailyInserts ==
  ASSUME DailyInv, NEW who \in Processes, Daily!InsertAndRead(who)
  PROVE  DailyInv'
<1>1. asking[who] \in Asked
  BY DailyInvParts DEF Daily!InsertAndRead
<1>2. PICK d \in Days, c \in Projects \cup {Daily!NoProject} :
        asking[who].day = d /\ asking[who].candidate = c
  BY <1>1 DEF Asked
<1>3. /\ content' = [content EXCEPT ![d] = IF content[d] = None THEN c ELSE content[d]]
      /\ answers' = [answers EXCEPT ![d] = answers[d] \cup {content'[d]}]
      /\ asking' = [asking EXCEPT ![who] = Daily!Idle]
      /\ active' = active /\ always' = always
  BY <1>2 DEF Daily!InsertAndRead
<1>4. /\ content' \in [Days -> Projects \cup {Daily!NoProject, None}]
      /\ content'[d] = (IF content[d] = None THEN c ELSE content[d])
      /\ \A e \in Days : e # d => content'[e] = content[e]
      /\ content'[d] # None /\ c # None
  BY <1>2, <1>3, DailyInvParts
<1>5. /\ asking' \in [Processes -> Asked \cup {Daily!Idle}]
      /\ asking'[who].candidate = Daily!NoProject
      /\ \A w \in Processes : w # who => asking'[w] = asking[w]
  BY <1>3, DailyInvParts DEF Daily!Idle
<1>6. /\ DOMAIN answers' = Days
      /\ answers'[d] = answers[d] \cup {content'[d]}
      /\ \A e \in Days : e # d => answers'[e] = answers[e]
  BY <1>3, DailyInvParts
<1>7. ASSUME NEW e \in Days
      PROVE  /\ answers'[e] \subseteq {content'[e]}
             /\ content'[e] = None => answers'[e] = {}
  <2>1. answers[e] \subseteq {content[e]} /\ (content[e] = None => answers[e] = {})
    BY DEF DailyInv
  <2>2. CASE e = d
    BY <1>4, <1>6, <2>1, <2>2
  <2>3. CASE e # d
    BY <1>4, <1>6, <2>1, <2>3
  <2> QED BY <2>2, <2>3
<1>8. ChoicesAreEven'
  <2>1. CASE content[d] # None
    <3>1. content' = content
      BY <1>3, <2>1, DailyInvParts
    <3>2. \A p \in always' : Proposing(p)' \subseteq Proposing(p)
      BY <1>3, <1>5, DailyInvParts DEF Proposing
    <3> QED BY <1>3, <3>1, <3>2, EvenIsKept
  <2>2. CASE content[d] = None
    <3> SUFFICES ASSUME NEW p \in always', NEW q \in always'
                 PROVE  Daily!Times(p)' - Daily!Times(q)' + Cardinality(Proposing(p)')
                          <= Cardinality(Processes)
      BY DEF ChoicesAreEven
    <3>1. p \in Projects /\ q \in Projects /\ p \in always /\ q \in always
      BY <1>3, DailyInvParts
    <3>2. /\ Daily!Times(p) \in Nat /\ Daily!Times(q) \in Nat /\ IsFiniteSet(Proposing(p))
          /\ Cardinality(Proposing(p)) \in Nat /\ Cardinality(Processes) \in Nat
          /\ IsFiniteSet(Days)
      BY DailyInvParts, CountsAreFinite
    <3>3. Daily!Times(p) - Daily!Times(q) + Cardinality(Proposing(p)) <= Cardinality(Processes)
      BY <3>1 DEF DailyInv, ChoicesAreEven
    <3>4. ASSUME NEW x \in Projects
          PROVE  /\ x = c => Daily!Times(x)' = Daily!Times(x) + 1
                 /\ x # c => Daily!Times(x)' = Daily!Times(x)
      <4> DEFINE C == {e \in Days : content[e] = x}
                 D == {e \in Days : content'[e] = x}
      <4>1. Daily!Times(x)' = Cardinality(D) /\ Daily!Times(x) = Cardinality(C)
        <5>1. Daily!Times(x) = Cardinality(C)
          BY TimesIsCount
        <5>2. Daily!Times(x)' = Cardinality(D)
          BY DEF Daily!Times, Daily!Chosen, Daily!Cardinality, Cardinality,
             Daily!IsFiniteSet, IsFiniteSet
        <5> QED BY <5>1, <5>2
      <4>2. IsFiniteSet(C) /\ Cardinality(C) \in Nat
        BY <3>2, FS_Subset, FS_CardinalityType
      <4>3. CASE x = c
        <5>1. D = C \cup {d} /\ d \notin C
          BY <1>4, <2>2, <4>3
        <5>2. Cardinality(C \cup {d}) = Cardinality(C) + 1
          BY <4>2, <5>1, FS_AddElement
        <5> QED BY <4>1, <4>3, <5>1, <5>2
      <4>4. CASE x # c
        <5>1. D = C
          BY <1>4, <2>2, <4>4, DailyInvParts
        <5> QED BY <4>1, <4>4, <5>1
      <4> QED BY <4>3, <4>4
    <3>5. Daily!Times(q)' >= Daily!Times(q) /\ Daily!Times(q)' \in Nat
      BY <3>1, <3>2, <3>4
    <3>6. CASE p = c
      <4>1. who \in Proposing(p) /\ Proposing(p)' = Proposing(p) \ {who}
        BY <1>2, <1>5, <3>1, <3>6, DailyInvParts DEF Proposing
      <4>2. Cardinality(Proposing(p)') = Cardinality(Proposing(p)) - 1
        BY <3>2, <4>1, FS_RemoveElement
      <4>3. Daily!Times(p)' = Daily!Times(p) + 1
        BY <3>1, <3>4, <3>6
      <4> QED BY <3>2, <3>3, <3>5, <4>2, <4>3
    <3>7. CASE p # c
      <4>1. Proposing(p)' = Proposing(p)
        BY <1>2, <1>5, <3>1, <3>7, DailyInvParts DEF Proposing
      <4>2. Daily!Times(p)' = Daily!Times(p)
        BY <3>1, <3>4, <3>7
      <4> QED BY <3>2, <3>3, <3>5, <4>1, <4>2
    <3> QED BY <3>6, <3>7
  <2> QED BY <2>1, <2>2
<1> QED BY <1>3, <1>4, <1>5, <1>6, <1>7, <1>8, DailyInvParts DEF DailyInv, Asked

LEMMA DailyStep == DailyInv /\ [Daily!Next]_dailyVars => DailyInv'
<1> SUFFICES ASSUME DailyInv, [Daily!Next]_dailyVars
             PROVE  DailyInv'
  OBVIOUS
<1>1. ASSUME NEW p \in Projects, Daily!SetStatus(p)
      PROVE  DailyInv'
  <2>1. /\ active' \subseteq Projects /\ always' \subseteq always /\ always' \subseteq active'
        /\ UNCHANGED <<content, asking, answers>>
    BY <1>1, DailyInvParts DEF Daily!SetStatus
  <2>2. ChoicesAreEven'
    BY <2>1, EvenIsKept DEF Proposing
  <2> QED BY <2>1, <2>2 DEF DailyInv
<1>2. ASSUME UNCHANGED <<active, content, asking, answers, always>>
      PROVE  DailyInv'
  <2>1. ChoicesAreEven'
    BY <1>2, EvenIsKept DEF Proposing
  <2> QED BY <1>2, <2>1 DEF DailyInv
<1>3. CASE Daily!NextDay
  BY <1>2, <1>3 DEF Daily!NextDay
<1>4. CASE Daily!OpenCard \/ Daily!PressDone \/ Daily!TakeDate \/ Daily!CompleteQuest
  BY <1>2, <1>4 DEF Daily!OpenCard, Daily!PressDone, Daily!TakeDate, Daily!CompleteQuest,
     Daily!projectVars
<1>5. CASE UNCHANGED dailyVars
  BY <1>2, <1>5 DEF dailyVars
<1> QED BY <1>1, <1>3, <1>4, <1>5, DailySelects, DailyInserts DEF Daily!Next

(* Only the press on its own card completes a quest.                       *)
LEMMA QuestStep == [Daily!Next]_dailyVars => [completed' \ completed \subseteq {press.card}]_dailyVars
<1> SUFFICES ASSUME Daily!Next
             PROVE  completed' \ completed \subseteq {press.card}
  OBVIOUS
<1>1. CASE Daily!CompleteQuest
  BY <1>1 DEF Daily!CompleteQuest
<1>2. CASE completed' = completed
  BY <1>2
<1> QED BY <1>1, <1>2 DEF Daily!Next, Daily!Select, Daily!InsertAndRead, Daily!SetStatus,
           Daily!NextDay, Daily!OpenCard, Daily!PressDone, Daily!TakeDate, Daily!questVars

(* Hub and bot answer one spotlight for a day, whichever asks first; two   *)
(* projects that were active all the time are apart by no more choices     *)
(* than there are processes, however many days and projects there are; and *)
(* a quest is done only from its own day's card (plugins/daily-engagement).*)
THEOREM DailyKept == Daily!Spec => DailyIsKept
<1>1. DailyInv => Daily!SpotlightIsSharedAndEven
  <2> SUFFICES ASSUME DailyInv, NEW p \in always, NEW q \in always
               PROVE  Daily!Times(p) - Daily!Times(q) <= Daily!Cardinality(Processes)
    BY DEF DailyInv, Daily!SpotlightIsSharedAndEven
  <2>1. /\ Daily!Times(p) \in Nat /\ Daily!Times(q) \in Nat
        /\ Cardinality(Proposing(p)) \in Nat /\ Cardinality(Processes) \in Nat
    BY DailyInvParts, CountsAreFinite
  <2>2. Daily!Times(p) - Daily!Times(q) + Cardinality(Proposing(p)) <= Cardinality(Processes)
    BY DEF DailyInv, ChoicesAreEven
  <2>3. Daily!Cardinality(Processes) = Cardinality(Processes)
    BY DEF Daily!Cardinality, Cardinality, Daily!IsFiniteSet, IsFiniteSet
  <2> QED BY <2>1, <2>2, <2>3
<1>2. [Daily!Next]_(Daily!vars) => [Daily!Next]_dailyVars
  BY DEF Daily!vars, dailyVars, Daily!projectVars, Daily!questVars
<1>3. [completed' \ completed \subseteq {press.card}]_dailyVars
        => [completed' \ completed \subseteq {press.card}]_(Daily!vars)
  BY DEF Daily!vars, dailyVars, Daily!projectVars, Daily!questVars
<1> QED BY <1>1, <1>2, <1>3, DailyBegins, DailyStep, QuestStep, PTL
        DEF Daily!Spec, DailyIsKept, Daily!DailyIsKept, Daily!CompletedAsShown

-----------------------------------------------------------------------------
(* Games and their releases (Releases).                                    *)

GameRow == [repo : Repos \cup {None}, text : Repos \cup {None, "typed"},
            manual : BOOLEAN, synced : BOOLEAN]

GameImport == [order : Repos \cup {None}, of : [Repos -> {None} \cup SUBSET Published]]

GameSync == [project : Games \cup {None}, repo : Repos \cup {None}, data : Releases!Pages]

(* A game is marked synced with its first import; what that brought is     *)
(* apart from what waits for the channel or is in it.                      *)
GameIsSound(p) ==
  /\ project[p] # None /\ project[p].manual => project[p].text = "typed"
  /\ p \in typed => project[p] # None /\ project[p].manual
  /\ project[p] = None => imported[p].order = None
  /\ project[p] # None => (project[p].synced <=> imported[p].order # None)
  /\ imported[p].order = None =>
       /\ stored[p] = {} /\ pending[p] = {} /\ announced[p] = {}
       /\ \A r \in Repos : imported[p].of[r] = None
  /\ imported[p].order # None => imported[p].of[imported[p].order] # None
  /\ Releases!FirstImport(p) \cap (pending[p] \cup announced[p]) = {}
  /\ announced[p] \cap pending[p] = {}
  /\ stored[p] = Releases!FirstImport(p) \cup pending[p] \cup announced[p]

SyncIsSound(s) ==
  sync[s] # Releases!Idle =>
    sync[s].project \in Games /\ sync[s].repo \in Repos /\ project[sync[s].project] # None

ReleasesInv ==
  /\ project \in [Games -> {None} \cup GameRow]
  /\ stored \in [Games -> SUBSET Published] /\ pending \in [Games -> SUBSET Published]
  /\ announced \in [Games -> SUBSET Published] /\ imported \in [Games -> GameImport]
  /\ sync \in [Syncs -> GameSync] /\ cache \in [Repos -> Releases!Pages]
  /\ published \subseteq Published /\ typed \subseteq Games
  /\ \A p \in Games : GameIsSound(p)
  /\ \A s \in Syncs : SyncIsSound(s)

LEMMA ReleasesInvParts ==
  ASSUME ReleasesInv
  PROVE  /\ project \in [Games -> {None} \cup GameRow] /\ None \notin GameRow
         /\ sync \in [Syncs -> GameSync] /\ cache \in [Repos -> Releases!Pages]
         /\ published \subseteq Published /\ typed \subseteq Games
         /\ None \notin Repos /\ None \notin Games /\ None # Waiting
         /\ \A s \in Syncs : sync[s] \in GameSync /\ SyncIsSound(s)
         /\ \A p \in Games : /\ project[p] \in {None} \cup GameRow /\ GameIsSound(p)
                             /\ stored[p] \subseteq Published /\ pending[p] \subseteq Published
                             /\ announced[p] \subseteq Published /\ imported[p] \in GameImport
<1>1. None \notin GameRow /\ None \notin Repos /\ None \notin Games /\ None # Waiting
  BY GamesAssumption DEF Releases!ReleasesAssumption, GameRow
<1> HIDE DEF GameRow, GameSync, GameImport
<1> QED BY <1>1 DEF ReleasesInv

(* A game none of whose rows changes stays sound.                          *)
LEMMA GameStays ==
  ASSUME NEW q \in Games, GameIsSound(q), project'[q] = project[q], stored'[q] = stored[q],
         pending'[q] = pending[q], announced'[q] = announced[q], imported'[q] = imported[q],
         q \in typed' => q \in typed
  PROVE  GameIsSound(q)'
BY DEF GameIsSound, Releases!FirstImport

(* An admin writes a row: the imports stay as they are.                    *)
LEMMA RowIsWritten ==
  ASSUME ReleasesInv, NEW p \in Games, NEW row \in GameRow, Releases!Write(p, row),
         row.manual => row.text = "typed",
         \/ project[p] = None /\ ~row.synced
         \/ project[p] # None /\ row.synced = project[p].synced
  PROVE  ReleasesInv'
<1>1. /\ UNCHANGED <<stored, pending, sync, cache, published, imported, announced>>
      /\ project' = [project EXCEPT ![p] = row]
      /\ typed' = IF row.manual THEN typed \cup {p} ELSE typed \ {p}
  BY DEF Releases!Write, Releases!Editing
<1>2. /\ project'[p] = row /\ row # None /\ project' \in [Games -> {None} \cup GameRow]
      /\ \A q \in Games : q # p => project'[q] = project[q]
      /\ row.manual \in BOOLEAN /\ row.synced \in BOOLEAN
  BY <1>1, ReleasesInvParts DEF GameRow
<1>3. typed' \subseteq Games /\ (p \in typed' => row.manual)
      /\ \A q \in Games : q # p => (q \in typed' => q \in typed)
  BY <1>1, ReleasesInvParts
<1>4. ASSUME NEW q \in Games
      PROVE  GameIsSound(q)'
  <2>1. CASE q = p
    <3>1. GameIsSound(p) /\ Releases!FirstImport(p)' = Releases!FirstImport(p)
      BY <1>1, ReleasesInvParts DEF Releases!FirstImport
    <3>2. project[p] # None => project[p].synced \in BOOLEAN
      BY ReleasesInvParts DEF GameRow
    <3>3. row.synced <=> imported[p].order # None
      BY <1>2, <3>1, <3>2 DEF GameIsSound
    <3> QED BY <1>1, <1>2, <1>3, <2>1, <3>1, <3>3 DEF GameIsSound
  <2>2. CASE q # p
    BY <1>1, <1>2, <1>3, <2>2, ReleasesInvParts, GameStays
  <2> QED BY <2>1, <2>2
<1>5. \A s \in Syncs : SyncIsSound(s)'
  BY <1>1, <1>2, ReleasesInvParts DEF SyncIsSound
<1> QED BY <1>1, <1>2, <1>3, <1>4, <1>5 DEF ReleasesInv

(* A sync goes on, GitHub or its cache moves: no game's row changes.       *)
LEMMA SyncMoves ==
  ASSUME ReleasesInv, UNCHANGED <<project, stored, pending, typed, imported, announced>>,
         sync' \in [Syncs -> GameSync], cache' \in [Repos -> Releases!Pages],
         published' \subseteq Published, \A s \in Syncs : SyncIsSound(s)'
  PROVE  ReleasesInv'
<1>1. \A q \in Games : GameIsSound(q)'
  BY ReleasesInvParts, GameStays
<1> QED BY <1>1 DEF ReleasesInv

(* The first import of a project is not announced; what a later one adds   *)
(* is new to the project.                                                  *)
LEMMA SyncStores ==
  ASSUME ReleasesInv, NEW s \in Syncs, Releases!Store(s)
  PROVE  ReleasesInv'
<1>1. PICK p, page, from : p = sync[s].project /\ page = sync[s].data /\ from = sync[s].repo
  OBVIOUS
<1>2. /\ page \notin {Waiting, Unavailable, None}
      /\ project' = [project EXCEPT ![p] = [Releases!Describe(s, @) EXCEPT !.synced = TRUE]]
      /\ stored' = [stored EXCEPT ![p] = @ \cup page]
      /\ pending' = [pending EXCEPT ![p] = Releases!ToAnnounce(p, page)]
      /\ imported' = [imported EXCEPT
           ![p].order = IF @ = None THEN from ELSE @,
           ![p].of[from] = IF @ = None THEN page ELSE @]
      /\ sync' = [sync EXCEPT ![s] = Releases!Idle]
      /\ UNCHANGED <<cache, published, typed, announced>>
  BY <1>1 DEF Releases!Store
<1>3. /\ sync[s] # Releases!Idle /\ page \subseteq Published
      /\ p \in Games /\ from \in Repos /\ project[p] # None
  <2>1. sync[s] # Releases!Idle
    BY <1>1, <1>2 DEF Releases!Idle
  <2>2. page \in Releases!Pages
    BY <1>1, ReleasesInvParts DEF GameSync
  <2> QED BY <1>1, <1>2, <2>1, <2>2, ReleasesInvParts DEF SyncIsSound, Releases!Pages
<1>4. PICK row : row = project[p]
  OBVIOUS
<1>5. /\ row \in GameRow /\ row.synced \in BOOLEAN /\ row.manual \in BOOLEAN
      /\ row = [repo |-> row.repo, text |-> row.text, manual |-> row.manual,
                synced |-> row.synced]
  BY <1>3, <1>4, ReleasesInvParts DEF GameRow
<1>6. PICK new : new = [Releases!Describe(s, row) EXCEPT !.synced = TRUE]
  OBVIOUS
<1>7. /\ new = [repo |-> row.repo, text |-> IF row.manual THEN row.text ELSE from,
                manual |-> row.manual, synced |-> TRUE]
  BY <1>1, <1>5, <1>6 DEF Releases!Describe
<1>8. /\ new \in GameRow /\ new # None /\ new.manual = row.manual /\ new.synced = TRUE
      /\ row.manual => new.text = row.text
  <2>1. /\ row.repo \in Repos \cup {None} /\ row.text \in Repos \cup {None, "typed"}
        /\ (IF row.manual THEN row.text ELSE from) \in Repos \cup {None, "typed"}
    BY <1>3, <1>5 DEF GameRow
  <2>2. new \in GameRow
    BY <1>5, <1>7, <2>1 DEF GameRow
  <2> QED BY <1>7, <2>2, ReleasesInvParts
<1>9. /\ project' = [project EXCEPT ![p] = new]
      /\ project'[p] = new /\ project' \in [Games -> {None} \cup GameRow]
      /\ \A q \in Games : q # p => project'[q] = project[q]
  BY <1>2, <1>3, <1>4, <1>6, <1>8, ReleasesInvParts
<1>10. PICK i : i = imported[p]
  OBVIOUS
<1>11. /\ i \in GameImport /\ i = [order |-> i.order, of |-> i.of]
       /\ i.of \in [Repos -> {None} \cup SUBSET Published] /\ i.order \in Repos \cup {None}
  BY <1>3, <1>10, ReleasesInvParts DEF GameImport
<1>12. PICK j : j = [order |-> IF i.order = None THEN from ELSE i.order,
                     of |-> [i.of EXCEPT ![from] = IF @ = None THEN page ELSE @]]
  OBVIOUS
<1>13. /\ imported'[p] = j /\ \A q \in Games : q # p => imported'[q] = imported[q]
       /\ imported' = [q \in Games |-> IF q = p THEN j ELSE imported[q]]
  <2>1. imported \in [Games -> GameImport]
    BY DEF ReleasesInv
  <2>2. DOMAIN imported = Games
    BY <2>1
  <2>3. /\ imported'[p] = [i EXCEPT !.order = IF @ = None THEN from ELSE @,
                                    !.of[from] = IF @ = None THEN page ELSE @]
        /\ imported' = [q \in Games |-> IF q = p THEN imported'[p] ELSE imported[q]]
    BY <1>2, <1>3, <1>10, <2>2
  <2>4. [i EXCEPT !.order = IF @ = None THEN from ELSE @,
                  !.of[from] = IF @ = None THEN page ELSE @]
          = [i EXCEPT !.order = IF i.order = None THEN from ELSE i.order,
                      !.of = [i.of EXCEPT ![from] = IF i.of[from] = None THEN page ELSE i.of[from]]]
    BY <1>3, <1>11
  <2>5. j = [i EXCEPT !.order = IF i.order = None THEN from ELSE i.order,
                      !.of = [i.of EXCEPT ![from] = IF i.of[from] = None THEN page ELSE i.of[from]]]
    <3>1. ASSUME NEW order, NEW of
          PROVE  [i EXCEPT !.order = order, !.of = of] = [order |-> order, of |-> of]
      <4>1. PICK g : g = [i EXCEPT !.order = order]
        OBVIOUS
      <4>2. PICK h : h = [g EXCEPT !.of = of]
        OBVIOUS
      <4>3. h = [i EXCEPT !.order = order, !.of = of]
        BY <4>1, <4>2
      <4>4. h = [order |-> order, of |-> of]
        BY <1>11, <4>1, <4>2 DEF GameImport
      <4> QED BY <4>3, <4>4
    <3>2. j = [order |-> IF i.order = None THEN from ELSE i.order,
               of |-> [i.of EXCEPT ![from] = IF i.of[from] = None THEN page ELSE i.of[from]]]
      BY <1>12
    <3> QED BY <3>1, <3>2
  <2> QED BY <2>3, <2>4, <2>5
<1>14. /\ j.order = (IF i.order = None THEN from ELSE i.order) /\ j.order # None
       /\ j.of \in [Repos -> {None} \cup SUBSET Published]
       /\ \A r \in Repos : j.of[r] = IF r = from /\ i.of[r] = None THEN page ELSE i.of[r]
       /\ j \in GameImport
  BY <1>3, <1>11, <1>12, ReleasesInvParts DEF GameImport
<1>15. imported' \in [Games -> GameImport]
  BY <1>13, <1>14, ReleasesInvParts
<1>16. PICK P : P = Releases!ToAnnounce(p, page)
  OBVIOUS
<1>17. P = IF row.synced THEN pending[p] \cup (page \ stored[p]) ELSE pending[p]
  BY <1>4, <1>16 DEF Releases!ToAnnounce
<1>18. /\ stored' \in [Games -> SUBSET Published] /\ stored'[p] = stored[p] \cup page
       /\ \A q \in Games : q # p => stored'[q] = stored[q]
  BY <1>2, <1>3 DEF ReleasesInv
<1>19. P \subseteq Published
  BY <1>3, <1>17, ReleasesInvParts
<1>20. /\ pending' \in [Games -> SUBSET Published] /\ pending'[p] = P
       /\ \A q \in Games : q # p => pending'[q] = pending[q]
  BY <1>2, <1>3, <1>16, <1>19 DEF ReleasesInv
<1>21. GameIsSound(p)'
  <2>1. GameIsSound(p)
    BY <1>3, ReleasesInvParts
  <2>2. Releases!FirstImport(p)' = j.of[j.order]
    BY <1>13, <1>14 DEF Releases!FirstImport
  <2>3. CASE i.order = None
    <3>1. /\ ~row.synced /\ stored[p] = {} /\ pending[p] = {} /\ announced[p] = {}
          /\ \A r \in Repos : i.of[r] = None
      BY <1>3, <1>4, <1>5, <1>10, <2>1, <2>3 DEF GameIsSound
    <3>2. j.order = from /\ j.of[j.order] = page /\ P = {}
      BY <1>3, <1>14, <1>17, <2>3, <3>1
    <3>3. /\ stored'[p] = page /\ pending'[p] = {} /\ announced'[p] = {}
          /\ Releases!FirstImport(p)' = page
      BY <1>2, <1>18, <1>20, <2>2, <3>1, <3>2
    <3>4. /\ Releases!FirstImport(p)' \cap (pending'[p] \cup announced'[p]) = {}
          /\ announced'[p] \cap pending'[p] = {}
          /\ stored'[p] = Releases!FirstImport(p)' \cup pending'[p] \cup announced'[p]
      BY <3>3
    <3>5. imported'[p].order # None /\ imported'[p].of[imported'[p].order] # None
      BY <1>2, <1>13, <1>14, <3>2
    <3>6. /\ project'[p] # None /\ project'[p].manual => project'[p].text = "typed"
          /\ p \in typed' => project'[p] # None /\ project'[p].manual
          /\ project'[p] # None /\ project'[p].synced
      BY <1>2, <1>4, <1>8, <1>9, <1>3, <2>1 DEF GameIsSound
    <3> QED BY <3>4, <3>5, <3>6 DEF GameIsSound
  <2>4. CASE i.order # None
    <3>1. /\ row.synced /\ i.of[i.order] # None /\ i.order \in Repos
          /\ Releases!FirstImport(p) = i.of[i.order]
      BY <1>3, <1>4, <1>5, <1>10, <1>11, <2>1, <2>4 DEF GameIsSound, Releases!FirstImport
    <3>2. j.order = i.order /\ j.of[j.order] = i.of[i.order]
      BY <1>14, <2>4, <3>1
    <3>3. Releases!FirstImport(p)' = Releases!FirstImport(p)
      BY <2>2, <3>1, <3>2
    <3>4. /\ pending'[p] = pending[p] \cup (page \ stored[p]) /\ announced'[p] = announced[p]
          /\ stored'[p] = stored[p] \cup page
      BY <1>2, <1>17, <1>18, <1>20, <3>1
    <3>5. /\ Releases!FirstImport(p) \cap (pending[p] \cup announced[p]) = {}
          /\ announced[p] \cap pending[p] = {}
          /\ stored[p] = Releases!FirstImport(p) \cup pending[p] \cup announced[p]
      BY <2>1 DEF GameIsSound
    <3>6. /\ Releases!FirstImport(p)' \cap (pending'[p] \cup announced'[p]) = {}
          /\ announced'[p] \cap pending'[p] = {}
          /\ stored'[p] = Releases!FirstImport(p)' \cup pending'[p] \cup announced'[p]
      BY ONLY <3>3, <3>4, <3>5
    <3>7. imported'[p].order # None /\ imported'[p].of[imported'[p].order] # None
      BY <1>13, <1>14, <3>1, <3>2
    <3>8. /\ project'[p] # None /\ project'[p].manual => project'[p].text = "typed"
          /\ p \in typed' => project'[p] # None /\ project'[p].manual
          /\ project'[p] # None /\ project'[p].synced
      BY <1>2, <1>4, <1>8, <1>9, <1>3, <2>1 DEF GameIsSound
    <3> QED BY <3>6, <3>7, <3>8 DEF GameIsSound
  <2> QED BY <2>3, <2>4
<1>22. ASSUME NEW q \in Games, q # p
       PROVE  GameIsSound(q)'
  BY <1>2, <1>9, <1>13, <1>18, <1>20, <1>22, ReleasesInvParts, GameStays
<1>23. sync' \in [Syncs -> GameSync]
  BY <1>2, ReleasesInvParts DEF GameSync, Releases!Idle, Releases!Pages
<1>24. \A x \in Syncs : SyncIsSound(x)'
  BY <1>2, <1>8, <1>9, ReleasesInvParts DEF SyncIsSound
<1> QED BY <1>2, <1>9, <1>15, <1>18, <1>20, <1>21, <1>22, <1>23, <1>24 DEF ReleasesInv

(* A release is posted in the channel and marked.                          *)
LEMMA ReleaseIsAnnounced ==
  ASSUME ReleasesInv, NEW p \in Games, NEW r, Releases!Announce(p, r)
  PROVE  ReleasesInv'
<1>1. /\ r \in pending[p] /\ announced' = [announced EXCEPT ![p] = @ \cup {r}]
      /\ pending' = [pending EXCEPT ![p] = @ \ {r}]
      /\ UNCHANGED <<project, stored, sync, cache, published, typed, imported>>
  BY DEF Releases!Announce
<1>2. r \in Published
  BY <1>1, ReleasesInvParts
<1>3. /\ announced' \in [Games -> SUBSET Published] /\ announced'[p] = announced[p] \cup {r}
      /\ pending' \in [Games -> SUBSET Published] /\ pending'[p] = pending[p] \ {r}
      /\ \A q \in Games : q # p => announced'[q] = announced[q] /\ pending'[q] = pending[q]
  BY <1>1, <1>2 DEF ReleasesInv
<1>4. GameIsSound(p)'
  <2>1. GameIsSound(p) /\ Releases!FirstImport(p)' = Releases!FirstImport(p)
    BY <1>1, ReleasesInvParts DEF Releases!FirstImport
  <2>2. imported[p].order # None
    BY <1>1, <2>1 DEF GameIsSound
  <2> QED BY <1>1, <1>3, <2>1, <2>2 DEF GameIsSound
<1>5. ASSUME NEW q \in Games, q # p
      PROVE  GameIsSound(q)'
  BY <1>1, <1>3, <1>5, ReleasesInvParts, GameStays
<1>6. \A s \in Syncs : SyncIsSound(s)'
  BY <1>1, ReleasesInvParts DEF SyncIsSound
<1> QED BY <1>1, <1>3, <1>4, <1>5, <1>6 DEF ReleasesInv

LEMMA ReleasesBegin == Releases!Init => ReleasesInv
<1> SUFFICES ASSUME Releases!Init
             PROVE  ReleasesInv
  OBVIOUS
<1> USE DEF Releases!Init
<1>1. imported \in [Games -> GameImport]
  BY DEF Releases!NoImport, GameImport
<1>2. ASSUME NEW p \in Games
      PROVE  GameIsSound(p)
  BY DEF GameIsSound, Releases!FirstImport, Releases!NoImport
<1>3. sync \in [Syncs -> GameSync] /\ cache \in [Repos -> Releases!Pages]
  BY DEF GameSync, Releases!Idle, Releases!Pages
<1>4. \A s \in Syncs : SyncIsSound(s)
  BY DEF SyncIsSound
<1> QED BY <1>1, <1>2, <1>3, <1>4 DEF ReleasesInv

LEMMA ReleasesStep == ReleasesInv /\ [Releases!Next]_releaseVars => ReleasesInv'
<1> SUFFICES ASSUME ReleasesInv, [Releases!Next]_releaseVars
             PROVE  ReleasesInv'
  OBVIOUS
<1>1. ASSUME NEW p \in Games, NEW repo \in Repos \cup {None}, NEW text \in {None, "typed"},
             Releases!Create(p, repo, text)
      PROVE  ReleasesInv'
  <2> DEFINE row == [repo |-> repo, text |-> text, manual |-> text # None, synced |-> FALSE]
  <2>1. row \in GameRow /\ ~row.synced /\ (row.manual => row.text = "typed")
    BY DEF GameRow
  <2>2. project[p] = None /\ Releases!Write(p, row)
    BY <1>1 DEF Releases!Create
  <2> HIDE DEF row
  <2> QED BY <2>1, <2>2, RowIsWritten
<1>2. ASSUME NEW p \in Games, NEW repo \in Repos \cup {None}, NEW text \in {None, "typed"},
             NEW describe \in BOOLEAN, Releases!Patch(p, repo, describe, text)
      PROVE  ReleasesInv'
  <2>1. PICK row : row = [project[p] EXCEPT
                            !.repo = repo,
                            !.text = IF describe THEN text ELSE @,
                            !.manual = IF describe THEN text # None ELSE @]
    OBVIOUS
  <2>2. project[p] # None /\ Releases!Write(p, row)
    BY <1>2, <2>1 DEF Releases!Patch
  <2>3. PICK old : old = project[p]
    OBVIOUS
  <2>4. /\ old = [repo |-> old.repo, text |-> old.text, manual |-> old.manual,
                  synced |-> old.synced]
        /\ old.text \in Repos \cup {None, "typed"} /\ old.manual \in BOOLEAN
        /\ old.synced \in BOOLEAN /\ (old.manual => old.text = "typed")
    BY <2>2, <2>3, ReleasesInvParts DEF GameRow, GameIsSound
  <2>5. row = [repo |-> repo, text |-> IF describe THEN text ELSE old.text,
               manual |-> IF describe THEN text # None ELSE old.manual, synced |-> old.synced]
    BY <2>1, <2>3, <2>4
  <2>6. row \in GameRow /\ row.synced = old.synced /\ (row.manual => row.text = "typed")
    BY <2>4, <2>5 DEF GameRow
  <2> QED BY <2>2, <2>3, <2>6, RowIsWritten
<1>3. ASSUME NEW s \in Syncs, NEW p \in Games, Releases!StartSync(s, p)
      PROVE  ReleasesInv'
  <2>1. PICK repo, data : /\ repo = project[p].repo
                          /\ data = IF cache[repo] = None THEN Waiting ELSE cache[repo]
    OBVIOUS
  <2>2. /\ project[p] # None /\ repo # None
        /\ sync' = [sync EXCEPT ![s] = [project |-> p, repo |-> repo, data |-> data]]
        /\ UNCHANGED <<project, stored, pending, cache, published, typed, imported, announced>>
    BY <1>3, <2>1 DEF Releases!StartSync
  <2>3. repo \in Repos
    BY <2>1, <2>2, ReleasesInvParts DEF GameRow
  <2>4. data \in Releases!Pages
    BY <2>1, <2>3, ReleasesInvParts DEF Releases!Pages
  <2>5. sync' \in [Syncs -> GameSync]
    BY <2>2, <2>3, <2>4, ReleasesInvParts DEF GameSync
  <2>6. \A x \in Syncs : SyncIsSound(x)'
    BY <2>2, <2>3, ReleasesInvParts DEF SyncIsSound
  <2> QED BY <2>2, <2>5, <2>6, SyncMoves DEF ReleasesInv
<1>4. ASSUME NEW s \in Syncs, NEW data, Releases!Fetched(s, data)
      PROVE  ReleasesInv'
  <2>1. /\ sync[s].data = Waiting
        /\ data \in {Unavailable, {r \in published : HomeOf[r] = sync[s].repo}}
        /\ sync' = [sync EXCEPT ![s].data = data]
        /\ cache' = [cache EXCEPT ![sync[s].repo] = data]
        /\ UNCHANGED <<project, stored, pending, published, typed, imported, announced>>
    BY <1>4 DEF Releases!Fetched
  <2>2. data \in Releases!Pages
    BY <2>1, ReleasesInvParts DEF Releases!Pages
  <2>3. sync[s] # Releases!Idle
    BY <2>1, ReleasesInvParts DEF Releases!Idle
  <2>4. /\ sync'[s] = [sync[s] EXCEPT !.data = data] /\ sync'[s] \in GameSync
        /\ sync'[s].project = sync[s].project /\ sync'[s].repo = sync[s].repo
        /\ sync' \in [Syncs -> GameSync] /\ \A x \in Syncs : x # s => sync'[x] = sync[x]
    BY <2>1, <2>2, ReleasesInvParts DEF GameSync
  <2>5. cache' \in [Repos -> Releases!Pages]
    BY <2>1, <2>2, ReleasesInvParts
  <2>6. \A x \in Syncs : SyncIsSound(x)'
    BY <2>1, <2>3, <2>4, ReleasesInvParts DEF SyncIsSound
  <2> QED BY <2>1, <2>4, <2>5, <2>6, SyncMoves DEF ReleasesInv
<1>5. ASSUME NEW s \in Syncs, Releases!GiveUp(s)
      PROVE  ReleasesInv'
  <2>1. /\ sync' = [sync EXCEPT ![s] = Releases!Idle]
        /\ UNCHANGED <<project, stored, pending, cache, published, typed, imported, announced>>
    BY <1>5 DEF Releases!GiveUp
  <2>2. sync' \in [Syncs -> GameSync]
    BY <2>1, ReleasesInvParts DEF GameSync, Releases!Idle, Releases!Pages
  <2>3. \A x \in Syncs : SyncIsSound(x)'
    BY <2>1, ReleasesInvParts DEF SyncIsSound
  <2> QED BY <2>1, <2>2, <2>3, SyncMoves DEF ReleasesInv
<1>6. ASSUME NEW r \in Repos, Releases!Expire(r)
      PROVE  ReleasesInv'
  <2>1. /\ cache' = [cache EXCEPT ![r] = None]
        /\ UNCHANGED <<project, stored, pending, sync, published, typed, imported, announced>>
    BY <1>6 DEF Releases!Expire
  <2>2. cache' \in [Repos -> Releases!Pages] /\ \A x \in Syncs : SyncIsSound(x)'
    BY <2>1, ReleasesInvParts DEF Releases!Pages, SyncIsSound
  <2> QED BY <2>1, <2>2, SyncMoves DEF ReleasesInv
<1>7. ASSUME NEW r \in Published, Releases!Publish(r)
      PROVE  ReleasesInv'
  <2>1. /\ published' = published \cup {r}
        /\ UNCHANGED <<project, stored, pending, sync, cache, typed, imported, announced>>
    BY <1>7 DEF Releases!Publish
  <2>2. \A x \in Syncs : SyncIsSound(x)'
    BY <2>1, ReleasesInvParts DEF SyncIsSound
  <2> QED BY <2>1, <2>2, SyncMoves DEF ReleasesInv
<1>8. CASE UNCHANGED releaseVars
  <2>1. UNCHANGED <<project, stored, pending, sync, cache, published, typed, imported, announced>>
    BY <1>8 DEF releaseVars
  <2>2. \A x \in Syncs : SyncIsSound(x)'
    BY <2>1, ReleasesInvParts DEF SyncIsSound
  <2> QED BY <2>1, <2>2, SyncMoves DEF ReleasesInv
<1> QED BY <1>1, <1>2, <1>3, <1>4, <1>5, <1>6, <1>7, <1>8, SyncStores, ReleaseIsAnnounced
        DEF Releases!Next

(* However syncs and edits interleave, a text an admin typed stays until   *)
(* an admin changes it, and what a project's first import brought is never *)
(* announced, a later release at most once (plugins/data.ts,               *)
(* syncProjectGitHubDescription and storeProjectReleases).                 *)
THEOREM SyncsSpare == Releases!Spec => []SyncsSpareTextAndChannel
<1>1. ReleasesInv => SyncsSpareTextAndChannel
  BY ReleasesInvParts DEF SyncsSpareTextAndChannel, Releases!SyncsSpareTextAndChannel,
     Releases!TypedTextStays, Releases!BacklogIsSilent, GameIsSound
<1> QED BY <1>1, ReleasesBegin, ReleasesStep, PTL DEF Releases!Spec, releaseVars, Releases!vars

-----------------------------------------------------------------------------
(* Starts on the shared file (Schema).                                     *)

(* What a process may rely on at each step of its start.                    *)
ProcessIsSound(p) ==
  /\ process[p].seen \subseteq present
  /\ process[p].at # "off" => attendance.generation # "none"
  /\ process[p].at \in {"migrating", "copied"} => lock = p
  /\ process[p].at = "copied" =>
       attendance.generation # "gps" /\ process[p].copied = attendance.rows
  /\ process[p].at \in {"ledger", "migrating", "copied", "serving"} => present = Columns
  /\ process[p].at = "serving" => attendance.generation = "gps"

Arrival == [id : Nat, source : Schema!Sources, assured : BOOLEAN]

StartState == [at : Schema!Steps \ {"failed"}, seen : SUBSET Columns, copied : SUBSET Arrival]

SchemaInv ==
  /\ attendance \in [generation : {"none", "old", "face", "gps"}, rows : SUBSET Arrival]
  /\ attendance.rows = written /\ IsFiniteSet(written)
  /\ attendance.generation = "old" => \A r \in written : ~r.assured
  /\ present \subseteq Columns /\ lock \in Processes \cup {"nobody"}
  /\ process \in [Processes -> StartState]
  /\ \A p \in Processes : ProcessIsSound(p)

LEMMA SchemaInvParts ==
  ASSUME SchemaInv
  PROVE  /\ attendance.generation \in {"none", "old", "face", "gps"}
         /\ attendance = [generation |-> attendance.generation, rows |-> attendance.rows]
         /\ attendance.rows \subseteq Arrival /\ attendance.rows = written
         /\ present \subseteq Columns /\ lock \in Processes \cup {"nobody"}
         /\ process \in [Processes -> StartState] /\ "nobody" \notin Processes
         /\ \A p \in Processes : process[p] \in StartState /\ ProcessIsSound(p)
  BY StartsAssumption DEF SchemaInv, Schema!SchemaAssumption

(* A process takes a step; the ledger stays as it is.                      *)
LEMMA SchemaMoves ==
  ASSUME SchemaInv, NEW p \in Processes, NEW new \in StartState,
         process' = [process EXCEPT ![p] = new], UNCHANGED <<attendance, written>>,
         present \subseteq present', present' \subseteq Columns,
         lock' \in Processes \cup {"nobody"},
         \A q \in Processes : q # p /\ lock = q => lock' = q,
         new.seen \subseteq present',
         new.at # "off" => attendance.generation # "none",
         new.at \in {"migrating", "copied"} => lock' = p,
         new.at = "copied" => attendance.generation # "gps" /\ new.copied = attendance.rows,
         new.at \in {"ledger", "migrating", "copied", "serving"} => present' = Columns,
         new.at = "serving" => attendance.generation = "gps"
  PROVE  SchemaInv'
<1>1. /\ process' \in [Processes -> StartState] /\ process'[p] = new
      /\ \A q \in Processes : q # p => process'[q] = process[q]
  BY SchemaInvParts
<1>2. ASSUME NEW q \in Processes
      PROVE  ProcessIsSound(q)'
  <2>1. CASE q = p
    BY <1>1, <2>1 DEF ProcessIsSound
  <2>2. CASE q # p
    <3>1. process'[q] = process[q]
      BY <1>1, <2>2
    <3>2. ProcessIsSound(q)
      BY DEF SchemaInv
    <3> QED BY <2>2, <3>1, <3>2 DEF ProcessIsSound
  <2> QED BY <2>1, <2>2
<1> QED BY <1>1, <1>2 DEF SchemaInv

(* It only goes on to another step.                                        *)
LEMMA SchemaGoesOn ==
  ASSUME SchemaInv, NEW p \in Processes, NEW step \in Schema!Steps \ {"failed", "copied"},
         Schema!At(p, step), UNCHANGED <<attendance, written, present>>,
         lock' \in Processes \cup {"nobody"},
         \A q \in Processes : q # p /\ lock = q => lock' = q,
         step # "off" => attendance.generation # "none",
         step = "migrating" => lock' = p,
         step \in {"ledger", "migrating", "serving"} => present = Columns,
         step = "serving" => attendance.generation = "gps"
  PROVE  SchemaInv'
<1> DEFINE new == [process[p] EXCEPT !.at = step]
<1>1. process' = [process EXCEPT ![p] = new]
  BY SchemaInvParts DEF Schema!At
<1>2. new \in StartState /\ new.at = step /\ new.seen = process[p].seen
      /\ new.copied = process[p].copied
  BY SchemaInvParts DEF StartState
<1>3. process[p].seen \subseteq present
  BY DEF SchemaInv, ProcessIsSound
<1> HIDE DEF new
<1> QED BY <1>1, <1>2, <1>3, SchemaInvParts, SchemaMoves

(* An arrival is written while nobody copies the ledger.                   *)
LEMMA SchemaArrives ==
  ASSUME SchemaInv, NEW s \in Schema!Takes(attendance.generation), NEW i \in Nat,
         attendance' = [attendance EXCEPT !.rows = attendance.rows \cup {Schema!Row(i, s)}],
         written' = written \cup {Schema!Row(i, s)},
         UNCHANGED <<present, lock, process>>,
         \A p \in Processes : process[p].at # "copied"
  PROVE  SchemaInv'
<1> DEFINE r == Schema!Row(i, s)
<1>1. /\ r \in Arrival
      /\ attendance.generation = "old" => ~r.assured
  BY DEF Schema!Row, Schema!Takes, Schema!Sources, Arrival
<1> HIDE DEF r
<1>2. /\ attendance'.generation = attendance.generation
      /\ attendance'.rows = attendance.rows \cup {r} /\ written' = written \cup {r}
      /\ attendance' = [generation |-> attendance'.generation, rows |-> attendance'.rows]
  BY SchemaInvParts DEF r
<1>3. IsFiniteSet(written')
  BY <1>2, FS_AddElement DEF SchemaInv
<1>4. \A p \in Processes : ProcessIsSound(p)'
  BY <1>2 DEF SchemaInv, ProcessIsSound
<1>5. /\ attendance'.generation \in {"none", "old", "face", "gps"}
      /\ attendance'.rows \subseteq Arrival /\ attendance'.rows = written'
      /\ attendance'.generation = "old" => \A x \in written' : ~x.assured
  BY <1>1, <1>2, SchemaInvParts DEF SchemaInv
<1> QED BY <1>2, <1>3, <1>4, <1>5, SchemaInvParts DEF SchemaInv

LEMMA SchemaBegins == Schema!Init => SchemaInv
<1> SUFFICES ASSUME Schema!Init
             PROVE  SchemaInv
  OBVIOUS
<1>1. PICK g \in {"none", "old", "face", "gps"} :
        attendance = [generation |-> g,
                      rows |-> {Schema!Row(0, s) : s \in Schema!Takes(g) \ {"passkey"}}]
  BY DEF Schema!Init
<1>2. attendance.rows = written
  BY DEF Schema!Init
<1>3. \A r \in attendance.rows : r \in Arrival /\ attendance.generation # "old"
  <2>1. /\ \A s \in Schema!Sources : Schema!Row(0, s) \in Arrival
        /\ Schema!Takes(g) \subseteq Schema!Sources
        /\ g = "old" => Schema!Takes(g) \ {"passkey"} = {}
    BY DEF Schema!Row, Schema!Takes, Schema!Sources, Arrival
  <2>2. /\ attendance.generation = g
        /\ attendance.rows = {Schema!Row(0, s) : s \in Schema!Takes(g) \ {"passkey"}}
    BY <1>1
  <2> QED BY <2>1, <2>2
<1>4. \A p \in Processes : process[p] = [at |-> "off", seen |-> {}, copied |-> {}]
  BY DEF Schema!Init, Schema!Off
<1>5. process \in [Processes -> StartState]
  BY DEF Schema!Init, Schema!Off, StartState, Schema!Steps
<1>6. \A p \in Processes : ProcessIsSound(p)
  BY <1>4 DEF ProcessIsSound
<1>7. present \subseteq Columns /\ lock = "nobody"
  BY DEF Schema!Init
<1>8. IsFiniteSet(attendance.rows)
  <2>1. attendance.rows \subseteq {Schema!Row(0, "passkey"), Schema!Row(0, "face"), Schema!Row(0, "gps")}
    BY <1>1 DEF Schema!Takes, Schema!Sources
  <2>2. IsFiniteSet({}) /\ \A S, x : IsFiniteSet(S) => IsFiniteSet(S \cup {x})
    BY FS_EmptySet, FS_AddElement
  <2>3. IsFiniteSet({Schema!Row(0, "passkey"), Schema!Row(0, "face"), Schema!Row(0, "gps")})
    <3>1. {Schema!Row(0, "passkey"), Schema!Row(0, "face"), Schema!Row(0, "gps")}
            = (({} \cup {Schema!Row(0, "passkey")}) \cup {Schema!Row(0, "face")})
                \cup {Schema!Row(0, "gps")}
      OBVIOUS
    <3>2. IsFiniteSet({} \cup {Schema!Row(0, "passkey")})
      BY <2>2
    <3>3. IsFiniteSet(({} \cup {Schema!Row(0, "passkey")}) \cup {Schema!Row(0, "face")})
      BY <2>2, <3>2
    <3> QED BY <2>2, <3>1, <3>3
  <2> QED BY <2>1, <2>3, FS_Subset
<1> QED BY <1>1, <1>2, <1>3, <1>5, <1>6, <1>7, <1>8 DEF SchemaInv

LEMMA WrittenAreCounted == SchemaInv => Schema!Cardinality(written) + 1 \in Nat
<1>1. Schema!Cardinality(written) = Cardinality(written)
  BY DEF Schema!Cardinality, Cardinality, Schema!IsFiniteSet, IsFiniteSet
<1> QED BY <1>1, FS_CardinalityType DEF SchemaInv

LEMMA SchemaStep == SchemaInv /\ [Schema!Next]_schemaVars => SchemaInv'
<1> SUFFICES ASSUME SchemaInv, [Schema!Next]_schemaVars
             PROVE  SchemaInv'
  OBVIOUS
<1> USE SchemaInvParts
<1>1. ASSUME NEW p \in Processes, Schema!CreateTables(p)
      PROVE  SchemaInv'
  <2>1. /\ process[p].at = "off" /\ Schema!At(p, "columns")
        /\ UNCHANGED <<present, lock, written>>
    BY <1>1 DEF Schema!CreateTables
  <2>2. CASE attendance.generation # "none"
    <3>1. attendance' = attendance
      BY <1>1, <2>2 DEF Schema!CreateTables
    <3> QED BY <2>1, <2>2, <3>1, SchemaGoesOn DEF Schema!Steps
  <2>3. CASE attendance.generation = "none"
    <3>1. /\ attendance'.generation = "gps" /\ attendance'.rows = attendance.rows
          /\ attendance' = [generation |-> "gps", rows |-> attendance.rows]
      BY <1>1, <2>3 DEF Schema!CreateTables, SchemaInv
    <3>2. \A q \in Processes : process[q].at = "off"
      BY <2>3 DEF ProcessIsSound
    <3>3. \A q \in Processes : /\ process'[q].at \in {"off", "columns"}
                               /\ process'[q].seen = process[q].seen
                               /\ process'[q].copied = process[q].copied
                               /\ process'[q] \in StartState
      <4> SUFFICES ASSUME NEW q \in Processes
                   PROVE  /\ process'[q].at \in {"off", "columns"}
                          /\ process'[q].seen = process[q].seen
                          /\ process'[q].copied = process[q].copied
                          /\ process'[q] \in StartState
        OBVIOUS
      <4>1. process[q] \in StartState
        OBVIOUS
      <4>2. process'[q] = IF q = p THEN [process[q] EXCEPT !.at = "columns"] ELSE process[q]
        BY <2>1 DEF Schema!At
      <4> QED BY <3>2, <4>1, <4>2 DEF StartState, Schema!Steps
    <3>4. process' \in [Processes -> StartState]
      BY <2>1, <3>3 DEF Schema!At
    <3>5. \A q \in Processes : ProcessIsSound(q)'
      BY <2>1, <3>1, <3>3 DEF ProcessIsSound, SchemaInv
    <3> QED BY <2>1, <3>1, <3>4, <3>5 DEF SchemaInv
  <2> QED BY <2>2, <2>3
<1>2. ASSUME NEW p \in Processes, Schema!ReadColumns(p)
      PROVE  SchemaInv'
  <2> DEFINE new == [process[p] EXCEPT !.at = "alter", !.seen = present]
  <2>1. /\ process' = [process EXCEPT ![p] = new] /\ process[p].at = "columns"
        /\ UNCHANGED <<attendance, present, lock, written>>
    BY <1>2 DEF Schema!ReadColumns
  <2>2. /\ new \in StartState /\ new.at = "alter" /\ new.seen = present
        /\ new.copied = process[p].copied
    BY DEF StartState, Schema!Steps
  <2>3. attendance.generation # "none"
    BY <2>1 DEF ProcessIsSound
  <2> HIDE DEF new
  <2> QED BY <2>1, <2>2, <2>3, SchemaMoves
<1>3. ASSUME NEW p \in Processes, Schema!Alter(p)
      PROVE  SchemaInv'
  <2>1. PICK c \in Columns \ process[p].seen :
          /\ present' = present \cup {c}
          /\ process' = [process EXCEPT ![p].seen = IF c \in present THEN present ELSE @ \cup {c}]
    BY <1>3 DEF Schema!Alter
  <2> DEFINE seen == IF c \in present THEN present ELSE process[p].seen \cup {c}
             new == [process[p] EXCEPT !.seen = seen]
  <2>2. process' = [process EXCEPT ![p] = new]
    BY <2>1
  <2>3. /\ process[p].at = "alter" /\ UNCHANGED <<attendance, lock, written>>
    BY <1>3 DEF Schema!Alter
  <2>4. /\ process[p].seen \subseteq present
        /\ attendance.generation # "none"
    BY <2>3 DEF SchemaInv, ProcessIsSound
  <2>5. seen \subseteq present' /\ seen \subseteq Columns /\ present' \subseteq Columns
    BY <2>1, <2>4
  <2> HIDE DEF seen
  <2>6. /\ new \in StartState /\ new.at = "alter" /\ new.seen = seen
        /\ new.copied = process[p].copied
    BY <2>3, <2>5 DEF StartState, Schema!Steps
  <2> HIDE DEF new
  <2> QED BY <2>1, <2>2, <2>3, <2>4, <2>5, <2>6, SchemaMoves
<1>4. ASSUME NEW p \in Processes, Schema!Altered(p)
      PROVE  SchemaInv'
  <2>1. /\ process[p].at = "alter" /\ Columns \subseteq process[p].seen /\ Schema!At(p, "ledger")
        /\ UNCHANGED <<attendance, present, lock, written>>
    BY <1>4 DEF Schema!Altered
  <2>2. present = Columns /\ attendance.generation # "none"
    BY <2>1 DEF ProcessIsSound
  <2> QED BY <2>1, <2>2, SchemaGoesOn DEF Schema!Steps
<1>5. ASSUME NEW p \in Processes, Schema!Wide(p)
      PROVE  SchemaInv'
  <2>1. /\ process[p].at = "ledger" /\ attendance.generation = "gps" /\ Schema!At(p, "serving")
        /\ UNCHANGED <<attendance, present, lock, written>>
    BY <1>5 DEF Schema!Wide
  <2>2. present = Columns
    BY <2>1 DEF ProcessIsSound
  <2> QED BY <2>1, <2>2, SchemaGoesOn DEF Schema!Steps
<1>6. ASSUME NEW p \in Processes, Schema!Begin(p)
      PROVE  SchemaInv'
  <2>1. /\ process[p].at = "ledger" /\ Schema!At(p, "migrating") /\ lock = "nobody" /\ lock' = p
        /\ UNCHANGED <<attendance, present, written>>
    BY <1>6 DEF Schema!Begin
  <2>2. present = Columns /\ attendance.generation # "none"
    BY <2>1 DEF ProcessIsSound
  <2> QED BY <2>1, <2>2, SchemaGoesOn DEF Schema!Steps
<1>7. ASSUME NEW p \in Processes, Schema!TimedOut(p)
      PROVE  SchemaInv'
  <2>1. /\ Schema!At(p, "off") /\ UNCHANGED <<attendance, present, lock, written>>
    BY <1>7 DEF Schema!TimedOut
  <2> QED BY <2>1, SchemaGoesOn DEF Schema!Steps
<1>8. ASSUME NEW p \in Processes, Schema!Recheck(p)
      PROVE  SchemaInv'
  <2>1. /\ process[p].at = "migrating" /\ attendance.generation = "gps" /\ lock' = "nobody"
        /\ Schema!At(p, "serving") /\ UNCHANGED <<attendance, present, written>>
    BY <1>8 DEF Schema!Recheck
  <2>2. present = Columns /\ lock = p
    BY <2>1 DEF ProcessIsSound
  <2> QED BY <2>1, <2>2, SchemaGoesOn DEF Schema!Steps
<1>9. ASSUME NEW p \in Processes, Schema!Copy(p)
      PROVE  SchemaInv'
  <2> DEFINE rows == {[r EXCEPT !.assured = @ /\ attendance.generation = "face"] : r \in attendance.rows}
             new == [process[p] EXCEPT !.at = "copied", !.copied = rows]
  <2>1. /\ process[p].at = "migrating" /\ attendance.generation # "gps"
        /\ process' = [process EXCEPT ![p] = new]
        /\ UNCHANGED <<attendance, present, lock, written>>
    BY <1>9 DEF Schema!Copy
  <2>2. attendance.generation \in {"old", "face"} /\ present = Columns /\ lock = p
        /\ process[p].seen \subseteq present
    BY <2>1 DEF SchemaInv, ProcessIsSound
  <2>3. ASSUME NEW r \in attendance.rows
        PROVE  [r EXCEPT !.assured = @ /\ attendance.generation = "face"] = r
    <3>1. /\ r = [id |-> r.id, source |-> r.source, assured |-> r.assured] /\ r.assured \in BOOLEAN
          /\ attendance.generation = "old" => ~r.assured
      BY SchemaInvParts DEF SchemaInv, Arrival
    <3>2. (r.assured /\ attendance.generation = "face") = r.assured
      BY <2>2, <3>1
    <3>3. [r EXCEPT !.assured = @ /\ attendance.generation = "face"]
            = [id |-> r.id, source |-> r.source,
               assured |-> r.assured /\ attendance.generation = "face"]
      BY <3>1
    <3> QED BY <3>1, <3>2, <3>3
  <2>4. rows = attendance.rows
    BY <2>3
  <2> HIDE DEF rows
  <2>5. /\ new.at = "copied" /\ new.seen = process[p].seen /\ new.copied = rows
        /\ new \in StartState
    BY <2>4, SchemaInvParts DEF StartState, Schema!Steps
  <2>6. attendance.rows = written
    BY DEF SchemaInv
  <2> HIDE DEF new
  <2> QED BY <2>1, <2>2, <2>4, <2>5, <2>6, SchemaMoves
<1>10. ASSUME NEW p \in Processes, Schema!Commit(p)
       PROVE  SchemaInv'
  <2>1. /\ process[p].at = "copied" /\ Schema!At(p, "serving")
        /\ attendance' = [generation |-> "gps", rows |-> process[p].copied]
        /\ UNCHANGED <<present, written>>
    BY <1>10 DEF Schema!Commit
  <2>2. /\ present = Columns /\ lock = p /\ process[p].copied = attendance.rows
        /\ process[p].seen \subseteq present
    BY <2>1 DEF ProcessIsSound
  <2>3. lock' = "nobody"
    BY <1>10, <2>2 DEF Schema!Commit
  <2>4. /\ attendance' = [generation |-> attendance'.generation, rows |-> attendance'.rows]
        /\ attendance'.generation = "gps" /\ attendance'.rows = attendance.rows
    BY <2>1, <2>2
  <2>5. \A q \in Processes : /\ q = p => process'[q].at = "serving"
                             /\ q # p => process'[q].at = process[q].at
                             /\ process'[q].seen = process[q].seen
                             /\ process'[q].copied = process[q].copied
                             /\ process'[q] \in StartState
    <3> SUFFICES ASSUME NEW q \in Processes
                 PROVE  /\ q = p => process'[q].at = "serving"
                        /\ q # p => process'[q].at = process[q].at
                        /\ process'[q].seen = process[q].seen
                        /\ process'[q].copied = process[q].copied
                        /\ process'[q] \in StartState
      OBVIOUS
    <3>1. process[q] \in StartState
      OBVIOUS
    <3>2. process'[q] = IF q = p THEN [process[q] EXCEPT !.at = "serving"] ELSE process[q]
      BY <2>1 DEF Schema!At
    <3> QED BY <3>1, <3>2 DEF StartState, Schema!Steps
  <2>6. process' \in [Processes -> StartState]
    BY <2>1, <2>5 DEF Schema!At
  <2>7. ASSUME NEW q \in Processes
        PROVE  ProcessIsSound(q)'
    <3>1. ProcessIsSound(q)
      BY DEF SchemaInv
    <3>2. CASE q = p
      BY <2>1, <2>2, <2>4, <2>5, <3>1, <3>2 DEF ProcessIsSound
    <3>3. CASE q # p
      <4>1. process[q].at \notin {"migrating", "copied"}
        BY <2>2, <3>1, <3>3 DEF ProcessIsSound
      <4> QED BY <2>1, <2>4, <2>5, <3>1, <3>3, <4>1 DEF ProcessIsSound
    <3> QED BY <3>2, <3>3
  <2> QED BY <2>1, <2>3, <2>4, <2>6, <2>7, SchemaInvParts DEF SchemaInv
<1>11. ASSUME NEW p \in Processes, Schema!Arrive(p)
       PROVE  SchemaInv'
  <2>1. \A q \in Processes : process[q].at # "copied"
    BY <1>11 DEF Schema!Arrive, Schema!Serving, ProcessIsSound
  <2>2. PICK s \in Schema!Takes(attendance.generation) :
          /\ attendance' = [attendance EXCEPT
               !.rows = attendance.rows \cup {Schema!Row(Schema!Cardinality(written) + 1, s)}]
          /\ written' = written \cup {Schema!Row(Schema!Cardinality(written) + 1, s)}
    BY <1>11 DEF Schema!Arrive
  <2>3. UNCHANGED <<present, lock, process>>
    BY <1>11 DEF Schema!Arrive
  <2>4. Schema!Cardinality(written) + 1 \in Nat
    BY WrittenAreCounted
  <2> QED BY <2>1, <2>2, <2>3, <2>4, SchemaArrives
<1>12. CASE Schema!ArriveEarlier
  <2>1. \A q \in Processes : process[q].at # "copied"
    BY <1>12 DEF Schema!ArriveEarlier, ProcessIsSound
  <2>2. PICK s \in Schema!Takes(attendance.generation) :
          /\ attendance' = [attendance EXCEPT
               !.rows = attendance.rows \cup {Schema!Row(Schema!Cardinality(written) + 1, s)}]
          /\ written' = written \cup {Schema!Row(Schema!Cardinality(written) + 1, s)}
    BY <1>12 DEF Schema!ArriveEarlier
  <2>3. UNCHANGED <<present, lock, process>>
    BY <1>12 DEF Schema!ArriveEarlier
  <2>4. Schema!Cardinality(written) + 1 \in Nat
    BY WrittenAreCounted
  <2> QED BY <2>1, <2>2, <2>3, <2>4, SchemaArrives
<1>13. ASSUME NEW p \in Processes, Schema!Crash(p)
       PROVE  SchemaInv'
  <2>1. /\ process' = [process EXCEPT ![p] = Schema!Off]
        /\ lock' = (IF lock = p THEN "nobody" ELSE lock)
        /\ UNCHANGED <<attendance, present, written>>
    BY <1>13 DEF Schema!Crash
  <2>2. /\ Schema!Off \in StartState /\ Schema!Off.at = "off" /\ Schema!Off.seen = {}
        /\ Schema!Off.copied = {}
    BY DEF Schema!Off, StartState, Schema!Steps
  <2> QED BY <2>1, <2>2, SchemaMoves
<1>14. CASE UNCHANGED schemaVars
  BY <1>14 DEF schemaVars, SchemaInv, ProcessIsSound
<1> QED BY <1>1, <1>2, <1>3, <1>4, <1>5, <1>6, <1>7, <1>8, <1>9, <1>10, <1>11, <1>12, <1>13,
           <1>14 DEF Schema!Next

(* Hub and Bot start in any order and at once, on a file of any generation *)
(* with any columns missing: neither fails, who serves finds the whole     *)
(* schema, and no arrival is lost, wherever a start is cut off             *)
(* (plugins/data.ts, ensureSchema).                                        *)
THEOREM StartsSafe == Schema!Spec => []StartsAreSafe
<1>1. SchemaInv => StartsAreSafe
  BY DEF SchemaInv, StartsAreSafe, Schema!StartsAreSafe, Schema!Serving, ProcessIsSound,
     StartState
<1> QED BY <1>1, SchemaBegins, SchemaStep, PTL DEF Schema!Spec, schemaVars, Schema!vars
-----------------------------------------------------------------------------
(* Weekly events (Recurrence).                                             *)

(* A set of numbers has a least one: what takes the place of an induction. *)
LEMMA LeastNumber ==
  ASSUME NEW T \in SUBSET Nat, NEW n \in T PROVE \E x \in T : \A y \in T : x <= y
<1> DEFINE R == OpToRel(<, Nat)
<1>1. IsWellFoundedOn(R, Nat)
  BY NatLessThanWellFounded
<1>2. \A x, y \in Nat : y < x => <<y, x>> \in R
  BY DEF OpToRel
<1> HIDE DEF R
<1>3. PICK x \in T : \A y \in T : ~ (<<y, x>> \in R)
  BY <1>1, WFMin
<1>4. \A y \in T : x <= y
  <2> TAKE y \in T
  <2>1. x \in Nat /\ y \in Nat
    OBVIOUS
  <2>2. ~(y < x)
    BY <1>2, <1>3, <2>1
  <2> QED BY <2>1, <2>2
<1> QED BY <1>3, <1>4

LEMMA WeekIs ==
  /\ WEEK \in Nat /\ WEEK >= 2 /\ Window \in 1..(WEEK - 1)
  /\ MaxNow \in Nat /\ Change \in 0..MaxNow
  /\ Starts \subseteq 0..MaxNow /\ Lengths \subseteq Nat \ {0} /\ Shifts \subseteq {-1, 0, 1}
BY WeeksAssumption DEF Weeks!RecurrenceAssumption

(* Division, for divisors that are no numerals.                            *)
LEMMA Quotient ==
  ASSUME NEW a \in Int, NEW d \in Nat \ {0}
  PROVE  a \div d \in Int /\ d * (a \div d) <= a /\ a < d * (a \div d) + d
<1>1. a \div d \in Int
  OBVIOUS
<1>2. d * (a \div d) <= a
  OBVIOUS
<1>3. a < d * (a \div d) + d
  OBVIOUS
<1> QED BY <1>1, <1>2, <1>3

LEMMA Multiples ==
  ASSUME NEW d \in Nat \ {0}, NEW j \in Int, NEW k \in Int
  PROVE  /\ d * j \in Int /\ d * (j + 1) = d * j + d /\ d * (k - j) = d * k - d * j
         /\ j < k => d * j + d <= d * k
         /\ j = k + 1 => d * j = d * k + d
<1>1. j < k => d * (k - j) >= d
  <2> SUFFICES ASSUME j < k PROVE d * (k - j) >= d
    OBVIOUS
  <2>1. k - j - 1 \in Nat
    OBVIOUS
  <2>2. d * (k - j - 1) >= 0
    BY <2>1
  <2> QED BY <2>2
<1> QED BY <1>1

(* The same remainder in the same week.                                    *)
LEMMA SameMultiple ==
  ASSUME NEW d \in Nat \ {0}, NEW w \in Int, NEW j \in Int, NEW k \in Int,
         (w + d * j) \div d = (w + d * k) \div d
  PROVE  j = k
<1> DEFINE q == (w + d * j) \div d
<1>1. d * j \in Int /\ d * k \in Int
  BY Multiples
<1>2. /\ q \in Int /\ d * q <= w + d * j /\ w + d * j < d * q + d
      /\ d * q <= w + d * k /\ w + d * k < d * q + d
  <2>1. w + d * j \in Int /\ w + d * k \in Int
    BY <1>1
  <2> QED BY <2>1, Quotient
<1> HIDE DEF q
<1>3. ~(j < k) /\ ~(k < j)
  BY <1>1, <1>2, Multiples
<1> QED BY <1>3

LEMMA Divides ==
  ASSUME NEW d \in Nat \ {0}, NEW a \in Int, a % d = 0
  PROVE  \E k \in Int : a = d * k
OBVIOUS

(* The occurrence of k weeks after the first.                              *)
Occurrence(start, k) == Weeks!Instant(Weeks!Wall(start) + WEEK * k)

(* The clock: the instant of a wall time is the first that shows it, if    *)
(* the clock does not skip it.                                             *)
LEMMA WallIs ==
  ASSUME shift \in Shifts, NEW t \in Int
  PROVE  /\ Weeks!Wall(t) \in Int /\ t - 1 <= Weeks!Wall(t) /\ Weeks!Wall(t) <= t + 1
         /\ Weeks!Wall(t) = IF t < Change THEN t ELSE t + shift
<1> USE WeekIs
<1>1. shift \in {-1, 0, 1} /\ Change \in Int
  OBVIOUS
<1> QED BY <1>1 DEF Weeks!Wall

LEMMA InstantIs ==
  ASSUME shift \in Shifts, NEW w \in Int
  PROVE  Weeks!Instant(w) \in Int
<1> USE WeekIs
<1>1. shift \in {-1, 0, 1} /\ Change \in Int
  OBVIOUS
<1> QED BY <1>1 DEF Weeks!Instant

LEMMA LateInstantIs ==
  ASSUME shift \in Shifts, NEW w \in Int, w >= Change + 1
  PROVE  Weeks!Wall(Weeks!Instant(w)) = w
<1> USE WeekIs
<1>1. shift \in {-1, 0, 1} /\ Change \in Int
  OBVIOUS
<1> QED BY <1>1 DEF Weeks!Instant, Weeks!Wall

LEMMA InstantIsFirst ==
  ASSUME shift \in Shifts, NEW w \in Int, NEW s \in Int, Weeks!Wall(s) = w
  PROVE  Weeks!Instant(w) <= s
<1> USE WeekIs
<1>1. shift \in {-1, 0, 1} /\ Change \in Int
  OBVIOUS
<1> QED BY <1>1 DEF Weeks!Instant, Weeks!Wall

(* Where weekly events start: at every week, for an event whose wall times *)
(* are all shown.                                                          *)
LEMMA EveryWeekIsShown ==
  ASSUME shift \in Shifts, NEW start \in 0..MaxNow, Weeks!Shown(start), NEW k \in Nat
  PROVE  /\ Occurrence(start, k) \in Int
         /\ Weeks!Wall(Occurrence(start, k)) = Weeks!Wall(start) + WEEK * k
<1> DEFINE w == Weeks!Wall(start) + WEEK * k
           last == MaxNow \div WEEK + 2
<1>1. WEEK \in Nat \ {0} /\ MaxNow \in Int /\ WEEK * k \in Int /\ Weeks!Wall(start) \in Int
      /\ Weeks!Wall(start) >= start - 1 /\ start \in Int /\ start >= 0
  <2>1. WEEK \in Nat \ {0} /\ MaxNow \in Int /\ start \in Int /\ start >= 0
    BY WeekIs
  <2>2. WEEK * k \in Int
    BY <2>1
  <2>3. Weeks!Wall(start) \in Int /\ Weeks!Wall(start) >= start - 1
    BY <2>1, WallIs
  <2> QED BY <2>1, <2>2, <2>3
<1>2. w \in Int /\ w = Weeks!Wall(start) + WEEK * k /\ Occurrence(start, k) = Weeks!Instant(w)
  BY <1>1 DEF Occurrence
<1> HIDE DEF w
<1>3. last \in Int /\ WEEK * last > MaxNow + WEEK
  <2>1. MaxNow \div WEEK \in Int /\ MaxNow < WEEK * (MaxNow \div WEEK) + WEEK
    BY <1>1, Quotient
  <2> DEFINE m == MaxNow \div WEEK
  <2>2. m \in Int
    BY <2>1
  <2> HIDE DEF m
  <2>3. WEEK * (m + 2) = WEEK * m + WEEK + WEEK
    BY <1>1, <2>2
  <2> QED BY <1>1, <2>1, <2>2, <2>3 DEF m
<1>4. CASE k \in 0..last
  <2>1. Weeks!Wall(Weeks!Instant(Weeks!Wall(start) + k * WEEK)) = Weeks!Wall(start) + k * WEEK
    BY <1>4 DEF Weeks!Shown
  <2>2. k * WEEK = WEEK * k
    BY <1>1
  <2>3. Weeks!Instant(w) \in Int /\ Weeks!Wall(Weeks!Instant(w)) = w
    BY <1>2, <2>1, <2>2, InstantIs
  <2> QED BY <1>2, <2>3
<1>5. CASE k > last
  <2>1. WEEK * last + WEEK <= WEEK * k
    BY <1>1, <1>3, <1>5, Multiples
  <2>2. WEEK * last \in Int
    BY <1>1, <1>3, Multiples
  <2>3. w >= Change + 1
    <3> DEFINE u == WEEK * last
               v == WEEK * k
    <3>1. u \in Int /\ v \in Int /\ u > MaxNow + WEEK /\ u + WEEK <= v
          /\ w >= start - 1 + v /\ Change <= MaxNow /\ Change \in Int /\ WEEK >= 2
      BY <1>1, <1>2, <1>3, <2>1, <2>2, WeekIs
    <3> HIDE DEF u, v, last
    <3> QED BY <1>1, <1>2, <3>1
  <2>4. Weeks!Instant(w) \in Int /\ Weeks!Wall(Weeks!Instant(w)) = w
    BY <1>2, <2>3, InstantIs, LateInstantIs
  <2> QED BY <1>2, <2>4
<1> HIDE DEF last
<1> QED BY <1>3, <1>4, <1>5

(* They follow one another, a week and at most one hour apart, and keep to *)
(* whole weeks after the first up to that hour.                            *)
LEMMA WeeksFollow ==
  ASSUME shift \in Shifts, NEW start \in 0..MaxNow, Weeks!Shown(start)
  PROVE  /\ Occurrence(start, 0) = start
         /\ \A j, k \in Nat : j < k => Occurrence(start, j) + WEEK - 1 <= Occurrence(start, k)
         /\ \A k \in Nat : /\ Occurrence(start, k) >= start + WEEK * k - 1
                            /\ Occurrence(start, k) <= start + WEEK * k + 1
                            /\ Occurrence(start, k + 1) <= Occurrence(start, k) + WEEK + 1
<1> USE WeekIs
<1>1. /\ WEEK \in Nat \ {0} /\ start \in Int /\ Change \in Int /\ shift \in {-1, 0, 1}
      /\ Weeks!Wall(start) \in Int
  <2>1. /\ WEEK \in Nat \ {0} /\ start \in Int /\ Change \in Int /\ shift \in {-1, 0, 1}
    OBVIOUS
  <2> QED BY <2>1, WallIs
<1>2. \A k \in Nat : /\ Occurrence(start, k) \in Int /\ WEEK * k \in Int /\ k \in Int
                     /\ Weeks!Wall(Occurrence(start, k)) = Weeks!Wall(start) + WEEK * k
  BY <1>1, EveryWeekIsShown, Multiples
<1>3. Occurrence(start, 0) = start
  <2>1. WEEK * 0 = 0
    BY <1>1
  <2> QED BY <1>1, <2>1 DEF Occurrence, Weeks!Shown
<1>4. \A t \in Int : Weeks!Wall(t) = IF t < Change THEN t ELSE t + shift
  BY <1>1 DEF Weeks!Wall
<1>5. ASSUME NEW j \in Nat, NEW k \in Nat, j < k
      PROVE  Occurrence(start, j) + WEEK - 1 <= Occurrence(start, k)
  <2>1. WEEK * j + WEEK <= WEEK * k
    BY <1>1, <1>2, <1>5, Multiples
  <2> DEFINE s == Occurrence(start, j)
             t == Occurrence(start, k)
             v == WEEK * j
             w == WEEK * k
             a == Weeks!Wall(start)
  <2>2. s \in Int /\ t \in Int /\ v \in Int /\ w \in Int /\ v + WEEK <= w
        /\ Weeks!Wall(s) = a + v /\ Weeks!Wall(t) = a + w
    BY <1>2, <2>1
  <2>3. /\ Weeks!Wall(s) = IF s < Change THEN s ELSE s + shift
        /\ Weeks!Wall(t) = IF t < Change THEN t ELSE t + shift
    BY <1>4, <2>2
  <2> HIDE DEF s, t, v, w, a
  <2>4. a \in Int /\ WEEK \in Int /\ WEEK >= 2
    BY <1>1 DEF a
  <2>5. s + WEEK - 1 <= t
    BY <1>1, <2>2, <2>3, <2>4
  <2> QED BY <2>5 DEF s, t
<1>6. ASSUME NEW k \in Nat
      PROVE  /\ Occurrence(start, k) >= start + WEEK * k - 1
             /\ Occurrence(start, k) <= start + WEEK * k + 1
             /\ Occurrence(start, k + 1) <= Occurrence(start, k) + WEEK + 1
  <2>1. WEEK * (k + 1) = WEEK * k + WEEK /\ k + 1 \in Nat
    BY <1>1
  <2>2. WEEK * k >= 0
    BY <1>1
  <2> DEFINE s == Occurrence(start, k)
             t == Occurrence(start, k + 1)
             v == WEEK * k
             a == Weeks!Wall(start)
  <2>3. s \in Int /\ t \in Int /\ v \in Int /\ v >= 0
        /\ Weeks!Wall(s) = a + v /\ Weeks!Wall(t) = a + (v + WEEK)
    BY <1>2, <2>1, <2>2
  <2>4. /\ Weeks!Wall(s) = IF s < Change THEN s ELSE s + shift
        /\ Weeks!Wall(t) = IF t < Change THEN t ELSE t + shift
        /\ a = IF start < Change THEN start ELSE start + shift
    BY <1>1, <1>4, <2>3
  <2>5. start = Occurrence(start, 0)
    BY <1>3
  <2>6. start <= s
    <3>1. CASE k = 0
      BY <1>1, <2>5, <3>1
    <3>2. CASE k # 0
      <4>1. Occurrence(start, 0) + WEEK - 1 <= Occurrence(start, k)
        BY <1>5, <3>2
      <4> QED BY <1>1, <2>3, <2>5, <4>1
    <3> QED BY <3>1, <3>2
  <2> HIDE DEF s, t, v, a
  <2>7. a \in Int /\ WEEK \in Int /\ WEEK >= 2
    BY <1>1 DEF a
  <2>8. s >= start + v - 1 /\ s <= start + v + 1 /\ t <= s + WEEK + 1
    BY <1>1, <2>3, <2>4, <2>6, <2>7
  <2> QED BY <2>8 DEF s, t, v
<1> QED BY <1>3, <1>5, <1>6

(* The occurrence is the first instant at which the clock shows it.        *)
LEMMA FirstShown ==
  ASSUME shift \in Shifts, NEW start \in 0..MaxNow, Weeks!Shown(start), NEW k \in Nat,
         NEW s \in Int, Weeks!Wall(s) = Weeks!Wall(start) + WEEK * k
  PROVE  Occurrence(start, k) <= s
<1>1. start \in Int /\ Weeks!Wall(start) \in Int
  <2>1. start \in Int
    BY WeekIs
  <2> QED BY <2>1, WallIs
<1>2. WEEK * k \in Int
  BY WeekIs, Multiples
<1> QED BY <1>1, <1>2, InstantIsFirst DEF Occurrence

(* What the property calls the starts of an event are its occurrences.     *)
IsStart(e, t) ==
  \/ t = event[e].start
  \/ event[e].weekly /\ \E k \in Nat : t = Occurrence(event[e].start, k)

LEMMA StartsAre ==
  ASSUME shift \in Shifts, NEW e \in Events, event[e].start \in 0..MaxNow,
         Weeks!Shown(event[e].start), NEW t
  PROVE  t \in Weeks!StartsOf(e) <=> t \in Weeks!Horizon /\ IsStart(e, t)
<1> DEFINE start == event[e].start
           Wd(k) == WEEK * k
<1>1. /\ start \in 0..MaxNow /\ Weeks!Shown(start) /\ start \in Int /\ start >= 0
      /\ WEEK \in Nat \ {0} /\ WEEK >= 2 /\ Weeks!Wall(start) \in Int
      /\ \A k \in Nat : Wd(k) \in Int
  <2>1. start \in 0..MaxNow /\ Weeks!Shown(start) /\ start \in Int /\ start >= 0
        /\ WEEK \in Nat \ {0} /\ WEEK >= 2
    BY WeekIs
  <2> QED BY <2>1, WallIs, Multiples
<1>2. \A s \in Weeks!Horizon : s \in Int /\ s >= 0 /\ s <= MaxNow + Window
  BY WeekIs DEF Weeks!Horizon
<1>3. \A k \in Nat : /\ Occurrence(start, k) \in Int
                     /\ Weeks!Wall(Occurrence(start, k)) = Weeks!Wall(start) + Wd(k)
  BY <1>1, EveryWeekIsShown
<1> HIDE DEF start
<1>4. ASSUME t \in Weeks!StartsOf(e) PROVE t \in Weeks!Horizon /\ IsStart(e, t)
  <2>1. /\ t \in Weeks!Horizon
        /\ \/ t = start
           \/ /\ event[e].weekly /\ t > start
              /\ (Weeks!Wall(t) - Weeks!Wall(start)) % WEEK = 0
              /\ \A s \in Weeks!Horizon : Weeks!Wall(s) = Weeks!Wall(t) => t <= s
    BY <1>4 DEF Weeks!StartsOf, start
  <2>2. CASE t = start
    BY <2>1, <2>2 DEF IsStart, start
  <2>3. CASE t # start
    <3>1. t \in Int /\ Weeks!Wall(t) \in Int /\ Weeks!Wall(t) - Weeks!Wall(start) \in Int
      BY <1>1, <1>2, <2>1, WallIs
    <3>2. PICK k \in Int : Weeks!Wall(t) - Weeks!Wall(start) = WEEK * k
      BY <1>1, <2>1, <2>3, <3>1, Divides
    <3>3. Weeks!Wall(t) - Weeks!Wall(start) >= 0
      <4>1. /\ Weeks!Wall(t) = IF t < Change THEN t ELSE t + shift
            /\ Weeks!Wall(start) = IF start < Change THEN start ELSE start + shift
        BY <1>1, <3>1, WallIs
      <4>2. shift \in {-1, 0, 1} /\ Change \in Int
        BY WeekIs
      <4> QED BY <1>1, <2>1, <2>3, <3>1, <4>1, <4>2
    <3>4. k \in Nat
      <4>1. k < 0 => WEEK * k + WEEK <= WEEK * 0
        BY <1>1, Multiples
      <4>2. WEEK * 0 = 0 /\ WEEK * k >= 0 /\ WEEK * k \in Int
        BY <1>1, <3>1, <3>2, <3>3
      <4> DEFINE v == WEEK * k
      <4>3. v \in Int /\ v >= 0 /\ (k < 0 => v + WEEK <= 0)
        BY <4>1, <4>2
      <4> HIDE DEF v
      <4> QED BY <1>1, <4>3
    <3>5. Weeks!Wall(t) = Weeks!Wall(start) + Wd(k)
      BY <1>1, <3>1, <3>2, <3>4
    <3>6. Occurrence(start, k) <= t
      BY <1>1, <3>1, <3>4, <3>5, FirstShown
    <3>7. Occurrence(start, k) \in Int /\ Occurrence(start, k) >= start
      <4>1. k # 0 => Occurrence(start, 0) + WEEK - 1 <= Occurrence(start, k)
        BY <1>1, <3>4, WeeksFollow
      <4>2. Occurrence(start, 0) = start
        BY <1>1, WeeksFollow
      <4> QED BY <1>1, <1>3, <3>4, <4>1, <4>2
    <3>8. Occurrence(start, k) \in Weeks!Horizon
      BY <1>1, <1>2, <2>1, <3>6, <3>7, WeekIs DEF Weeks!Horizon
    <3>9. t <= Occurrence(start, k)
      BY <1>3, <2>1, <2>3, <3>4, <3>5, <3>8
    <3>10. t = Occurrence(start, k)
      BY <3>1, <3>6, <3>7, <3>9
    <3> QED BY <2>1, <2>3, <3>4, <3>10 DEF IsStart, start
  <2> QED BY <2>2, <2>3
<1>5. ASSUME t \in Weeks!Horizon, IsStart(e, t) PROVE t \in Weeks!StartsOf(e)
  <2>1. CASE t = start
    BY <1>5, <2>1 DEF Weeks!StartsOf, start
  <2>2. CASE t # start
    <3>1. event[e].weekly
      BY <1>5, <2>2 DEF IsStart, start
    <3>2. PICK k \in Nat : t = Occurrence(start, k)
      BY <1>5, <2>2 DEF IsStart, start
    <3>3. t > start
      <4>1. Occurrence(start, 0) = start
        BY <1>1, WeeksFollow
      <4>2. k # 0
        BY <2>2, <3>2, <4>1
      <4>3. Occurrence(start, 0) + WEEK - 1 <= Occurrence(start, k)
        BY <1>1, <4>2, WeeksFollow
      <4> QED BY <1>1, <1>3, <3>2, <4>1, <4>3
    <3>4. Weeks!Wall(t) = Weeks!Wall(start) + Wd(k)
      BY <1>3, <3>2
    <3>5. (Weeks!Wall(t) - Weeks!Wall(start)) % WEEK = 0
      <4>1. Weeks!Wall(t) - Weeks!Wall(start) = WEEK * k
        BY <1>1, <3>4
      <4>2. (WEEK * k) % WEEK = 0
        BY <1>1
      <4> QED BY <4>1, <4>2
    <3>6. \A s \in Weeks!Horizon : Weeks!Wall(s) = Weeks!Wall(t) => t <= s
      BY <1>1, <1>2, <3>2, <3>4, FirstShown
    <3> QED BY <1>5, <3>1, <3>3, <3>5, <3>6 DEF Weeks!StartsOf, start
  <2> QED BY <2>1, <2>2
<1> QED BY <1>4, <1>5

(* What the cursor of weeklyOccurrencesBetween passes: the occurrences from *)
(* the first week on, one after the other.                                 *)
LEMMA FirstWeekIs ==
  ASSUME NEW start \in Int, NEW from \in Int
  PROVE  /\ Weeks!FirstWeek(start, from) \in Nat
         /\ \/ Weeks!FirstWeek(start, from) = 0
            \/ WEEK * Weeks!FirstWeek(start, from) <= from - start
         /\ from - start < WEEK * Weeks!FirstWeek(start, from) + WEEK
<1> DEFINE a == from - start
           q == a \div WEEK
           F == Weeks!FirstWeek(start, from)
<1>1. WEEK \in Nat \ {0} /\ a \in Int /\ a = from - start
  BY WeekIs
<1> HIDE DEF a
<1>2. q \in Int /\ WEEK * q <= a /\ a < WEEK * q + WEEK
  BY <1>1, Quotient
<1>3. F = IF 0 > q THEN 0 ELSE q
  BY <1>1 DEF Weeks!FirstWeek, Weeks!GreatestOf, a
<1> HIDE DEF q
<1>4. F \in Nat
  BY <1>2, <1>3
<1>5. F = 0 \/ WEEK * F <= a
  BY <1>2, <1>3
<1>6. a < WEEK * F + WEEK
  <2>1. CASE q >= 0
    BY <1>2, <1>3, <2>1
  <2>2. CASE q < 0
    <3>1. F = 0 /\ WEEK * 0 = 0
      BY <1>1, <1>2, <1>3, <2>2
    <3>2. WEEK * q + WEEK <= WEEK * 0
      BY <1>1, <1>2, <2>2, Multiples
    <3>3. WEEK * q \in Int
      BY <1>1, <1>2, Multiples
    <3> DEFINE v == WEEK * q
    <3>4. v \in Int /\ v + WEEK <= 0 /\ a < v + WEEK /\ WEEK * F = 0
      BY <1>2, <3>1, <3>2, <3>3
    <3> HIDE DEF v, F
    <3> QED BY <1>1, <3>4
  <2> QED BY <1>2, <2>1, <2>2
<1> QED BY <1>1, <1>4, <1>5, <1>6

LEMMA CursorIs ==
  ASSUME shift \in Shifts, NEW start \in 0..MaxNow, Weeks!Shown(start), NEW from \in Int
  PROVE  \A n \in 0..(MaxNow + 2 * WEEK) :
           Weeks!Cursor(start, from)[n] = Occurrence(start, Weeks!FirstWeek(start, from) + n)
<1> DEFINE D == 0..(MaxNow + 2 * WEEK)
           F == Weeks!FirstWeek(start, from)
           first == Weeks!Instant(Weeks!Wall(start) + WEEK * F)
           f == [n \in D |-> Occurrence(start, F + n)]
           c == Weeks!Cursor(start, from)
<1>1. WEEK \in Nat \ {0} /\ MaxNow \in Nat /\ start \in Int /\ F \in Nat
      /\ Weeks!Wall(start) \in Int
  <2>1. WEEK \in Nat \ {0} /\ MaxNow \in Nat /\ start \in Int
    BY WeekIs
  <2> QED BY <2>1, FirstWeekIs, WallIs
<1>2. D \subseteq Nat /\ 0 \in D /\ \A n \in D : n # 0 => n - 1 \in D
  BY <1>1
<1> HIDE DEF F, D
<1>3. ASSUME NEW n \in D, n # 0
      PROVE  Occurrence(start, F + n)
               = Weeks!Instant(Weeks!Wall(Occurrence(start, F + (n - 1))) + WEEK)
  <2>1. F + (n - 1) \in Nat /\ F + n \in Nat /\ F + n = (F + (n - 1)) + 1
    BY <1>1, <1>2, <1>3
  <2>2. Weeks!Wall(Occurrence(start, F + (n - 1))) = Weeks!Wall(start) + WEEK * (F + (n - 1))
    BY <2>1, EveryWeekIsShown
  <2>3. WEEK * (F + n) = WEEK * (F + (n - 1)) + WEEK /\ WEEK * (F + (n - 1)) \in Int
    BY <1>1, <2>1, Multiples
  <2> QED BY <1>1, <2>2, <2>3 DEF Occurrence
<1>4. Occurrence(start, F + 0) = first
  BY <1>1 DEF Occurrence
<1>5. f = [n \in D |-> IF n = 0 THEN first ELSE Weeks!Instant(Weeks!Wall(f[n - 1]) + WEEK)]
  <2>1. \A n \in D : f[n] = IF n = 0 THEN first ELSE Weeks!Instant(Weeks!Wall(f[n - 1]) + WEEK)
    BY <1>2, <1>3, <1>4
  <2> QED BY <2>1
<1> HIDE DEF f
<1>6. c = CHOOSE g : g = [n \in D |-> IF n = 0 THEN first
                                       ELSE Weeks!Instant(Weeks!Wall(g[n - 1]) + WEEK)]
  BY DEF Weeks!Cursor, D, F
<1>7. c = [n \in D |-> IF n = 0 THEN first ELSE Weeks!Instant(Weeks!Wall(c[n - 1]) + WEEK)]
  BY <1>5, <1>6
<1> HIDE DEF c, first
<1>8. ASSUME NEW m \in D, c[m] # f[m] PROVE FALSE
  <2> DEFINE T == {n \in D : c[n] # f[n]}
  <2>1. T \in SUBSET Nat /\ m \in T
    BY <1>2, <1>8
  <2>2. PICK n \in T : \A y \in T : n <= y
    BY <2>1, LeastNumber
  <2>3. n \in D /\ c[n] # f[n] /\ n \in Nat
    BY <1>2, <2>2
  <2>4. CASE n = 0
    BY <1>5, <1>7, <2>3, <2>4
  <2>5. CASE n # 0
    <3>1. n - 1 \in D /\ n - 1 \notin T
      BY <1>2, <2>2, <2>3, <2>5
    <3>2. c[n - 1] = f[n - 1]
      BY <3>1
    <3>3. c[n] = Weeks!Instant(Weeks!Wall(c[n - 1]) + WEEK)
      BY <1>7, <2>3, <2>5
    <3>4. f[n] = Weeks!Instant(Weeks!Wall(f[n - 1]) + WEEK)
      BY <1>5, <2>3, <2>5
    <3> QED BY <2>3, <3>2, <3>3, <3>4
  <2> QED BY <2>4, <2>5
<1> QED BY <1>8 DEF f, c, D, F

(* weeklyOccurrencesBetween: the occurrences in the time asked for, and the *)
(* weeks it goes through are enough.                                       *)
LEMMA BetweenIs ==
  ASSUME shift \in Shifts, NEW start \in 0..MaxNow, Weeks!Shown(start),
         NEW from \in Int, from <= MaxNow, NEW to \in Int, to <= MaxNow + Window, NEW t
  PROVE  t \in Weeks!WeeklyBetween(start, from, to)
           <=> \E k \in Nat : t = Occurrence(start, k) /\ from <= t /\ t < to
<1> DEFINE F == Weeks!FirstWeek(start, from)
           M == Weeks!GreatestOf(from, start)
           X == to - M
           Y == X \div (WEEK - 1)
           last == Y + 2
           c == Weeks!Cursor(start, from)
           D == 0..(MaxNow + 2 * WEEK)
<1>1. /\ WEEK \in Nat \ {0} /\ WEEK >= 2 /\ MaxNow \in Nat /\ start \in Int /\ start >= 0
      /\ Window \in Int /\ Window <= WEEK - 1 /\ F \in Nat
  <2>1. /\ WEEK \in Nat \ {0} /\ WEEK >= 2 /\ MaxNow \in Nat /\ start \in Int /\ start >= 0
        /\ Window \in Int /\ Window <= WEEK - 1
    BY WeekIs
  <2> QED BY <2>1, FirstWeekIs
<1>2. \A k \in Nat : /\ Occurrence(start, k) \in Int /\ Occurrence(start, k) >= start
                     /\ WEEK * k \in Int
                     /\ Occurrence(start, k) >= start + WEEK * k - 1
                     /\ Occurrence(start, k) <= start + WEEK * k + 1
  <2> TAKE k \in Nat
  <2>1. Occurrence(start, k) \in Int /\ Occurrence(start, 0) = start /\ WEEK * k \in Int
    BY <1>1, EveryWeekIsShown, WeeksFollow, Multiples
  <2>2. k # 0 => Occurrence(start, 0) + WEEK - 1 <= Occurrence(start, k)
    BY WeeksFollow
  <2>3. Occurrence(start, k) >= start
    BY <1>1, <2>1, <2>2
  <2> QED BY <2>1, <2>3, WeeksFollow
<1>3. Weeks!WeeklyBetween(start, from, to)
        = IF to <= from \/ to <= start THEN {}
          ELSE {c[n] : n \in {i \in 0..last : from <= c[i] /\ c[i] < to}}
  BY DEF Weeks!WeeklyBetween
<1>4. \A n \in D : c[n] = Occurrence(start, F + n)
  BY CursorIs
<1> HIDE DEF c
<1>5. CASE to <= from \/ to <= start
  BY <1>1, <1>2, <1>3, <1>5
<1>6. CASE from < to /\ start < to
  <2>1. M \in Int /\ M >= from /\ M >= start /\ (M = from \/ M = start) /\ X \in Int /\ X > 0
        /\ X <= MaxNow + Window /\ X = to - M
    BY <1>1, <1>6 DEF Weeks!GreatestOf
  <2> HIDE DEF M, X
  <2>2. Y \in Int /\ X < (WEEK - 1) * Y + (WEEK - 1) /\ (WEEK - 1) * Y <= X
        /\ WEEK - 1 \in Nat \ {0}
    <3>1. WEEK - 1 \in Nat \ {0}
      BY <1>1
    <3> QED BY <2>1, <3>1, Quotient
  <2>3. Y <= X /\ Y >= 0
    <3>1. ASSUME Y > X PROVE FALSE
      <4>1. (WEEK - 1) * X + (WEEK - 1) <= (WEEK - 1) * Y
        BY <2>1, <2>2, <3>1, Multiples
      <4>2. (WEEK - 1) * X >= X
        BY <2>1, <2>2
      <4>3. (WEEK - 1) * X \in Int /\ (WEEK - 1) * Y \in Int
        BY <2>1, <2>2, Multiples
      <4> DEFINE u == (WEEK - 1) * X
                 v == (WEEK - 1) * Y
      <4>4. u \in Int /\ v \in Int /\ u + (WEEK - 1) <= v /\ u >= X /\ v <= X
        BY <2>2, <4>1, <4>2, <4>3
      <4> HIDE DEF u, v
      <4> QED BY <1>1, <2>1, <4>4
    <3>2. ASSUME Y < 0 PROVE FALSE
      <4>1. (WEEK - 1) * Y + (WEEK - 1) <= (WEEK - 1) * 0
        BY <2>2, <3>2, Multiples
      <4>2. (WEEK - 1) * 0 = 0 /\ (WEEK - 1) * Y \in Int
        BY <2>2, Multiples
      <4> DEFINE v == (WEEK - 1) * Y
      <4>3. v \in Int /\ v + (WEEK - 1) <= 0 /\ X < v + (WEEK - 1)
        BY <2>2, <4>1, <4>2
      <4> HIDE DEF v
      <4> QED BY <1>1, <2>1, <4>3
    <3> QED BY <2>1, <2>2, <3>1, <3>2
  <2> HIDE DEF Y
  <2>4. last \in Int /\ last = Y + 2 /\ 0..last \subseteq D
    <3>1. last \in Int /\ last = Y + 2
      BY <2>2
    <3>2. last <= MaxNow + 2 * WEEK
      BY <1>1, <2>1, <2>2, <2>3
    <3> QED BY <1>1, <3>1, <3>2
  <2> HIDE DEF D
  <2>5. ASSUME t \in Weeks!WeeklyBetween(start, from, to)
        PROVE  \E k \in Nat : t = Occurrence(start, k) /\ from <= t /\ t < to
    <3>0. t \in {c[n] : n \in {i \in 0..last : from <= c[i] /\ c[i] < to}}
      BY <1>1, <1>3, <1>6, <2>5
    <3> HIDE DEF last
    <3>1. PICK n \in 0..last : t = c[n] /\ from <= c[n] /\ c[n] < to
      BY <3>0
    <3>2. n \in Nat /\ n \in D
      BY <2>4
    <3>3. F + n \in Nat /\ c[n] = Occurrence(start, F + n)
      BY <1>1, <1>4, <3>2
    <3> QED BY <3>1, <3>3
  <2>6. ASSUME NEW k \in Nat, t = Occurrence(start, k), from <= t, t < to
        PROVE  t \in Weeks!WeeklyBetween(start, from, to)
    <3>1. k >= F
      <4> SUFFICES ASSUME k < F PROVE FALSE
        BY <1>1
      <4>1. WEEK * F <= from - start
        BY <1>1, FirstWeekIs
      <4>2. WEEK * k + WEEK <= WEEK * F /\ WEEK * F \in Int
        BY <1>1, Multiples
      <4> DEFINE u == WEEK * k
                 v == WEEK * F
      <4>3. u \in Int /\ v \in Int /\ v <= from - start /\ u + WEEK <= v /\ t <= start + u + 1
            /\ t \in Int
        BY <1>2, <2>6, <4>1, <4>2
      <4> HIDE DEF u, v
      <4> QED BY <1>1, <2>6, <4>3
    <3> DEFINE n == k - F
    <3>2. n \in Nat /\ k = F + n
      BY <1>1, <3>1
    <3>3. WEEK * n <= X + WEEK
      <4> DEFINE u == WEEK * k
                 v == WEEK * F
      <4>1. WEEK * n = WEEK * k - WEEK * F
        BY <1>1, Multiples
      <4>2. v \in Int /\ v >= 0 /\ from - start < v + WEEK
        <5>1. v \in Int
          BY <1>1, Multiples
        <5>2. v >= 0
          BY <1>1
        <5>3. from - start < v + WEEK
          BY <1>1, FirstWeekIs
        <5> QED BY <5>1, <5>2, <5>3
      <4>3. u \in Int /\ t >= start + u - 1 /\ t \in Int /\ WEEK * n = u - v
        BY <1>2, <2>6, <4>1
      <4> HIDE DEF u, v
      <4>4. u - v <= X + WEEK
        BY <1>1, <2>1, <2>6, <4>2, <4>3
      <4> QED BY <4>3, <4>4
    <3> HIDE DEF n
    <3>4. n <= last
      <4> SUFFICES ASSUME n > last PROVE FALSE
        BY <2>4, <3>2
      <4>1. n >= Y + 3 /\ n \in Int
        BY <2>2, <2>4, <3>2
      <4>2. (WEEK - 1) * (Y + 2) + (WEEK - 1) <= (WEEK - 1) * n
        BY <2>2, <4>1, Multiples
      <4>3. (WEEK - 1) * (Y + 2) = (WEEK - 1) * Y + (WEEK - 1) + (WEEK - 1)
        BY <2>2
      <4>4. (WEEK - 1) * n <= WEEK * n
        BY <1>1, <3>2
      <4>5. (WEEK - 1) * Y \in Int /\ (WEEK - 1) * n \in Int /\ WEEK * n \in Int
        BY <1>1, <2>2, <4>1, Multiples
      <4> DEFINE u == (WEEK - 1) * Y
                 v == (WEEK - 1) * n
                 w == WEEK * n
      <4>6. u \in Int /\ v \in Int /\ w \in Int /\ u + 3 * (WEEK - 1) <= v /\ v <= w
            /\ w <= X + WEEK /\ X < u + (WEEK - 1)
        <5>1. u \in Int /\ v \in Int /\ w \in Int /\ v <= w /\ w <= X + WEEK /\ X < u + (WEEK - 1)
          BY <2>2, <3>3, <4>4, <4>5
        <5>2. u + (WEEK - 1) + (WEEK - 1) + (WEEK - 1) <= v
          BY <4>2, <4>3
        <5> HIDE DEF u, v, w
        <5> QED BY <1>1, <5>1, <5>2
      <4> HIDE DEF u, v, w
      <4> QED BY <1>1, <2>1, <4>6
    <3>5. n \in 0..last /\ c[n] = t /\ from <= c[n] /\ c[n] < to
      BY <1>4, <2>4, <2>6, <3>2, <3>4
    <3>6. t \in {c[m] : m \in {i \in 0..last : from <= c[i] /\ c[i] < to}}
      BY <3>5
    <3> QED BY <1>1, <1>3, <1>6, <3>6
  <2> QED BY <2>5, <2>6
<1> QED BY <1>1, <1>5, <1>6

(* An event's row.                                                         *)
EventRow == [start: 0..MaxNow, length: Nat \ {0}, weekly: BOOLEAN, open: BOOLEAN,
             notified: BOOLEAN]

RowsAreShown ==
  /\ shift \in Shifts /\ event \in [Events -> EventRow]
  /\ \A e \in Events : Weeks!Shown(event[e].start)

Shows(e, t) == [of |-> e, start |-> t, end |-> t + event[e].length]

LEMMA ExpandIs ==
  ASSUME RowsAreShown, NEW rows \in SUBSET Events, NEW from \in Int, from <= MaxNow,
         NEW to \in Int, to <= MaxNow + Window, NEW o
  PROVE  o \in Weeks!Expand(rows, from, to)
           <=> \E e \in rows : \E t \in Int :
                 /\ o = Shows(e, t) /\ IsStart(e, t)
                 /\ event[e].weekly => from <= t /\ t < to
<1> DEFINE S(e) == IF event[e].weekly THEN Weeks!WeeklyBetween(event[e].start, from, to)
                   ELSE {event[e].start}
<1>1. \A e \in Events : event[e] \in EventRow /\ event[e].start \in 0..MaxNow
                        /\ Weeks!Shown(event[e].start) /\ event[e].weekly \in BOOLEAN
  BY DEF RowsAreShown, EventRow
<1>2. o \in Weeks!Expand(rows, from, to) <=> \E e \in rows : \E t \in S(e) : o = Shows(e, t)
  BY DEF Weeks!Expand, Shows
<1>3. ASSUME NEW e \in rows, NEW t
      PROVE  t \in S(e) <=> t \in Int /\ IsStart(e, t) /\ (event[e].weekly => from <= t /\ t < to)
  <2> DEFINE start == event[e].start
  <2>1. /\ start \in 0..MaxNow /\ Weeks!Shown(start) /\ shift \in Shifts /\ start \in Int
        /\ event[e].weekly \in BOOLEAN
    <3>1. start \in 0..MaxNow /\ Weeks!Shown(start) /\ shift \in Shifts
          /\ event[e].weekly \in BOOLEAN
      BY <1>1 DEF RowsAreShown
    <3> QED BY <3>1, WeekIs
  <2>2. Occurrence(start, 0) = start /\ \A k \in Nat : Occurrence(start, k) \in Int
    BY <2>1, WeeksFollow, EveryWeekIsShown
  <2>3. CASE event[e].weekly
    <3>1. t \in S(e) <=> \E k \in Nat : t = Occurrence(start, k) /\ from <= t /\ t < to
      <4>1. t \in Weeks!WeeklyBetween(start, from, to)
              <=> \E k \in Nat : t = Occurrence(start, k) /\ from <= t /\ t < to
        BY <2>1, BetweenIs
      <4> QED BY <2>3, <4>1
    <3>2. IsStart(e, t) <=> \E k \in Nat : t = Occurrence(start, k)
      BY <2>2, <2>3 DEF IsStart
    <3> HIDE DEF S, start
    <3> QED BY <2>2, <2>3, <3>1, <3>2
  <2>4. CASE ~event[e].weekly
    BY <2>1, <2>4 DEF IsStart
  <2> QED BY <2>1, <2>3, <2>4
<1> HIDE DEF S
<1> QED BY <1>2, <1>3

(* The invariant: what was posted was an occurrence in its window, posted  *)
(* once, and what is marked as notified was posted.                        *)
WeeksInv ==
  /\ RowsAreShown /\ now \in 0..MaxNow /\ checked \in Int /\ checked <= now
  /\ \A r \in sent :
       /\ r = [of |-> r.of, start |-> r.start, at |-> r.at]
       /\ r.of \in Events /\ r.at \in 0..now
       /\ event[r.of].open /\ r.start \in Weeks!StartsOf(r.of)
       /\ r.start - Window <= r.at /\ r.at <= r.start
       /\ event[r.of].weekly => <<r.of, Weeks!Date(r.start)>> \in marked
       /\ ~event[r.of].weekly => event[r.of].notified
       /\ \A s \in sent : s.of = r.of /\ s.start = r.start => s = r
  /\ \A m \in marked : \E r \in sent : m = <<r.of, Weeks!Date(r.start)>>
  /\ \A e \in Events : event[e].notified => \E r \in sent : r.of = e
  /\ checked = now =>
       \A e \in Events : \A t \in Weeks!StartsOf(e) :
         event[e].open /\ now <= t /\ t < now + Window => \E r \in sent : r.of = e /\ r.start = t

LEMMA StartIs ==
  ASSUME RowsAreShown, NEW e \in Events
  PROVE  /\ event[e].start \in 0..MaxNow /\ event[e].start \in Weeks!Horizon
         /\ Weeks!Shown(event[e].start) /\ shift \in Shifts
         /\ event[e].weekly \in BOOLEAN /\ event[e].open \in BOOLEAN
         /\ event[e].notified \in BOOLEAN /\ event[e].length \in Int /\ event[e].length > 0
         /\ \A t : t \in Weeks!StartsOf(e) <=> t \in Weeks!Horizon /\ IsStart(e, t)
         /\ \A t : IsStart(e, t) => t \in Int /\ t >= event[e].start
         /\ \A t : IsStart(e, t) /\ ~event[e].weekly => t = event[e].start
<1>1. /\ event[e].start \in 0..MaxNow
      /\ Weeks!Shown(event[e].start) /\ shift \in Shifts
      /\ event[e].weekly \in BOOLEAN /\ event[e].open \in BOOLEAN
      /\ event[e].notified \in BOOLEAN /\ event[e].length \in Int /\ event[e].length > 0
  BY DEF RowsAreShown, EventRow
<1>2. event[e].start \in Weeks!Horizon /\ event[e].start \in Int
  BY <1>1, WeekIs DEF Weeks!Horizon
<1>3. \A t : t \in Weeks!StartsOf(e) <=> t \in Weeks!Horizon /\ IsStart(e, t)
  BY <1>1, StartsAre
<1>4. ASSUME NEW k \in Nat
      PROVE  /\ Occurrence(event[e].start, k) \in Int
             /\ Occurrence(event[e].start, k) >= event[e].start
  <2>1. /\ Occurrence(event[e].start, k) \in Int
        /\ Occurrence(event[e].start, 0) = event[e].start
    BY <1>1, WeeksFollow, EveryWeekIsShown
  <2>2. k # 0 => Occurrence(event[e].start, 0) + WEEK - 1 <= Occurrence(event[e].start, k)
    BY <1>1, WeeksFollow
  <2> QED BY <1>2, <2>1, <2>2, WeekIs
<1>5. \A t : IsStart(e, t) => t \in Int /\ t >= event[e].start
  BY <1>2, <1>4 DEF IsStart
<1>6. \A t : IsStart(e, t) /\ ~event[e].weekly => t = event[e].start
  BY DEF IsStart
<1> QED BY <1>1, <1>2, <1>3, <1>5, <1>6

(* The list, whatever stretch of time from now on is asked for.            *)
LEMMA ListIs ==
  ASSUME RowsAreShown, now \in 0..MaxNow, NEW to \in Int, to <= MaxNow + Window
  PROVE  {<<o.of, o.start>> : o \in Weeks!List(now, to)}
           = {x \in Events \X (now..(to - 1)) : x[2] \in Weeks!StartsOf(x[1])}
<1> DEFINE rows == {e \in Events : /\ event[e].start < to
                                   /\ event[e].weekly \/ event[e].start >= now}
           L == Weeks!List(now, to)
<1>1. now \in Int /\ now >= 0 /\ now <= MaxNow /\ MaxNow \in Int /\ rows \in SUBSET Events
      /\ Window \in Int
  BY WeekIs
<1>2. \A o : o \in L <=> \E e \in rows : \E t \in Int :
                 /\ o = Shows(e, t) /\ IsStart(e, t)
                 /\ event[e].weekly => now <= t /\ t < to
  BY <1>1, ExpandIs DEF Weeks!List
<1> HIDE DEF L
<1>3. \A e, t : Shows(e, t).of = e /\ Shows(e, t).start = t
  BY DEF Shows
<1>4. ASSUME NEW e \in Events, NEW t
      PROVE  (\E o \in L : o.of = e /\ o.start = t)
               <=> t \in Int /\ now <= t /\ t < to /\ t \in Weeks!StartsOf(e)
  <2>1. (\E o \in L : o.of = e /\ o.start = t)
          <=> t \in Int /\ e \in rows /\ IsStart(e, t) /\ (event[e].weekly => now <= t /\ t < to)
    BY <1>2, <1>3
  <2>2. /\ event[e].weekly \in BOOLEAN /\ event[e].start \in Int
        /\ t \in Weeks!StartsOf(e) <=> t \in Weeks!Horizon /\ IsStart(e, t)
        /\ IsStart(e, t) => t \in Int /\ t >= event[e].start
        /\ IsStart(e, t) /\ ~event[e].weekly => t = event[e].start
    <3>1. event[e].start \in 0..MaxNow
      BY StartIs
    <3> QED BY <1>1, <3>1, StartIs
  <2>3. t \in Int /\ now <= t /\ t < to => t \in Weeks!Horizon
    BY <1>1 DEF Weeks!Horizon
  <2> QED BY <1>1, <2>1, <2>2, <2>3
<1>5. ASSUME NEW o \in L
      PROVE <<o.of, o.start>> \in {x \in Events \X (now..(to - 1)) : x[2] \in Weeks!StartsOf(x[1])}
  <2>1. o.of \in Events
    BY <1>2, <1>3
  <2>2. o.start \in Int /\ now <= o.start /\ o.start < to /\ o.start \in Weeks!StartsOf(o.of)
    BY <1>4, <2>1
  <2>3. o.start \in now..(to - 1)
    BY <1>1, <2>2
  <2> QED BY <2>1, <2>2, <2>3
<1>6. ASSUME NEW x \in Events \X (now..(to - 1)), x[2] \in Weeks!StartsOf(x[1])
      PROVE  \E o \in L : x = <<o.of, o.start>>
  <2>1. x[1] \in Events /\ x[2] \in Int /\ now <= x[2] /\ x[2] < to /\ x = <<x[1], x[2]>>
    BY <1>1
  <2>2. PICK o \in L : o.of = x[1] /\ o.start = x[2]
    BY <1>4, <1>6, <2>1
  <2> QED BY <2>1, <2>2
<1> QED BY <1>5, <1>6 DEF L

(* A weekly event that has begun took place within the last week.          *)
LEMMA LatelyToo ==
  ASSUME RowsAreShown, now \in 0..MaxNow, NEW e \in Events, event[e].weekly,
         event[e].start <= now
  PROVE  \E t \in Int : IsStart(e, t) /\ now - WEEK <= t /\ t <= now
<1> DEFINE start == event[e].start
           a == now - start
           q == a \div WEEK
<1>1. /\ start \in 0..MaxNow /\ Weeks!Shown(start) /\ shift \in Shifts /\ start \in Int
      /\ now \in Int /\ WEEK \in Nat \ {0} /\ WEEK >= 2 /\ start <= now
  <2>1. start \in 0..MaxNow /\ Weeks!Shown(start) /\ shift \in Shifts
    BY StartIs
  <2> QED BY <2>1, WeekIs
<1>2. a \in Int /\ a >= 0 /\ a = now - start
  BY <1>1
<1> HIDE DEF start, a
<1>3. q \in Int /\ WEEK * q <= a /\ a < WEEK * q + WEEK
  BY <1>1, <1>2, Quotient
<1> HIDE DEF q
<1>4. q \in Nat /\ WEEK * q \in Int
  <2>1. q < 0 => WEEK * q + WEEK <= WEEK * 0
    BY <1>1, <1>3, Multiples
  <2>2. WEEK * 0 = 0 /\ WEEK * q \in Int
    BY <1>1, <1>3, Multiples
  <2> DEFINE v == WEEK * q
  <2>3. v \in Int /\ (q < 0 => v + WEEK <= 0) /\ a < v + WEEK
    BY <1>3, <2>1, <2>2
  <2> HIDE DEF v
  <2>4. ~(q < 0)
    BY <1>1, <1>2, <2>3
  <2> QED BY <1>3, <2>2, <2>4
<1>5. Occurrence(start, q) \in Int /\ Occurrence(start, q) <= start + WEEK * q + 1
      /\ Occurrence(start, q) >= start + WEEK * q - 1
  BY <1>1, <1>4, WeeksFollow, EveryWeekIsShown
<1>6. now - WEEK <= Occurrence(start, q) /\ Occurrence(start, q) <= now + 1
  <2> DEFINE v == WEEK * q
             t == Occurrence(start, q)
  <2>1. v \in Int /\ t \in Int /\ v <= a /\ a < v + WEEK /\ t <= start + v + 1 /\ t >= start + v - 1
    BY <1>3, <1>4, <1>5
  <2> HIDE DEF v, t
  <2>2. now - WEEK <= t /\ t <= now + 1
    BY <1>1, <1>2, <2>1
  <2> QED BY <2>2 DEF t
<1>7. CASE Occurrence(start, q) <= now
  BY <1>4, <1>5, <1>6, <1>7 DEF IsStart, start
<1>8. CASE Occurrence(start, q) > now
  <2>1. q # 0
    <3>1. Occurrence(start, 0) = start
      BY <1>1, WeeksFollow
    <3> QED BY <1>1, <1>8, <3>1
  <2> DEFINE p == q - 1
  <2>2. p \in Nat /\ p + 1 = q /\ p < q
    BY <1>4, <2>1
  <2> HIDE DEF p
  <2>3. Occurrence(start, p) \in Int /\ Occurrence(start, p + 1) <= Occurrence(start, p) + WEEK + 1
        /\ Occurrence(start, p) + WEEK - 1 <= Occurrence(start, q)
    <3>1. Occurrence(start, p) \in Int
      BY <1>1, <2>2, EveryWeekIsShown
    <3>2. Occurrence(start, p + 1) <= Occurrence(start, p) + WEEK + 1
      BY <1>1, <2>2, WeeksFollow
    <3>3. Occurrence(start, p) + WEEK - 1 <= Occurrence(start, q)
      BY <1>1, <1>4, <2>2, WeeksFollow
    <3> QED BY <3>1, <3>2, <3>3
  <2>4. now - WEEK <= Occurrence(start, p) /\ Occurrence(start, p) <= now
    BY <1>1, <1>5, <1>6, <1>8, <2>2, <2>3
  <2> QED BY <2>2, <2>3, <2>4 DEF IsStart, start
<1> QED BY <1>1, <1>5, <1>7, <1>8

(* findActive, which looks a week back only: the event that started last   *)
(* is among those it looks at.                                             *)
LEMMA ActiveIs ==
  ASSUME RowsAreShown, now \in 0..MaxNow
  PROVE  LET on == {x \in Events \X (0..now) :
                      x[2] \in Weeks!StartsOf(x[1]) /\ now < x[2] + event[x[1]].length}
         IN {<<o.of, o.start>> : o \in Weeks!Active} = {x \in on : \A y \in on : y[2] <= x[2]}
<1> DEFINE rows == {e \in Events : /\ event[e].start <= now
                                   /\ event[e].weekly \/ event[e].start + event[e].length > now}
           seen == {o \in Weeks!Expand(rows, now - WEEK, now + 1) : o.start <= now /\ now < o.end}
           on == {x \in Events \X (0..now) :
                    x[2] \in Weeks!StartsOf(x[1]) /\ now < x[2] + event[x[1]].length}
           A == Weeks!Active
<1>1. now \in Int /\ now >= 0 /\ now <= MaxNow /\ MaxNow \in Int /\ rows \in SUBSET Events
      /\ Window \in Int /\ Window >= 1 /\ WEEK \in Int /\ WEEK >= 2
  BY WeekIs
<1>2. A = {o \in seen : \A other \in seen : other.start <= o.start}
  BY DEF Weeks!Active
<1>3. \A e \in Events :
        /\ event[e].weekly \in BOOLEAN /\ event[e].start \in Int /\ event[e].length \in Int
        /\ \A t : t \in Weeks!StartsOf(e) <=> t \in Weeks!Horizon /\ IsStart(e, t)
        /\ \A t : IsStart(e, t) => t \in Int /\ t >= event[e].start /\ t >= 0
        /\ \A t : IsStart(e, t) /\ ~event[e].weekly => t = event[e].start
  <2> TAKE e \in Events
  <2>1. event[e].start \in Int /\ event[e].start >= 0
    <3>1. event[e].start \in 0..MaxNow
      BY StartIs
    <3> QED BY <1>1, <3>1
  <2>2. \A t : IsStart(e, t) => t \in Int /\ t >= event[e].start /\ t >= 0
    <3>1. \A t : IsStart(e, t) => t \in Int /\ t >= event[e].start
      BY StartIs
    <3> QED BY <2>1, <3>1
  <2> QED BY <2>1, <2>2, StartIs
<1>4. \A o : o \in Weeks!Expand(rows, now - WEEK, now + 1)
               <=> \E e \in rows : \E t \in Int :
                     /\ o = Shows(e, t) /\ IsStart(e, t)
                     /\ event[e].weekly => now - WEEK <= t /\ t < now + 1
  BY <1>1, ExpandIs
<1>5. \A e, t : Shows(e, t).of = e /\ Shows(e, t).start = t
                /\ Shows(e, t).end = t + event[e].length
  BY DEF Shows
<1>6. \A o : o \in seen
               <=> \E e \in Events : \E t \in Int :
                     /\ o = Shows(e, t) /\ IsStart(e, t)
                     /\ event[e].weekly => now - WEEK <= t
                     /\ t <= now /\ now < t + event[e].length
  <2> TAKE o
  <2>1. o \in seen <=> \E e \in rows : \E t \in Int :
                     /\ o = Shows(e, t) /\ IsStart(e, t)
                     /\ event[e].weekly => now - WEEK <= t /\ t < now + 1
                     /\ t <= now /\ now < t + event[e].length
    BY <1>4, <1>5
  <2>2. \A e \in Events : \A t \in Int :
          IsStart(e, t) /\ t <= now /\ now < t + event[e].length => e \in rows
    BY <1>1, <1>3
  <2> HIDE DEF seen, rows
  <2> QED BY <1>1, <2>1, <2>2
<1> HIDE DEF seen, rows, A
<1>7. \A e, t : <<e, t>> \in on <=> /\ e \in Events /\ t \in Int /\ t <= now
                                    /\ IsStart(e, t) /\ now < t + event[e].length
  <2> TAKE e, t
  <2>1. e \in Events /\ t \in Int /\ 0 <= t /\ t <= now => t \in 0..now /\ t \in Weeks!Horizon
    BY <1>1 DEF Weeks!Horizon
  <2>2. <<e, t>> \in on <=> e \in Events /\ t \in 0..now /\ t \in Weeks!StartsOf(e)
                             /\ now < t + event[e].length
    OBVIOUS
  <2>3. t \in 0..now => t \in Int /\ t <= now
    BY <1>1
  <2> HIDE DEF on
  <2> QED BY <1>3, <2>1, <2>2, <2>3
<1>8. \A x \in on : x = <<x[1], x[2]>>
  OBVIOUS
<1> HIDE DEF on
<1>9. ASSUME NEW o \in seen PROVE <<o.of, o.start>> \in on
  <2>1. PICK e \in Events, t \in Int : /\ o = Shows(e, t) /\ IsStart(e, t)
                     /\ t <= now /\ now < t + event[e].length
    BY <1>6
  <2> QED BY <1>5, <1>7, <2>1
<1>10. ASSUME NEW y \in on PROVE \E o \in seen : o.start >= y[2] /\ (o.start = y[2] => o.of = y[1])
  <2> DEFINE e == y[1]
             t == y[2]
  <2>1. y = <<e, t>>
    BY <1>8
  <2>2. e \in Events /\ t \in Int /\ t <= now /\ IsStart(e, t) /\ now < t + event[e].length
    BY <1>7, <2>1
  <2> HIDE DEF e, t
  <2>3. CASE event[e].weekly => now - WEEK <= t
    <3>1. Shows(e, t) \in seen
      BY <1>6, <2>2, <2>3
    <3> QED BY <1>5, <2>2, <3>1 DEF e, t
  <2>4. CASE event[e].weekly /\ t < now - WEEK
    <3>1. event[e].start <= now
      BY <1>1, <1>3, <2>2
    <3>2. PICK u \in Int : IsStart(e, u) /\ now - WEEK <= u /\ u <= now
      BY <2>2, <2>4, <3>1, LatelyToo
    <3>3. now < u + event[e].length /\ u > t
      BY <1>1, <1>3, <2>2, <2>4, <3>2
    <3>4. Shows(e, u) \in seen
      BY <1>6, <2>2, <3>2, <3>3
    <3> QED BY <1>5, <2>2, <3>2, <3>3, <3>4 DEF t
  <2> QED BY <1>1, <1>3, <2>2, <2>3, <2>4
<1>11. \A o \in seen : o.start \in Int
  BY <1>5, <1>6
<1>12. \A y \in on : y[2] \in Int
  BY <1>7, <1>8
<1>13. ASSUME NEW o \in A
       PROVE  <<o.of, o.start>> \in {x \in on : \A y \in on : y[2] <= x[2]}
  <2>1. o \in seen /\ \A other \in seen : other.start <= o.start
    BY <1>2
  <2>2. <<o.of, o.start>> \in on
    BY <1>9, <2>1
  <2>3. \A y \in on : y[2] <= o.start
    BY <1>10, <1>11, <1>12, <2>1
  <2> QED BY <2>2, <2>3
<1>14. ASSUME NEW x \in on, \A y \in on : y[2] <= x[2]
       PROVE  \E o \in A : x = <<o.of, o.start>>
  <2>1. PICK o \in seen : o.start >= x[2] /\ (o.start = x[2] => o.of = x[1])
    BY <1>10
  <2>2. \A other \in seen : other.start <= x[2]
    BY <1>9, <1>14
  <2>3. o.start = x[2]
    BY <1>11, <1>12, <2>1, <2>2
  <2>4. o \in A
    BY <1>2, <2>2, <2>3
  <2> QED BY <1>8, <2>1, <2>3, <2>4
<1> QED BY <1>13, <1>14 DEF on, A

(* What is due: the occurrences of open events that begin in the window and *)
(* have not been notified.                                                 *)
LEMMA DueIs ==
  ASSUME RowsAreShown, now \in 0..MaxNow
  PROVE  \A o : o \in Weeks!Due
                  <=> \E e \in Events : \E t \in Int :
                        /\ o = Shows(e, t) /\ event[e].open /\ IsStart(e, t) /\ now <= t
                        /\ event[e].weekly => t < now + Window /\ <<e, Weeks!Date(t)>> \notin marked
                        /\ ~event[e].weekly => t <= now + Window /\ ~event[e].notified
<1> DEFINE rows == {e \in Events :
                 /\ event[e].open /\ event[e].start <= now + Window
                 /\ event[e].weekly \/ (event[e].start >= now /\ ~event[e].notified)}
<1>1. now \in Int /\ now >= 0 /\ now <= MaxNow /\ MaxNow \in Int /\ rows \in SUBSET Events
      /\ Window \in Int
  BY WeekIs
<1> TAKE o
<1>2. o \in Weeks!Expand(rows, now, now + Window)
         <=> \E e \in rows : \E t \in Int :
               /\ o = Shows(e, t) /\ IsStart(e, t)
               /\ event[e].weekly => now <= t /\ t < now + Window
  BY <1>1, ExpandIs
<1>3. \A e, t : Shows(e, t).of = e /\ Shows(e, t).start = t
  BY DEF Shows
<1>4. o \in Weeks!Due <=> /\ o \in Weeks!Expand(rows, now, now + Window)
                          /\ event[o.of].weekly => <<o.of, Weeks!Date(o.start)>> \notin marked
  BY DEF Weeks!Due
<1>5. o \in Weeks!Due
         <=> \E e \in rows : \E t \in Int :
               /\ o = Shows(e, t) /\ IsStart(e, t)
               /\ event[e].weekly => now <= t /\ t < now + Window
                                     /\ <<e, Weeks!Date(t)>> \notin marked
  <2> HIDE DEF rows
  <2>1. \A e, t : o = Shows(e, t) => o.of = e /\ o.start = t
    BY <1>3
  <2>2. ASSUME o \in Weeks!Due
        PROVE  \E e \in rows : \E t \in Int :
               /\ o = Shows(e, t) /\ IsStart(e, t)
               /\ event[e].weekly => now <= t /\ t < now + Window
                                     /\ <<e, Weeks!Date(t)>> \notin marked
    <3>1. PICK e \in rows, t \in Int :
            /\ o = Shows(e, t) /\ IsStart(e, t)
            /\ event[e].weekly => now <= t /\ t < now + Window
      BY <1>2, <1>4, <2>2
    <3>2. event[e].weekly => <<e, Weeks!Date(t)>> \notin marked
      BY <1>4, <2>1, <2>2, <3>1
    <3> QED BY <3>1, <3>2
  <2>3. ASSUME NEW e \in rows, NEW t \in Int, o = Shows(e, t), IsStart(e, t),
               event[e].weekly => now <= t /\ t < now + Window
                                  /\ <<e, Weeks!Date(t)>> \notin marked
        PROVE  o \in Weeks!Due
    <3>1. o \in Weeks!Expand(rows, now, now + Window)
      BY <1>2, <2>3
    <3>2. event[o.of].weekly => <<o.of, Weeks!Date(o.start)>> \notin marked
      BY <2>1, <2>3
    <3> QED BY <1>4, <3>1, <3>2
  <2> QED BY <2>2, <2>3
<1> DEFINE Taken(e, t) ==
             /\ e \in rows
             /\ event[e].weekly => now <= t /\ t < now + Window
                                   /\ <<e, Weeks!Date(t)>> \notin marked
           Wanted(e, t) ==
             /\ event[e].open /\ now <= t
             /\ event[e].weekly => t < now + Window /\ <<e, Weeks!Date(t)>> \notin marked
             /\ ~event[e].weekly => t <= now + Window /\ ~event[e].notified
<1>6. \A e \in Events : \A t \in Int : IsStart(e, t) => (Taken(e, t) <=> Wanted(e, t))
  <2> TAKE e \in Events
  <2>1. /\ event[e].weekly \in BOOLEAN /\ event[e].start \in Int
        /\ event[e].open \in BOOLEAN /\ event[e].notified \in BOOLEAN
        /\ \A t : IsStart(e, t) => t \in Int /\ t >= event[e].start
        /\ \A t : IsStart(e, t) /\ ~event[e].weekly => t = event[e].start
    <3>1. event[e].start \in 0..MaxNow
      BY StartIs
    <3> QED BY <1>1, <3>1, StartIs
  <2> QED BY <1>1, <2>1
<1>7. \A e \in rows : e \in Events
  OBVIOUS
<1> HIDE DEF rows
<1> QED BY <1>5, <1>6, <1>7

LEMMA WeeksInit == Weeks!Init => WeeksInv
<1> SUFFICES ASSUME Weeks!Init PROVE WeeksInv
  OBVIOUS
<1> DEFINE NewRow == [start: Starts, length: Lengths, weekly: BOOLEAN, open: BOOLEAN,
                      notified: {FALSE}]
<1>1. now = 0 /\ shift \in Shifts /\ marked = {} /\ sent = {} /\ checked = -1
      /\ \A e \in Events : Weeks!Shown(event[e].start)
  BY DEF Weeks!Init
<1>2. event \in [Events -> NewRow]
  BY DEF Weeks!Init
<1>3. \A x \in NewRow : x \in EventRow /\ x.notified = FALSE
  BY WeekIs DEF EventRow
<1> HIDE DEF NewRow
<1>4. \A e \in Events : event[e].notified = FALSE
  BY <1>2, <1>3
<1>5. RowsAreShown
  BY <1>1, <1>2, <1>3 DEF RowsAreShown
<1> QED BY <1>1, <1>4, <1>5, WeekIs DEF WeeksInv

LEMMA WeeksPass == WeeksInv /\ Weeks!Pass => WeeksInv'
<1> SUFFICES ASSUME WeeksInv, Weeks!Pass PROVE WeeksInv'
  OBVIOUS
<1> USE WeekIs
<1>1. now \in Int /\ now >= 0 /\ now < MaxNow /\ now' = now + 1 /\ checked \in Int /\ checked <= now
      /\ UNCHANGED <<shift, event, marked, sent, checked>>
  BY DEF Weeks!Pass, WeeksInv
<1>2. RowsAreShown'
  BY <1>1 DEF WeeksInv, RowsAreShown, Weeks!Shown, Weeks!Wall, Weeks!Instant
<1>3. \A e \in Events : Weeks!StartsOf(e)' = Weeks!StartsOf(e)
  BY <1>1 DEF Weeks!StartsOf, Weeks!Wall
<1>4. \A t : Weeks!Date(t)' = Weeks!Date(t)
  BY <1>1 DEF Weeks!Date, Weeks!Wall
<1>5. now' \in 0..MaxNow /\ checked' \in Int /\ checked' <= now' /\ checked' # now'
  BY <1>1
<1>6. ASSUME NEW r \in sent'
      PROVE  /\ r = [of |-> r.of, start |-> r.start, at |-> r.at]
             /\ r.of \in Events /\ r.at \in 0..now'
             /\ event'[r.of].open /\ r.start \in Weeks!StartsOf(r.of)'
             /\ r.start - Window <= r.at /\ r.at <= r.start
             /\ event'[r.of].weekly => <<r.of, Weeks!Date(r.start)'>> \in marked'
             /\ ~event'[r.of].weekly => event'[r.of].notified
             /\ \A s \in sent' : s.of = r.of /\ s.start = r.start => s = r
  <2>1. /\ r \in sent /\ r = [of |-> r.of, start |-> r.start, at |-> r.at]
        /\ r.of \in Events /\ r.at \in 0..now
        /\ event[r.of].open /\ r.start \in Weeks!StartsOf(r.of)
        /\ r.start - Window <= r.at /\ r.at <= r.start
        /\ event[r.of].weekly => <<r.of, Weeks!Date(r.start)>> \in marked
        /\ ~event[r.of].weekly => event[r.of].notified
        /\ \A s \in sent : s.of = r.of /\ s.start = r.start => s = r
    BY <1>1, <1>6 DEF WeeksInv
  <2>2. r.at \in 0..now'
    BY <1>1, <2>1
  <2> QED BY <1>1, <1>3, <1>4, <2>1, <2>2
<1>7. /\ \A m \in marked' : \E r \in sent' : m = <<r.of, Weeks!Date(r.start)'>>
      /\ \A e \in Events : event'[e].notified => \E r \in sent' : r.of = e
  BY <1>1, <1>4 DEF WeeksInv
<1> QED BY <1>2, <1>5, <1>6, <1>7 DEF WeeksInv

(* Two occurrences of an event are told apart by their date.               *)
LEMMA SameDate ==
  ASSUME RowsAreShown, NEW e \in Events, event[e].weekly, NEW s, NEW t,
         IsStart(e, s), IsStart(e, t), Weeks!Date(s) = Weeks!Date(t)
  PROVE  s = t
<1> DEFINE start == event[e].start
           a == Weeks!Wall(start)
<1>1. start \in 0..MaxNow /\ Weeks!Shown(start) /\ shift \in Shifts /\ start \in Int
      /\ WEEK \in Nat \ {0} /\ a \in Int
  <2>1. start \in 0..MaxNow /\ Weeks!Shown(start) /\ shift \in Shifts
    BY StartIs
  <2>2. start \in Int /\ WEEK \in Nat \ {0}
    BY <2>1, WeekIs
  <2> QED BY <2>1, <2>2, WallIs
<1>2. Occurrence(start, 0) = start
  BY <1>1, WeeksFollow
<1>3. PICK j \in Nat : s = Occurrence(start, j)
  BY <1>2 DEF IsStart
<1>4. PICK k \in Nat : t = Occurrence(start, k)
  BY <1>2 DEF IsStart
<1>5. Weeks!Wall(s) = a + WEEK * j /\ Weeks!Wall(t) = a + WEEK * k
  BY <1>1, <1>3, <1>4, EveryWeekIsShown
<1>6. (a + WEEK * j) \div WEEK = (a + WEEK * k) \div WEEK
  BY <1>5 DEF Weeks!Date
<1> HIDE DEF a
<1>7. j = k
  BY <1>1, <1>6, SameMultiple
<1> QED BY <1>3, <1>4, <1>7

LEMMA WeeksRemind == WeeksInv /\ Weeks!Remind => WeeksInv'
<1> SUFFICES ASSUME WeeksInv, Weeks!Remind PROVE WeeksInv'
  OBVIOUS
<1> DEFINE Reminding(o) == [of |-> o.of, start |-> o.start, at |-> now]
<1>1. /\ now \in 0..MaxNow /\ now \in Int /\ RowsAreShown /\ Window \in Int /\ MaxNow \in Int
      /\ now >= 0 /\ now <= MaxNow
  BY WeekIs DEF WeeksInv
<1>2. /\ sent' = sent \cup {Reminding(o) : o \in Weeks!Due}
      /\ marked' = marked \cup {<<o.of, Weeks!Date(o.start)>> :
                                  o \in {p \in Weeks!Due : event[p.of].weekly}}
      /\ event' = [e \in Events |->
           [event[e] EXCEPT !.notified = @ \/ (~event[e].weekly /\ \E o \in Weeks!Due : o.of = e)]]
      /\ checked' = now /\ now' = now /\ shift' = shift
  BY DEF Weeks!Remind, Weeks!MarkOccurrences
<1>3. \A e \in Events :
        /\ event'[e].start = event[e].start /\ event'[e].length = event[e].length
        /\ event'[e].weekly = event[e].weekly /\ event'[e].open = event[e].open
        /\ event'[e].notified
             <=> event[e].notified \/ (~event[e].weekly /\ \E o \in Weeks!Due : o.of = e)
        /\ event'[e] \in EventRow
  <2> TAKE e \in Events
  <2> DEFINE told == event[e].notified \/ (~event[e].weekly /\ \E o \in Weeks!Due : o.of = e)
  <2>1. event[e] \in EventRow
    BY <1>1 DEF RowsAreShown
  <2>2. event'[e] = [event[e] EXCEPT !.notified = told]
    BY <1>2
  <2>3. told \in BOOLEAN
    BY <2>1 DEF EventRow
  <2> HIDE DEF told
  <2>4. /\ event'[e].start = event[e].start /\ event'[e].length = event[e].length
        /\ event'[e].weekly = event[e].weekly /\ event'[e].open = event[e].open
        /\ event'[e].notified = told
        /\ event'[e] \in EventRow
    BY <2>1, <2>2, <2>3 DEF EventRow
  <2> QED BY <2>4 DEF told
<1>4. RowsAreShown'
  <2>1. event' \in [Events -> EventRow]
    BY <1>2, <1>3
  <2>2. \A e \in Events : Weeks!Shown(event[e].start)'
    <3> TAKE e \in Events
    <3>1. event'[e].start = event[e].start /\ shift' = shift /\ Weeks!Shown(event[e].start)
      BY <1>1, <1>2, <1>3 DEF RowsAreShown
    <3> QED BY <3>1 DEF Weeks!Shown, Weeks!Wall, Weeks!Instant
  <2> QED BY <1>1, <1>2, <2>1, <2>2 DEF RowsAreShown
<1>5. \A e \in Events : Weeks!StartsOf(e)' = Weeks!StartsOf(e)
  BY <1>2, <1>3 DEF Weeks!StartsOf, Weeks!Wall
<1>6. \A t : Weeks!Date(t)' = Weeks!Date(t)
  BY <1>2 DEF Weeks!Date, Weeks!Wall
<1>7. ASSUME NEW o \in Weeks!Due
      PROVE  /\ o.of \in Events /\ o.start \in Int /\ event[o.of].open
             /\ o.start \in Weeks!StartsOf(o.of)
             /\ now <= o.start /\ o.start <= now + Window
             /\ event[o.of].weekly => <<o.of, Weeks!Date(o.start)>> \notin marked
             /\ ~event[o.of].weekly => ~event[o.of].notified
  <2>1. PICK e \in Events, t \in Int :
          /\ o = Shows(e, t) /\ event[e].open /\ IsStart(e, t) /\ now <= t
          /\ event[e].weekly => t < now + Window /\ <<e, Weeks!Date(t)>> \notin marked
          /\ ~event[e].weekly => t <= now + Window /\ ~event[e].notified
    BY <1>1, DueIs
  <2>2. o.of = e /\ o.start = t
    BY <2>1 DEF Shows
  <2>3. t <= now + Window
    BY <1>1, <2>1
  <2>4. t \in Weeks!Horizon
    BY <1>1, <2>1, <2>3 DEF Weeks!Horizon
  <2>5. t \in Weeks!StartsOf(e)
    BY <1>1, <2>1, <2>4, StartIs
  <2> QED BY <2>1, <2>2, <2>3, <2>5
<1>8. ASSUME NEW r \in sent
      PROVE  /\ r = [of |-> r.of, start |-> r.start, at |-> r.at]
             /\ r.of \in Events /\ r.at \in 0..now
             /\ event[r.of].open /\ r.start \in Weeks!StartsOf(r.of)
             /\ r.start - Window <= r.at /\ r.at <= r.start
             /\ event[r.of].weekly => <<r.of, Weeks!Date(r.start)>> \in marked
             /\ ~event[r.of].weekly => event[r.of].notified
             /\ \A s \in sent : s.of = r.of /\ s.start = r.start => s = r
  BY DEF WeeksInv
<1>9. ASSUME NEW r \in sent, NEW o \in Weeks!Due, r.of = o.of, r.start = o.start PROVE FALSE
  BY <1>7, <1>8, <1>9
<1>10. \A o : /\ Reminding(o).of = o.of /\ Reminding(o).start = o.start /\ Reminding(o).at = now
              /\ Reminding(o) = [of |-> Reminding(o).of, start |-> Reminding(o).start, at |-> Reminding(o).at]
  OBVIOUS
<1>11. /\ \A r : r \in sent' <=> r \in sent \/ \E o \in Weeks!Due : r = Reminding(o)
       /\ \A m : m \in marked' <=> \/ m \in marked
                                   \/ \E o \in Weeks!Due : /\ event[o.of].weekly
                                                           /\ m = <<o.of, Weeks!Date(o.start)>>
  BY <1>2
<1>12. \A o, p : o.of = p.of /\ o.start = p.start => Reminding(o) = Reminding(p)
  OBVIOUS
<1> HIDE DEF Reminding
<1>13. ASSUME NEW r \in sent'
       PROVE  /\ r = [of |-> r.of, start |-> r.start, at |-> r.at]
              /\ r.of \in Events /\ r.at \in 0..now'
              /\ event'[r.of].open /\ r.start \in Weeks!StartsOf(r.of)'
              /\ r.start - Window <= r.at /\ r.at <= r.start
              /\ event'[r.of].weekly => <<r.of, Weeks!Date(r.start)'>> \in marked'
              /\ ~event'[r.of].weekly => event'[r.of].notified
              /\ \A s \in sent' : s.of = r.of /\ s.start = r.start => s = r
  <2>1. CASE r \in sent
    <3>1. ASSUME NEW s \in sent', s.of = r.of, s.start = r.start PROVE s = r
      <4>1. CASE s \in sent
        BY <1>8, <2>1, <3>1, <4>1
      <4>2. CASE \E o \in Weeks!Due : s = Reminding(o)
        BY <1>9, <1>10, <2>1, <3>1, <4>2
      <4> QED BY <1>11, <4>1, <4>2
    <3>2. /\ r = [of |-> r.of, start |-> r.start, at |-> r.at]
          /\ r.of \in Events /\ r.at \in 0..now'
          /\ r.start - Window <= r.at /\ r.at <= r.start
      BY <1>2, <1>8, <2>1
    <3>3. event'[r.of].open /\ r.start \in Weeks!StartsOf(r.of)'
      BY <1>3, <1>5, <1>8, <2>1
    <3>4. event'[r.of].weekly => <<r.of, Weeks!Date(r.start)'>> \in marked'
      BY <1>3, <1>6, <1>8, <1>11, <2>1
    <3>5. ~event'[r.of].weekly => event'[r.of].notified
      BY <1>3, <1>8, <2>1
    <3> QED BY <3>1, <3>2, <3>3, <3>4, <3>5
  <2>2. CASE \E o \in Weeks!Due : r = Reminding(o)
    <3>1. PICK o \in Weeks!Due : r = Reminding(o)
      BY <2>2
    <3>2. r.of = o.of /\ r.start = o.start /\ r.at = now
          /\ r = [of |-> r.of, start |-> r.start, at |-> r.at]
      BY <1>10, <3>1
    <3>3. \A s \in sent' : s.of = r.of /\ s.start = r.start => s = r
      BY <1>9, <1>10, <1>11, <1>12, <3>1, <3>2
    <3>4. r.of \in Events /\ r.at \in 0..now' /\ r.start - Window <= r.at /\ r.at <= r.start
      <4>1. /\ o.of \in Events /\ o.start \in Int /\ now <= o.start /\ o.start <= now + Window
        BY <1>7
      <4> QED BY <1>1, <1>2, <3>2, <4>1
    <3>5. event'[r.of].weekly => <<r.of, Weeks!Date(r.start)'>> \in marked'
      BY <1>3, <1>6, <1>7, <1>11, <3>2
    <3>6. ~event'[r.of].weekly => event'[r.of].notified
      BY <1>3, <3>2, <3>4
    <3>7. event'[r.of].open /\ r.start \in Weeks!StartsOf(r.of)'
      <4>1. o.of \in Events /\ event[o.of].open /\ o.start \in Weeks!StartsOf(o.of)
        BY <1>7
      <4> QED BY <1>3, <1>5, <3>2, <4>1
    <3> QED BY <3>2, <3>3, <3>4, <3>5, <3>6, <3>7
  <2> QED BY <1>11, <2>1, <2>2
<1>14. ASSUME NEW m \in marked'
       PROVE  \E r \in sent' : m = <<r.of, Weeks!Date(r.start)'>>
  <2>1. CASE m \in marked
    BY <1>6, <1>11, <2>1 DEF WeeksInv
  <2>2. CASE m \notin marked
    <3>1. PICK o \in Weeks!Due : m = <<o.of, Weeks!Date(o.start)>>
      BY <1>11, <2>2
    <3>2. Reminding(o) \in sent'
      BY <1>11
    <3> QED BY <1>6, <1>10, <3>1, <3>2
  <2> QED BY <2>1, <2>2
<1>15. ASSUME NEW e \in Events, event'[e].notified
       PROVE  \E r \in sent' : r.of = e
  <2>1. CASE event[e].notified
    BY <1>11, <2>1 DEF WeeksInv
  <2>2. CASE ~event[e].notified
    BY <1>3, <1>10, <1>11, <1>15, <2>2
  <2> QED BY <2>1, <2>2
<1>16. ASSUME NEW e \in Events, NEW t \in Weeks!StartsOf(e)', event'[e].open,
              now <= t, t < now + Window
       PROVE  \E r \in sent' : r.of = e /\ r.start = t
  <2>1. t \in Weeks!StartsOf(e) /\ IsStart(e, t) /\ t \in Int /\ event[e].open
        /\ event[e].weekly \in BOOLEAN /\ event[e].notified \in BOOLEAN
    BY <1>1, <1>3, <1>5, <1>16, StartIs
  <2>2. CASE /\ event[e].weekly => <<e, Weeks!Date(t)>> \notin marked
             /\ ~event[e].weekly => ~event[e].notified
    <3>1. Shows(e, t) \in Weeks!Due
      <4>1. t <= now + Window
        BY <1>1, <1>16, <2>1
      <4> QED BY <1>1, <1>16, <2>1, <2>2, <4>1, DueIs
    <3>2. Shows(e, t).of = e /\ Shows(e, t).start = t
      BY DEF Shows
    <3>3. Reminding(Shows(e, t)) \in sent'
      BY <1>11, <3>1
    <3> QED BY <1>10, <3>2, <3>3
  <2>3. CASE event[e].weekly /\ <<e, Weeks!Date(t)>> \in marked
    <3>1. PICK r \in sent : <<e, Weeks!Date(t)>> = <<r.of, Weeks!Date(r.start)>>
      BY <2>3 DEF WeeksInv
    <3>2. r.of = e /\ Weeks!Date(r.start) = Weeks!Date(t)
      BY <3>1
    <3>3. IsStart(e, r.start)
      BY <1>1, <1>8, <3>2, StartIs
    <3>4. r.start = t
      BY <1>1, <2>1, <2>3, <3>2, <3>3, SameDate
    <3> QED BY <1>11, <3>2, <3>4
  <2>4. CASE ~event[e].weekly /\ event[e].notified
    <3>1. PICK r \in sent : r.of = e
      BY <2>4 DEF WeeksInv
    <3>2. IsStart(e, r.start)
      BY <1>1, <1>8, <3>1, StartIs
    <3>3. r.start = t
      BY <1>1, <2>1, <2>4, <3>2, StartIs
    <3> QED BY <1>11, <3>1, <3>3
  <2> QED BY <2>1, <2>2, <2>3, <2>4
<1>17. now' \in 0..MaxNow /\ checked' \in Int /\ checked' <= now'
  BY <1>1, <1>2
<1>18. \A e \in Events : \A t \in Weeks!StartsOf(e)' :
         event'[e].open /\ now' <= t /\ t < now' + Window => \E r \in sent' : r.of = e /\ r.start = t
  BY <1>2, <1>16
<1> QED BY <1>4, <1>13, <1>14, <1>15, <1>17, <1>18 DEF WeeksInv

LEMMA WeeksStep == WeeksInv /\ [Weeks!Next]_weekVars => WeeksInv'
<1> SUFFICES ASSUME WeeksInv, [Weeks!Next]_weekVars PROVE WeeksInv'
  OBVIOUS
<1>1. CASE Weeks!Next
  BY <1>1, WeeksPass, WeeksRemind DEF Weeks!Next
<1>2. CASE UNCHANGED weekVars
  <2>1. UNCHANGED <<now, shift, event, marked, sent, checked>>
    BY <1>2 DEF weekVars
  <2>2. \A e \in Events : Weeks!StartsOf(e)' = Weeks!StartsOf(e)
    BY <2>1 DEF Weeks!StartsOf, Weeks!Wall
  <2>3. \A t : Weeks!Date(t)' = Weeks!Date(t)
    BY <2>1 DEF Weeks!Date, Weeks!Wall
  <2>4. RowsAreShown'
    BY <2>1 DEF WeeksInv, RowsAreShown, Weeks!Shown, Weeks!Wall, Weeks!Instant
  <2>5. \A r \in sent : r.of \in Events
    BY DEF WeeksInv
  <2> QED BY <2>1, <2>2, <2>3, <2>4, <2>5 DEF WeeksInv
<1> QED BY <1>1, <1>2

LEMMA WeeksImplies == WeeksInv => Weeks!OccurrencesAreRight
<1> SUFFICES ASSUME WeeksInv PROVE Weeks!OccurrencesAreRight
  OBVIOUS
<1>1. RowsAreShown /\ now \in 0..MaxNow /\ now \in Int /\ now <= MaxNow /\ Window \in Int
      /\ Window >= 1 /\ MaxNow \in Int
  BY WeekIs DEF WeeksInv
<1>2. ASSUME NEW to \in {now + 1, now + Window, MaxNow}
      PROVE  {<<o.of, o.start>> : o \in Weeks!List(now, to)}
               = {x \in Events \X (now..(to - 1)) : x[2] \in Weeks!StartsOf(x[1])}
  <2>1. to \in Int /\ to <= MaxNow + Window
    BY <1>1
  <2> QED BY <1>1, <2>1, ListIs
<1>3. LET on == {x \in Events \X (0..now) :
                   x[2] \in Weeks!StartsOf(x[1]) /\ now < x[2] + event[x[1]].length}
      IN {<<o.of, o.start>> : o \in Weeks!Active} = {x \in on : \A y \in on : y[2] <= x[2]}
  BY <1>1, ActiveIs
<1>4. \A r \in sent :
       /\ event[r.of].open /\ r.start \in Weeks!StartsOf(r.of)
       /\ r.start - Window <= r.at /\ r.at <= r.start
       /\ \A s \in sent : s.of = r.of /\ s.start = r.start => s = r
  BY DEF WeeksInv
<1>5. checked = now =>
       \A e \in Events : \A t \in Weeks!StartsOf(e) :
         event[e].open /\ now <= t /\ t < now + Window => \E r \in sent : r.of = e /\ r.start = t
  BY DEF WeeksInv
<1> QED BY <1>2, <1>3, <1>4, <1>5 DEF Weeks!OccurrencesAreRight

(* Whenever the place's clock is changed, whatever is asked for: the list  *)
(* shows the occurrences, the event that started last is the one on now,   *)
(* and each occurrence open to all is reminded of once, in its window      *)
(* (plugins/events/recurrence.ts, store.ts).                               *)
THEOREM OccurrencesRight == Weeks!Spec => []OccurrencesAreRight
<1>1. WeeksInv => OccurrencesAreRight
  BY WeeksImplies DEF OccurrencesAreRight
<1> QED BY <1>1, WeeksInit, WeeksStep, PTL DEF Weeks!Spec, weekVars, Weeks!vars

-----------------------------------------------------------------------------
(* All of them: a step of the sum is a step of one part, or of none.       *)
LEMMA JobsIsPart == PartsSpec => Spec
<1>1. PartsInit => Init
  BY DEF PartsInit
<1>2. [PartsNext]_partVars => [Next]_vars
  BY DEF PartsNext, partVars, jobVars
<1> QED BY <1>1, <1>2, PTL DEF PartsSpec, Spec

LEMMA NotifyIsPart == PartsSpec => Notify!Init /\ [][Notify!Next]_(Notify!vars)
<1>1. PartsInit => Notify!Init
  BY DEF PartsInit
<1>2. [PartsNext]_partVars => [Notify!Next]_(Notify!vars)
  BY DEF PartsNext, partVars, notifyVars, Notify!vars
<1> QED BY <1>1, <1>2, PTL DEF PartsSpec

LEMMA RosterIsPart == PartsSpec => Roster!Spec
<1>1. PartsInit => Roster!Init
  BY DEF PartsInit
<1>2. [PartsNext]_partVars => [Roster!Next]_(Roster!vars)
  BY DEF PartsNext, partVars, rosterVars, Roster!vars
<1> QED BY <1>1, <1>2, PTL DEF PartsSpec, Roster!Spec

LEMMA DailyIsPart == PartsSpec => Daily!Spec
<1>1. PartsInit => Daily!Init
  BY DEF PartsInit
<1>2. [PartsNext]_partVars => [Daily!Next]_(Daily!vars)
  BY DEF PartsNext, partVars, dailyVars, Daily!vars, Daily!projectVars, Daily!questVars
<1> QED BY <1>1, <1>2, PTL DEF PartsSpec, Daily!Spec

LEMMA ReleasesIsPart == PartsSpec => Releases!Spec
<1>1. PartsInit => Releases!Init
  BY DEF PartsInit
<1>2. [PartsNext]_partVars => [Releases!Next]_(Releases!vars)
  BY DEF PartsNext, partVars, releaseVars, Releases!vars
<1> QED BY <1>1, <1>2, PTL DEF PartsSpec, Releases!Spec

LEMMA SchemaIsPart == PartsSpec => Schema!Spec
<1>1. PartsInit => Schema!Init
  BY DEF PartsInit
<1>2. [PartsNext]_partVars => [Schema!Next]_(Schema!vars)
  BY DEF PartsNext, partVars, schemaVars, Schema!vars
<1> QED BY <1>1, <1>2, PTL DEF PartsSpec, Schema!Spec

LEMMA WeeksIsPart == PartsSpec => Weeks!Spec
<1>1. PartsInit => Weeks!Init
  BY DEF PartsInit
<1>2. [PartsNext]_partVars => [Weeks!Next]_(Weeks!vars)
  BY DEF PartsNext, partVars, weekVars, Weeks!vars
<1> QED BY <1>1, <1>2, PTL DEF PartsSpec, Weeks!Spec

(* Whatever part is explored, what the run checks of it holds: owners,     *)
(* notices, members, spotlights and quests, releases, starts and weeks.    *)
THEOREM PartsHold ==
  PartsSpec => /\ [](/\ OwnersAreAudited /\ RosterIsCurrent /\ SyncsSpareTextAndChannel
                     /\ StartsAreSafe /\ OccurrencesAreRight)
               /\ LedgerIsKept /\ DailyIsKept
BY OwnersAudited, LedgerFollows, RosterCurrent, DailyKept, SyncsSpare, StartsSafe,
   OccurrencesRight, JobsIsPart, NotifyIsPart, RosterIsPart, DailyIsPart, ReleasesIsPart,
   SchemaIsPart, WeeksIsPart, PTL
=============================================================================
