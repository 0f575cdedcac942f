----------------------------- MODULE MCDelivery -----------------------------
(* What has to arrive in the end, each explored on its own: `part' says    *)
(* which.                                                                  *)
(* posts: one user posts two consults at once and more later, the bot down.*)
(* consults: one user posts two consults, at once or one after the other,  *)
(*   which the bot carries to Discord in two ticks that may lose one       *)
(*   answer and stop once; only the second can be sent whenever it is      *)
(*   tried, so the first must not hold it up.                              *)
(* notices: two reviews with a batch of one, whose failure ends the tick,  *)
(*   before a thread of the forum, which may be deleted before it is       *)
(*   announced; the bot stops once.                                        *)
(* admissions: two accounts, a page of one, two syncs, an administrator.   *)
EXTENDS Consults, TLC

CONSTANTS
  Accounts, Syncs, Admins, PageSize, MaxRevision,  \* admissions
  v1, v2, f1, s1, s2

VARIABLES part,
  ledger, queue, delivered, run, up, stops,
  registered, admission, cursor, sync, opened

Notices == INSTANCE Notify WITH
  Items <- {v1, v2, f1}, Kind <- (v1 :> "review") @@ (v2 :> "review") @@ (f1 :> "forum"),
  Batch <- 1, MaxCrashes <- 1, Ticks <- {1}, crashes <- stops

Admissions == INSTANCE Registrations WITH Users <- Accounts

ASSUME NoticesAssumption == Notices!NotifyAssumption
ASSUME AccountsAssumption == Admissions!RegistrationsAssumption

consultVars == vars
noticeVars == <<ledger, queue, delivered, run, up, stops>>
admissionVars == <<registered, admission, cursor, sync, opened>>
partVars == <<part, consultVars, noticeVars, admissionVars>>

DeliveryInit ==
  /\ part \in {"posts", "consults", "notices", "admissions"}
  /\ Init /\ Notices!Init /\ Admissions!Init
  /\ part # "admissions" => registered = {}

(* Bounds of the model, where the bot runs: of the threads on Discord one  *)
(* is deleted, and no more posts are under way than there are rows left.   *)
OneDeletion == Cardinality({t \in Threads : thread[t].state = "deleted"}) <= 1
PostsFit ==
  Cardinality({x \in Users \X Requests : asking[x[1]][x[2]]}) + Cardinality(Rows) <= NConsults

(* The two reviews are interchangeable until they are published.           *)
ReviewsInOrder == queue[v2] # 0 => queue[v1] # 0

DeliveryNext ==
  /\ UNCHANGED part
  /\ \/ part = "posts" /\ Next /\ UNCHANGED bot
     \/ part = "consults" /\ Next /\ OneDeletion' /\ PostsFit'
     \/ part \notin {"posts", "consults"} /\ UNCHANGED consultVars
  /\ \/ part = "notices" /\ Notices!Next /\ ReviewsInOrder'
     \/ part # "notices" /\ UNCHANGED noticeVars
  /\ \/ part = "admissions" /\ Admissions!Next
     \/ part # "admissions" /\ UNCHANGED admissionVars

(* The fairness of Consults, Notify and Registrations.  A behaviour is of  *)
(* one part, so conditions of different parts can share a formula.         *)
OfConsults == part = "consults" /\ UNCHANGED <<part, noticeVars, admissionVars>>
OfNotices == part = "notices" /\ UNCHANGED <<part, consultVars, admissionVars>>
OfAdmissions == part = "admissions" /\ UNCHANGED <<part, consultVars, noticeVars>>

Weak ==
  /\ WF_partVars(
       \/ OfConsults /\ \E c \in Consults :
            CreateThread(c) \/ RecordThread(c) \/ FetchThread(c) \/ ArchiveThread(c)
       \/ OfNotices /\ Notices!StartTick(1)
       \/ OfAdmissions /\ Admissions!StartSync(s1))
  /\ WF_partVars(
       \/ OfConsults /\ EndTick
       \/ OfNotices /\ Notices!Restart
       \/ OfAdmissions /\ Admissions!StartSync(s2))
  /\ WF_partVars(OfAdmissions /\ Admissions!Stored(s1))
  /\ WF_partVars(OfAdmissions /\ Admissions!Stored(s2))

Strong ==
  /\ SF_partVars(
       \/ OfConsults /\ BeginPosts /\ bot' # bot
       \/ OfNotices /\ run[1].stage = 1 /\ Notices!Advance(1)
       \/ OfAdmissions /\ Admissions!Listed(s1))
  /\ SF_partVars(
       \/ OfConsults /\ BeginNotices /\ bot' # Idle
       \/ OfNotices /\ run[1].stage = 2 /\ Notices!Advance(1)
       \/ OfAdmissions /\ Admissions!Listed(s2))
  /\ SF_partVars(
       \/ OfConsults /\ CreateThread(2) /\ bot'.thread # None
       \/ OfNotices /\ Notices!Post(1, f1))
  /\ SF_partVars(
       \/ OfConsults /\ RecordThread(2) /\ consult' # consult
       \/ OfNotices /\ Notices!Post(1, v1))
  /\ SF_partVars(
       \/ OfConsults /\ (FetchThread(2) \/ ArchiveThread(2)) /\ consult' # consult
       \/ OfNotices /\ Notices!Post(1, v2))
  /\ SF_partVars(OfNotices /\ Notices!Answered(1, f1))
  /\ SF_partVars(OfNotices /\ Notices!Answered(1, v1))
  /\ SF_partVars(OfNotices /\ Notices!Answered(1, v2))

DeliverySpec == DeliveryInit /\ [][DeliveryNext]_partVars /\ Weak /\ Strong

(* The properties of the parts, each stated and explained in its module.   *)
(* Every consultation gets one thread and, where the bot runs, an end,     *)
(* faults aside, and nobody opens more of them than he could post at once. *)
ConsultsAreServed ==
  /\ [](ThreadsAreAccounted /\ PostsAreLimited)
  /\ part = "consults" => ConsultsAreCarriedThrough
EveryNoticeArrives == Notices!EveryNoticeArrives
AdmissionsConverge == Admissions!AdmissionsConverge
=============================================================================
